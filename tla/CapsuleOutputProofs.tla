------------------------ MODULE CapsuleOutputProofs ------------------------
(***************************************************************************)
(* Proofs about CapsuleStream for every script, every capacity and every   *)
(* disturbance: what becomes of the items a driver has emitted on their    *)
(* way through two bridges and a stream to the log.                        *)
(***************************************************************************)
EXTENDS CapsuleStreamProofs, FiniteSetTheorems

-----------------------------------------------------------------------------
(* What a sequence of events says.  The operators take the script and the  *)
(* number of items said as parameters, so that they speak of a state and   *)
(* of its successor alike.                                                 *)

\* The items an event reports; the detail of a failure is none.
Of(e) == e.of \ {0}
Items(q) == UNION {Of(q[n]) : n \in DOMAIN q}

\* The kinds of which a sequence of events says that some are missing.
Marks(q) == {q[n].kind : n \in {m \in DOMAIN q : q[m].of = {}}}

\* An item that may come before another one: not the same, and of one kind in the order of
\* the script, except for usage, which is added up.
Less(sc, i, j) == i # j /\ (sc[i] = sc[j] /\ sc[i] # "usage" => i < j)
Before(sc, S, T) == \A i \in S, j \in T : Less(sc, i, j)
Ordered(sc, q) == \A m, n \in DOMAIN q : m < n => Before(sc, Of(q[m]), Of(q[n]))

\* An event reports items of its kind that were said, only usage more than one; output is
\* never a marker.
Genuine(sc, k, e) ==
    /\ \A i \in Of(e) : i \in 1..k /\ sc[i] = e.kind
    /\ e.kind # "usage" => \A i, j \in Of(e) : i = j
    /\ e.kind = "output" => e.of # {}
Valid(sc, k, q) == \A n \in DOMAIN q : Genuine(sc, k, q[n])

Sound(sc, k, q) == Ordered(sc, q) /\ Valid(sc, k, q)

\* The output among the first k items that is in S is the beginning of it.
NoGap(sc, k, S) ==
    \A i, j \in 1..k : sc[i] = "output" /\ sc[j] = "output" /\ i < j /\ j \in S => i \in S

-----------------------------------------------------------------------------
(* Sequences of events in a row. *)

\* No event says nothing.
LEMMA NothingSaid ==
    ASSUME NEW sc, NEW k
    PROVE  Items(<<>>) = {} /\ Marks(<<>>) = {} /\ Sound(sc, k, <<>>)
  BY DEF Items, Marks, Sound, Ordered, Valid

\* What a single event says.
LEMMA OneEvent ==
    ASSUME NEW sc, NEW k, NEW e
    PROVE  /\ Items(<<e>>) = Of(e)
           /\ Marks(<<e>>) = (IF e.of = {} THEN {e.kind} ELSE {})
           /\ Ordered(sc, <<e>>)
           /\ Valid(sc, k, <<e>>) <=> Genuine(sc, k, e)
  <1>1. DOMAIN <<e>> = {1} /\ <<e>>[1] = e
    OBVIOUS
  <1>2. \A m, n \in {1} : ~(m < n)
    OBVIOUS
  <1> DEFINE q == <<e>>
  <1>3. DOMAIN q = {1} /\ q[1] = e
    BY <1>1
  <1> HIDE DEF q
  <1>4. Items(q) = Of(e)
    BY <1>3 DEF Items
  <1>5. Marks(q) = (IF e.of = {} THEN {e.kind} ELSE {})
    BY <1>3 DEF Marks
  <1>6. Ordered(sc, q)
    BY <1>2, <1>3 DEF Ordered
  <1>7. Valid(sc, k, q) <=> Genuine(sc, k, e)
    BY <1>3 DEF Valid
  <1>8. QED
    BY <1>4, <1>5, <1>6, <1>7 DEF q

\* The places of two sequences in a row.
LEMMA Places ==
    ASSUME NEW S, NEW a \in Seq(S), NEW b \in Seq(S)
    PROVE  /\ \A n \in DOMAIN a : n \in DOMAIN (a \o b) /\ (a \o b)[n] = a[n]
           /\ \A n \in DOMAIN b : n + Len(a) \in DOMAIN (a \o b) /\ (a \o b)[n + Len(a)] = b[n]
           /\ \A n \in DOMAIN (a \o b) :
                 \/ n \in DOMAIN a
                 \/ n - Len(a) \in DOMAIN b /\ n = (n - Len(a)) + Len(a)
           /\ Len(a) \in Nat /\ DOMAIN a = 1..Len(a) /\ DOMAIN b \subseteq Nat \ {0}
  <1>1. Len(a) \in Nat /\ Len(b) \in Nat /\ DOMAIN a = 1..Len(a) /\ DOMAIN b = 1..Len(b)
    OBVIOUS
  <1>2. a \o b \in Seq(S) /\ Len(a \o b) = Len(a) + Len(b) /\ DOMAIN (a \o b) = 1..Len(a) + Len(b)
    BY ConcatType
  <1>3. \A n \in 1..Len(a) + Len(b) : (a \o b)[n] = IF n <= Len(a) THEN a[n] ELSE b[n - Len(a)]
    OBVIOUS
  <1>4. \A x, y \in Nat : \A n \in 1..x : n \in 1..x + y /\ n <= x
    OBVIOUS
  <1>5. \A x, y \in Nat : \A n \in 1..y : n + x \in 1..x + y /\ ~(n + x <= x) /\ n + x - x = n
    OBVIOUS
  <1>6. \A x, y \in Nat : \A n \in 1..x + y : n \in 1..x \/ (n - x \in 1..y /\ n = (n - x) + x)
    OBVIOUS
  <1>7. \A n \in DOMAIN a : n \in DOMAIN (a \o b) /\ (a \o b)[n] = a[n]
    BY <1>1, <1>2, <1>3, <1>4
  <1>8. \A n \in DOMAIN b : n + Len(a) \in DOMAIN (a \o b) /\ (a \o b)[n + Len(a)] = b[n]
    BY <1>1, <1>2, <1>3, <1>5
  <1>9. \A n \in DOMAIN (a \o b) : n \in DOMAIN a \/ (n - Len(a) \in DOMAIN b /\ n = (n - Len(a)) + Len(a))
    BY <1>1, <1>2, <1>6
  <1>10. QED
    BY <1>1, <1>7, <1>8, <1>9

\* Two sequences in a row say what both say, and are in order when both are and nothing of
\* the second should have come before the first.
LEMMA InARow ==
    ASSUME NEW S, NEW a \in Seq(S), NEW b \in Seq(S), NEW sc, NEW k
    PROVE  /\ Items(a \o b) = Items(a) \cup Items(b)
           /\ Marks(a \o b) = Marks(a) \cup Marks(b)
           /\ Sound(sc, k, a \o b) <=> /\ Sound(sc, k, a) /\ Sound(sc, k, b)
                                       /\ Before(sc, Items(a), Items(b))
  <1> DEFINE ab == a \o b
             d == Len(a)
  <1>1. /\ \A n \in DOMAIN a : n \in DOMAIN ab /\ ab[n] = a[n]
        /\ \A n \in DOMAIN b : n + d \in DOMAIN ab /\ ab[n + d] = b[n]
        /\ \A n \in DOMAIN ab : n \in DOMAIN a \/ (n - d \in DOMAIN b /\ n = (n - d) + d)
        /\ d \in Nat /\ DOMAIN a = 1..d /\ DOMAIN b \subseteq Nat \ {0}
    BY Places
  <1> HIDE DEF ab, d
  <1>2. \A n \in DOMAIN ab : (\E m \in DOMAIN a : n = m /\ ab[n] = a[m])
                             \/ (\E m \in DOMAIN b : n = m + d /\ ab[n] = b[m])
    <2> SUFFICES ASSUME NEW n \in DOMAIN ab, n \notin DOMAIN a
                 PROVE  \E m \in DOMAIN b : n = m + d /\ ab[n] = b[m]
      BY <1>1
    <2>1. n - d \in DOMAIN b /\ n = (n - d) + d
      BY <1>1
    <2>2. ab[(n - d) + d] = b[n - d]
      BY <1>1, <2>1
    <2>3. ab[n] = b[n - d]
      BY <2>1, <2>2
    <2>4. QED
      BY <2>1, <2>3
  <1>3. Items(ab) = Items(a) \cup Items(b)
    BY <1>1, <1>2 DEF Items
  <1>4. Marks(ab) = Marks(a) \cup Marks(b)
    <2>1. Marks(ab) \subseteq Marks(a) \cup Marks(b)
      BY <1>2 DEF Marks
    <2>2. Marks(a) \subseteq Marks(ab)
      BY <1>1 DEF Marks
    <2>3. Marks(b) \subseteq Marks(ab)
      <3> SUFFICES ASSUME NEW n \in DOMAIN b, b[n].of = {}
                   PROVE  b[n].kind \in Marks(ab)
        BY DEF Marks
      <3>1. n + d \in DOMAIN ab /\ ab[n + d] = b[n]
        BY <1>1
      <3>2. QED
        BY <3>1 DEF Marks
    <2>4. QED
      BY <2>1, <2>2, <2>3
  <1>5. Valid(sc, k, ab) <=> Valid(sc, k, a) /\ Valid(sc, k, b)
    <2>1. Valid(sc, k, ab) => Valid(sc, k, a) /\ Valid(sc, k, b)
      <3>1. ASSUME Valid(sc, k, ab)
            PROVE  Valid(sc, k, a)
        BY <1>1, <3>1 DEF Valid
      <3>2. ASSUME Valid(sc, k, ab), NEW n \in DOMAIN b
            PROVE  Genuine(sc, k, b[n])
        <4>1. n + d \in DOMAIN ab /\ ab[n + d] = b[n]
          BY <1>1
        <4>2. QED
          BY <3>2, <4>1 DEF Valid
      <3>3. QED
        BY <3>1, <3>2 DEF Valid
    <2>2. Valid(sc, k, a) /\ Valid(sc, k, b) => Valid(sc, k, ab)
      BY <1>2 DEF Valid
    <2>3. QED
      BY <2>1, <2>2
  <1>6. ASSUME Ordered(sc, ab)
        PROVE  Ordered(sc, a) /\ Ordered(sc, b) /\ Before(sc, Items(a), Items(b))
    <2>1. Ordered(sc, a)
      BY <1>1, <1>6 DEF Ordered
    <2>2. ASSUME NEW m \in DOMAIN b, NEW n \in DOMAIN b, m < n
          PROVE  Before(sc, Of(b[m]), Of(b[n]))
      <3>1. m + d \in DOMAIN ab /\ n + d \in DOMAIN ab /\ ab[m + d] = b[m] /\ ab[n + d] = b[n]
        BY <1>1
      <3>2. m + d < n + d
        BY <1>1, <2>2
      <3>3. QED
        BY <1>6, <3>1, <3>2 DEF Ordered
    <2>3. ASSUME NEW m \in DOMAIN a, NEW n \in DOMAIN b
          PROVE  Before(sc, Of(a[m]), Of(b[n]))
      <3>1. m \in DOMAIN ab /\ n + d \in DOMAIN ab /\ ab[m] = a[m] /\ ab[n + d] = b[n]
        BY <1>1
      <3>2. m < n + d
        BY <1>1
      <3>3. QED
        BY <1>6, <3>1, <3>2 DEF Ordered
    <2>4. Ordered(sc, b)
      BY <2>2 DEF Ordered
    <2>5. Before(sc, Items(a), Items(b))
      BY <2>3 DEF Before, Items
    <2>6. QED
      BY <2>1, <2>4, <2>5
  <1>7. ASSUME Ordered(sc, a), Ordered(sc, b), Before(sc, Items(a), Items(b))
        PROVE  Ordered(sc, ab)
    <2> SUFFICES ASSUME NEW m \in DOMAIN ab, NEW n \in DOMAIN ab, m < n
                 PROVE  Before(sc, Of(ab[m]), Of(ab[n]))
      BY DEF Ordered
    <2>1. CASE m \in DOMAIN a /\ n \in DOMAIN a
      BY <1>1, <1>7, <2>1 DEF Ordered
    <2>2. CASE m \in DOMAIN a /\ n \notin DOMAIN a
      <3>1. PICK y \in DOMAIN b : ab[n] = b[y]
        BY <1>2, <2>2
      <3>2. Of(ab[m]) \subseteq Items(a) /\ Of(ab[n]) \subseteq Items(b)
        BY <1>1, <2>2, <3>1 DEF Items
      <3>3. QED
        BY <1>7, <3>2 DEF Before
    <2>3. CASE m \notin DOMAIN a
      <3>1. PICK x \in DOMAIN b : m = x + d /\ ab[m] = b[x]
        BY <1>2, <2>3
      <3>2. n \notin DOMAIN a
        <4>1. \A i, j \in Nat : j # 0 /\ i < d + 1 => ~(j + d < i)
          BY <1>1
        <4>2. x \in Nat /\ x # 0
          BY <1>1
        <4>3. SUFFICES ASSUME n \in 1..d PROVE FALSE
          BY <1>1
        <4>4. n \in Nat /\ n < d + 1
          BY <1>1, <4>3
        <4>5. QED
          BY <3>1, <4>1, <4>2, <4>4
      <3>3. PICK y \in DOMAIN b : n = y + d /\ ab[n] = b[y]
        BY <1>2, <3>2
      <3>4. x < y
        BY <1>1, <3>1, <3>3
      <3>5. QED
        BY <1>7, <3>1, <3>3, <3>4 DEF Ordered
    <2>4. QED
      BY <2>1, <2>2, <2>3
  <1>8. QED
    BY <1>3, <1>4, <1>5, <1>6, <1>7 DEF Sound, ab

\* The elements of two sequences in a row.
LEMMA RowPoints ==
    ASSUME NEW S, NEW a \in Seq(S), NEW b \in Seq(S)
    PROVE  /\ a \o b \in Seq(S) /\ Len(a \o b) = Len(a) + Len(b)
           /\ Len(a) \in Nat /\ Len(b) \in Nat
           /\ \A i \in 1..Len(a) + Len(b) :
                 (a \o b)[i] = IF i <= Len(a) THEN a[i] ELSE b[i - Len(a)]
  <1>1. \A i \in 1..Len(a) + Len(b) : (a \o b)[i] = IF i <= Len(a) THEN a[i] ELSE b[i - Len(a)]
    OBVIOUS
  <1>2. QED
    BY <1>1, ConcatType

\* An element added to the second of two sequences in a row is added to both.
LEMMA AppendToRow ==
    ASSUME NEW S, NEW a \in Seq(S), NEW b \in Seq(S), NEW e \in S
    PROVE  a \o Append(b, e) = Append(a \o b, e)
  <1> DEFINE c == Append(b, e)
             ab == a \o b
             l == a \o c
             r == Append(ab, e)
             x == Len(a)
             y == Len(b)
  <1>1. c \in Seq(S) /\ Len(c) = y + 1 /\ c[y + 1] = e /\ \A i \in 1..y : c[i] = b[i]
    OBVIOUS
  <1>2. /\ ab \in Seq(S) /\ Len(ab) = x + y /\ x \in Nat /\ y \in Nat
        /\ \A i \in 1..x + y : ab[i] = IF i <= x THEN a[i] ELSE b[i - x]
    BY RowPoints
  <1> HIDE DEF ab, c
  <1>3. /\ l \in Seq(S) /\ Len(l) = x + Len(c)
        /\ \A i \in 1..x + Len(c) : l[i] = IF i <= x THEN a[i] ELSE c[i - x]
    BY <1>1, RowPoints
  <1>4. /\ r \in Seq(S) /\ Len(r) = Len(ab) + 1 /\ r[Len(ab) + 1] = e
        /\ \A i \in 1..Len(ab) : r[i] = ab[i]
    BY <1>2
  <1> HIDE DEF l, r, x, y
  <1>5. Len(l) = x + y + 1 /\ Len(r) = x + y + 1
    BY <1>1, <1>2, <1>3, <1>4
  <1>6. ASSUME NEW i \in 1..x + y + 1
        PROVE  l[i] = r[i]
    <2>0. i \in 1..x + Len(c)
      BY <1>1, <1>2
    <2>1. CASE i = x + y + 1
      <3>1. ~(i <= x) /\ i - x = y + 1
        BY <1>2, <2>1
      <3>2. l[i] = c[y + 1]
        BY <1>3, <2>0, <3>1
      <3>3. QED
        BY <1>1, <1>2, <1>4, <2>1, <3>2
    <2>2. CASE i # x + y + 1 /\ i <= x
      <3>1. i \in 1..x + y
        BY <1>2, <2>2
      <3>2. QED
        BY <1>2, <1>3, <1>4, <2>0, <2>2, <3>1
    <2>3. CASE i # x + y + 1 /\ ~(i <= x)
      <3>1. i \in 1..x + y /\ i - x \in 1..y
        BY <1>2, <2>3
      <3>2. QED
        BY <1>1, <1>2, <1>3, <1>4, <2>0, <2>3, <3>1
    <2>4. QED
      BY <2>1, <2>2, <2>3
  <1>7. l = r
    BY <1>3, <1>4, <1>5, <1>6
  <1>8. QED
    BY <1>7 DEF l, r, c, ab

\* One more event at the end.
LEMMA AppendSays ==
    ASSUME NEW S, NEW q \in Seq(S), NEW e \in S, NEW sc, NEW k
    PROVE  /\ Items(Append(q, e)) = Items(q) \cup Of(e)
           /\ Marks(Append(q, e)) = Marks(q) \cup (IF e.of = {} THEN {e.kind} ELSE {})
           /\ Sound(sc, k, Append(q, e)) <=> /\ Sound(sc, k, q) /\ Genuine(sc, k, e)
                                             /\ Before(sc, Items(q), Of(e))
  <1> DEFINE one == <<e>>
  <1>1. Append(q, e) = q \o one /\ one \in Seq(S)
    OBVIOUS
  <1>2. /\ Items(one) = Of(e) /\ Marks(one) = (IF e.of = {} THEN {e.kind} ELSE {})
        /\ Sound(sc, k, one) <=> Genuine(sc, k, e)
    BY OneEvent DEF Sound
  <1> HIDE DEF one
  <1>3. /\ Items(q \o one) = Items(q) \cup Items(one)
        /\ Marks(q \o one) = Marks(q) \cup Marks(one)
        /\ Sound(sc, k, q \o one) <=> /\ Sound(sc, k, q) /\ Sound(sc, k, one)
                                      /\ Before(sc, Items(q), Items(one))
    BY <1>1, InARow
  <1>4. QED
    BY <1>1, <1>2, <1>3

\* The first event and the others.
LEMMA HeadSays ==
    ASSUME NEW S, NEW q \in Seq(S), q # <<>>, NEW sc, NEW k
    PROVE  /\ Head(q) = q[1] /\ q[1] \in S /\ Tail(q) \in Seq(S)
           /\ Items(q) = Of(q[1]) \cup Items(Tail(q))
           /\ Marks(q) = (IF q[1].of = {} THEN {q[1].kind} ELSE {}) \cup Marks(Tail(q))
           /\ Sound(sc, k, q) <=> /\ Genuine(sc, k, q[1]) /\ Sound(sc, k, Tail(q))
                                  /\ Before(sc, Of(q[1]), Items(Tail(q)))
  <1>1. Head(q) = q[1] /\ q[1] \in S /\ Tail(q) \in Seq(S) /\ <<q[1]>> \in Seq(S)
    OBVIOUS
  <1> DEFINE one == <<q[1]>>
             e == q[1]
             rest == Tail(q)
  <1>2. q = one \o rest /\ one \in Seq(S) /\ rest \in Seq(S)
    BY <1>1
  <1>3. /\ Items(one) = Of(e) /\ Marks(one) = (IF e.of = {} THEN {e.kind} ELSE {})
        /\ Sound(sc, k, one) <=> Genuine(sc, k, e)
    BY OneEvent DEF Sound
  <1> HIDE DEF one, e, rest
  <1>4. /\ Items(one \o rest) = Items(one) \cup Items(rest)
        /\ Marks(one \o rest) = Marks(one) \cup Marks(rest)
        /\ Sound(sc, k, one \o rest) <=> /\ Sound(sc, k, one) /\ Sound(sc, k, rest)
                                         /\ Before(sc, Items(one), Items(rest))
    BY <1>2, InARow
  <1>5. /\ Items(q) = Of(e) \cup Items(rest)
        /\ Marks(q) = (IF e.of = {} THEN {e.kind} ELSE {}) \cup Marks(rest)
        /\ Sound(sc, k, q) <=> /\ Genuine(sc, k, e) /\ Sound(sc, k, rest)
                               /\ Before(sc, Of(e), Items(rest))
    BY <1>2, <1>3, <1>4
  <1>6. QED
    BY <1>1, <1>5 DEF e, rest

\* What was said before is still genuine when more was said.
LEMMA SoundGrows ==
    ASSUME NEW sc, NEW k \in Nat, NEW n \in Nat, k <= n, NEW q, Sound(sc, k, q)
    PROVE  Sound(sc, n, q)
  <1>1. \A i \in 1..k : i \in 1..n
    OBVIOUS
  <1>2. QED
    BY <1>1 DEF Sound, Valid, Genuine

\* Every item of a sound sequence was said.
LEMMA SoundItems ==
    ASSUME NEW sc, NEW k, NEW q, Sound(sc, k, q)
    PROVE  Items(q) \subseteq 1..k
  BY DEF Sound, Valid, Genuine, Items

-----------------------------------------------------------------------------
(* What the calls of the bridge do to the queue. *)

\* The side queue is for what was cancelled.
Sided(q, c) == (q.side # <<>> => q.side_active) /\ (q.side_active => c)

\* What each way a send ends means.
Outcome(q, e, c, end) ==
    /\ end.how = "ok" => Queued(end.q) = Append(Queued(q), e)
    /\ end.how # "ok" => Queued(end.q) = Queued(q)
    /\ end.how # "overflow" => end.q.overflow = q.overflow
    /\ end.how = "overflow" => end.q.overflow = q.overflow \cup {metadata_of(e)} /\ c
    /\ end.how = "closed" => ~q.reader
    /\ end.how = "cancelled" => c
    /\ end.q.emitted = q.emitted /\ end.q.reader = q.reader
    /\ Sided(end.q, c)

\* A send adds its event behind everything queued, or says what became of it.
LEMMA Sends ==
    ASSUME NEW q \in Bridge, NEW e \in Message, NEW c \in BOOLEAN, Sided(q, c)
    PROVE  /\ Outcome(q, e, c, send(q, e, c)) /\ send(q, e, c).how # "overflow"
           /\ Outcome(q, e, c, send_terminal(q, e, c)) /\ send_terminal(q, e, c).how # "cancelled"
           /\ Outcome(q, e, c, reserve_terminal(q, e, c)) /\ reserve_terminal(q, e, c).how # "cancelled"
  <1>0. q.main \in Seq(Message) /\ q.side \in Seq(Message)
    BY DEF Bridge
  <1>1. \A h : Ends(h, q).q = q /\ Ends(h, q).how = h
    BY DEF Ends
  <1>2. /\ Outcome(q, e, c, Ends("closed", q)) <=> ~q.reader
        /\ Outcome(q, e, c, Ends("cancelled", q)) <=> c
        /\ Outcome(q, e, c, Ends("wait", q))
    BY <1>1 DEF Outcome
  <1>3. ASSUME ~q.side_active
        PROVE  Outcome(q, e, c, enqueue(q, e)) /\ enqueue(q, e).how = "ok"
    <2> DEFINE p == [q EXCEPT !.main = Append(q.main, e)]
    <2>1. enqueue(q, e).q = p /\ enqueue(q, e).how = "ok"
      BY DEF enqueue, Ends
    <2>2. /\ p.main = Append(q.main, e) /\ p.side = q.side /\ p.side_active = q.side_active
          /\ p.overflow = q.overflow /\ p.emitted = q.emitted /\ p.reader = q.reader
      BY DEF Bridge
    <2> HIDE DEF p
    <2>3. q.side = <<>>
      BY <1>3 DEF Sided
    <2>4. Queued(q) = q.main /\ Queued(p) = Append(q.main, e)
      <3>1. q.main \o <<>> = q.main
        BY <1>0
      <3>2. Append(q.main, e) \o <<>> = Append(q.main, e)
        BY <1>0
      <3>3. QED
        BY <2>2, <2>3, <3>1, <3>2 DEF Queued
    <2>5. QED
      BY <2>1, <2>2, <2>3, <2>4 DEF Outcome, Sided
  <1>4. ASSUME NEW p \in Bridge, p.main = q.main, p.side = q.side, p.overflow = q.overflow,
               p.emitted = q.emitted, p.reader = q.reader, p.side_active, c
        PROVE  /\ Outcome(q, e, c, try_send_cancelled_terminal(p, e))
               /\ try_send_cancelled_terminal(p, e).how # "cancelled"
    <2> DEFINE end == try_send_cancelled_terminal(p, e)
    <2>1. Queued(p) = Queued(q) /\ Sided(p, c)
      BY <1>4 DEF Queued, Sided
    <2>2. CASE ~p.reader
      <3>1. end.q = p /\ end.how = "closed"
        BY <2>2 DEF try_send_cancelled_terminal, Ends
      <3> HIDE DEF end
      <3>2. QED
        BY <1>4, <2>1, <2>2, <3>1 DEF Outcome, end
    <2>3. CASE p.reader /\ Len(p.side) < Capacity
      <3> DEFINE r == [p EXCEPT !.side = Append(p.side, e)]
      <3>1. end.q = r /\ end.how = "ok"
        BY <2>3 DEF try_send_cancelled_terminal, Ends
      <3>2. /\ r.side = Append(p.side, e) /\ r.main = p.main /\ r.side_active = p.side_active
            /\ r.overflow = p.overflow /\ r.emitted = p.emitted /\ r.reader = p.reader
        BY DEF Bridge
      <3> HIDE DEF r
      <3>3. q.main \o Append(q.side, e) = Append(q.main \o q.side, e)
        <4>1. ASSUME NEW a \in Seq(Message), NEW b \in Seq(Message)
              PROVE  a \o Append(b, e) = Append(a \o b, e)
          BY AppendToRow
        <4>2. QED
          BY <1>0, <4>1, Zenon
      <3>4. Queued(r) = Append(Queued(q), e)
        BY <1>4, <3>2, <3>3 DEF Queued
      <3>5. Sided(r, c)
        BY <1>4, <3>2 DEF Sided
      <3> HIDE DEF end
      <3>6. QED
        BY <1>4, <3>1, <3>2, <3>4, <3>5 DEF Outcome, end
    <2>4. CASE p.reader /\ ~(Len(p.side) < Capacity)
      <3> DEFINE r == [p EXCEPT !.overflow = p.overflow \cup {metadata_of(e)}]
      <3>1. end.q = r /\ end.how = "overflow"
        BY <2>4 DEF try_send_cancelled_terminal, Ends
      <3>2. /\ r.side = p.side /\ r.main = p.main /\ r.side_active = p.side_active
            /\ r.overflow = p.overflow \cup {metadata_of(e)} /\ r.emitted = p.emitted
            /\ r.reader = p.reader
        BY DEF Bridge
      <3> HIDE DEF r
      <3>3. Queued(r) = Queued(q) /\ Sided(r, c)
        BY <1>4, <3>2 DEF Queued, Sided
      <3> HIDE DEF end
      <3>4. QED
        BY <1>4, <3>1, <3>2, <3>3 DEF Outcome, end
    <2>5. QED
      BY <2>2, <2>3, <2>4
  <1>5. Outcome(q, e, c, send(q, e, c)) /\ send(q, e, c).how # "overflow"
    <2>1. CASE c
      BY <1>1, <1>2, <2>1 DEF send
    <2>2. CASE ~c
      BY <1>1, <1>2, <1>3, <2>2 DEF send, Sided
    <2>3. QED
      BY <2>1, <2>2
  <1>6. Outcome(q, e, c, reserve_terminal(q, e, c)) /\ reserve_terminal(q, e, c).how # "cancelled"
    <2>1. CASE c
      <3> DEFINE p == [q EXCEPT !.side_active = TRUE]
      <3>1. /\ p \in Bridge /\ p.main = q.main /\ p.side = q.side /\ p.overflow = q.overflow
            /\ p.emitted = q.emitted /\ p.reader = q.reader /\ p.side_active
        BY DEF Bridge
      <3>2. reserve_terminal(q, e, c) = try_send_cancelled_terminal(p, e)
        BY <2>1 DEF reserve_terminal
      <3> HIDE DEF p
      <3>3. QED
        BY <1>4, <2>1, <3>1, <3>2
    <2>2. CASE ~c
      BY <1>1, <1>2, <1>3, <2>2 DEF reserve_terminal, Sided
    <2>3. QED
      BY <2>1, <2>2
  <1>7. Outcome(q, e, c, send_terminal(q, e, c)) /\ send_terminal(q, e, c).how # "cancelled"
    <2>1. CASE q.side_active
      BY <1>4, <2>1 DEF send_terminal, Sided
    <2>2. CASE ~q.side_active
      BY <1>1, <1>2, <1>3, <1>6, <2>2 DEF send_terminal
    <2>3. QED
      BY <2>1, <2>2
  <1>8. QED
    BY <1>5, <1>6, <1>7

\* A sequence is its length and its entries.
LEMMA EqualRows ==
    ASSUME NEW S, NEW p \in Seq(S), NEW q \in Seq(S), Len(p) = Len(q),
           \A i \in 1..Len(p) : p[i] = q[i]
    PROVE  p = q
  OBVIOUS

\* Taking the first n of two sequences in a row, the first one's first.
LEMMA Splits ==
    ASSUME NEW S, NEW a \in Seq(S), NEW b \in Seq(S), NEW n \in Nat, n <= Len(a) + Len(b),
           NEW k \in Nat, k <= n, k <= Len(a), k \in {n, Len(a)}
    PROVE  LET got == SubSeq(a \o b, 1, n)
               left == SubSeq(a, k + 1, Len(a)) \o SubSeq(b, n - k + 1, Len(b))
           IN  a \o b = got \o left /\ got \in Seq(S) /\ left \in Seq(S)
  <1> DEFINE ab == a \o b
             got == SubSeq(ab, 1, n)
             la == SubSeq(a, k + 1, Len(a))
             lb == SubSeq(b, n - k + 1, Len(b))
             left == la \o lb
             x == Len(a)
             y == Len(b)
  <1>1. x \in Nat /\ y \in Nat
    OBVIOUS
  <1>2. ab \in Seq(S) /\ Len(ab) = x + y /\ \A i \in 1..x + y : ab[i] = IF i <= x THEN a[i] ELSE b[i - x]
    BY RowPoints
  <1>3. n - k \in Nat /\ n - k <= y /\ x - k \in Nat /\ y - (n - k) \in Nat
        /\ (x - k) + (y - (n - k)) = x + y - n /\ x + y - n \in Nat
    <2> HIDE DEF x, y
    <2>1. \A u, v, w \in Nat, z \in Nat : u <= v + w /\ z <= u /\ z <= v /\ z \in {u, v} =>
              /\ u - z \in Nat /\ u - z <= w /\ v - z \in Nat /\ w - (u - z) \in Nat
              /\ (v - z) + (w - (u - z)) = v + w - u /\ v + w - u \in Nat
      OBVIOUS
    <2>2. n <= x + y /\ k <= x /\ k \in {n, x}
      BY DEF x, y
    <2>3. QED
      BY <1>1, <2>1, <2>2
  <1>4. got \in Seq(S) /\ Len(got) = n /\ \A i \in 1..n : got[i] = ab[i]
    <2> HIDE DEF ab, x, y
    <2>1. n <= Len(ab)
      BY <1>2 DEF x, y
    <2>2. QED
      BY <1>2, <2>1
  <1>5. la \in Seq(S) /\ Len(la) = x - k /\ \A i \in 1..x - k : la[i] = a[k + i]
    <2>1. ASSUME NEW f \in Seq(S), NEW c \in Nat, c <= Len(f)
          PROVE  LET t == SubSeq(f, c + 1, Len(f))
                 IN  t \in Seq(S) /\ Len(t) = Len(f) - c /\ \A i \in 1..Len(f) - c : t[i] = f[c + i]
      BY <2>1
    <2>2. QED
      BY <2>1
  <1>6. lb \in Seq(S) /\ Len(lb) = y - (n - k) /\ \A i \in 1..y - (n - k) : lb[i] = b[(n - k) + i]
    <2>1. ASSUME NEW f \in Seq(S), NEW c \in Nat, c <= Len(f)
          PROVE  LET t == SubSeq(f, c + 1, Len(f))
                 IN  t \in Seq(S) /\ Len(t) = Len(f) - c /\ \A i \in 1..Len(f) - c : t[i] = f[c + i]
      BY <2>1
    <2>2. n - k \in Nat /\ n - k <= Len(b)
      BY <1>3
    <2>3. QED
      BY <2>1, <2>2
  <1> HIDE DEF got, la, lb
  <1>7. left \in Seq(S) /\ Len(left) = (x - k) + (y - (n - k))
        /\ \A i \in 1..Len(left) : left[i] = IF i <= x - k THEN la[i] ELSE lb[i - (x - k)]
    <2>1. /\ la \o lb \in Seq(S) /\ Len(la \o lb) = Len(la) + Len(lb)
          /\ \A i \in 1..Len(la) + Len(lb) :
                 (la \o lb)[i] = IF i <= Len(la) THEN la[i] ELSE lb[i - Len(la)]
      <3>1. la \in Seq(S) /\ lb \in Seq(S)
        BY <1>5, <1>6
      <3>2. QED
        BY <3>1, RowPoints, Zenon
    <2>2. Len(la) = x - k /\ Len(lb) = y - (n - k)
      BY <1>5, <1>6
    <2> HIDE DEF x, y
    <2>3. QED
      BY <2>1, <2>2, Zenon
  <1> HIDE DEF left, ab, x, y
  <1>b. \A i \in 1..x + y : ~(i <= x) => ab[i] = b[i - x]
    BY <1>2, Zenon
  <1>8. \A j \in 1..x + y - n : left[j] = ab[n + j]
    <2> SUFFICES ASSUME NEW j \in 1..x + y - n PROVE left[j] = ab[n + j]
      OBVIOUS
    <2>0. j \in Nat /\ 1 <= j /\ j <= x + y - n
      BY <1>3
    <2>1. n + j \in 1..x + y
      BY <1>1, <1>3, <2>0
    <2>2. CASE k = n
      <3>1. \A u \in Nat : u - u = 0
        OBVIOUS
      <3>2. n - k = 0
        BY <2>2, <3>1
      <3>3. CASE j <= x - k
        <4>1. j \in 1..x - k /\ n + j <= x
          BY <1>1, <1>3, <2>0, <2>2, <3>3
        <4>2. left[j] = a[k + j]
          BY <1>3, <1>5, <1>7, <3>3, <4>1
        <4>3. ab[n + j] = a[n + j]
          BY <1>2, <2>1, <4>1
        <4>4. QED
          BY <2>2, <4>2, <4>3
      <3>4. CASE ~(j <= x - k)
        <4>1. /\ j - (x - k) \in 1..y - (n - k) /\ ~(n + j <= x)
              /\ (n - k) + (j - (x - k)) = (n + j) - x
          BY <1>1, <1>3, <2>0, <2>2, <3>4
        <4>2. left[j] = b[(n - k) + (j - (x - k))]
          BY <1>3, <1>6, <1>7, <3>4, <4>1
        <4>3. ab[n + j] = b[(n + j) - x]
          <5> DEFINE i == n + j
          <5>1. i \in 1..x + y /\ ~(i <= x)
            BY <2>1, <4>1
          <5> HIDE DEF i
          <5>2. ab[i] = b[i - x]
            BY <1>b, <5>1, Zenon
          <5>3. QED
            BY <5>2, Zenon DEF i
        <4>4. QED
          BY <4>1, <4>2, <4>3
      <3>5. QED
        BY <3>3, <3>4
    <2>3. CASE k = x
      <3>1. ~(j <= x - k)
        BY <1>1, <2>0, <2>3
      <3>2. k <= n
        OBVIOUS
      <3>3. /\ j - (x - k) \in 1..y - (n - k) /\ ~(n + j <= x)
            /\ (n - k) + (j - (x - k)) = (n + j) - x
        BY <1>1, <1>3, <2>0, <2>3, <3>1, <3>2
      <3>4. left[j] = b[(n - k) + (j - (x - k))]
        BY <1>3, <1>6, <1>7, <3>1, <3>3
      <3>5. ab[n + j] = b[(n + j) - x]
        <4> DEFINE i == n + j
        <4>1. i \in 1..x + y /\ ~(i <= x)
          BY <2>1, <3>3
        <4> HIDE DEF i
        <4>2. ab[i] = b[i - x]
          BY <1>b, <4>1, Zenon
        <4>3. QED
          BY <4>2, Zenon DEF i
      <3>6. QED
        BY <3>3, <3>4, <3>5
    <2>4. QED
      BY <2>2, <2>3 DEF x
  <1>9. /\ got \o left \in Seq(S) /\ Len(got \o left) = n + Len(left)
        /\ \A i \in 1..n + Len(left) : (got \o left)[i] = IF i <= n THEN got[i] ELSE left[i - n]
    <2>0. got \in Seq(S) /\ left \in Seq(S)
      BY <1>4, <1>7
    <2>1. /\ got \o left \in Seq(S) /\ Len(got \o left) = Len(got) + Len(left)
          /\ Len(got) \in Nat /\ Len(left) \in Nat
          /\ \A i \in 1..Len(got) + Len(left) :
                 (got \o left)[i] = IF i <= Len(got) THEN got[i] ELSE left[i - Len(got)]
      BY <2>0, RowPoints, Zenon
    <2>2. QED
      BY <1>4, <2>1
  <1>10. n + Len(left) = x + y
    BY <1>1, <1>3, <1>7
  <1>11. \A i \in 1..x + y : (got \o left)[i] = ab[i]
    <2> SUFFICES ASSUME NEW i \in 1..x + y PROVE (got \o left)[i] = ab[i]
      OBVIOUS
    <2>1. CASE i <= n
      <3>1. i \in 1..n
        BY <1>1, <2>1
      <3>2. QED
        BY <1>4, <1>9, <1>10, <2>1, <3>1
    <2>2. CASE ~(i <= n)
      <3>1. i - n \in 1..x + y - n /\ n + (i - n) = i
        BY <1>1, <2>2
      <3>2. QED
        BY <1>8, <1>9, <1>10, <2>2, <3>1
    <2>3. QED
      BY <2>1, <2>2
  <1>12. ab = got \o left
    <2> DEFINE r == got \o left
    <2>1. r \in Seq(S) /\ ab \in Seq(S) /\ Len(r) = x + y /\ Len(ab) = x + y
      BY <1>2, <1>9, <1>10 DEF x, y
    <2>2. \A i \in 1..Len(r) : r[i] = ab[i]
      BY <1>11, <2>1
    <2> HIDE DEF r
    <2>3. ab = r
      BY <2>1, <2>2, EqualRows
    <2>4. QED
      BY <2>3 DEF r
  <1>13. QED
    BY <1>4, <1>7, <1>12 DEF ab, got, left, la, lb

\* Receiving takes the first events off the queue, or the marker that is due when there are none.
LEMMA Receives ==
    ASSUME NEW q \in Bridge, NEW limit \in Nat \ {0}, NEW sc, NEW k, Sound(sc, k, Queued(q))
    PROVE  LET got == received(q, limit)
               r == recv_many(q, limit)
           IN  /\ Items(Queued(q)) = Items(got) \cup Items(Queued(r))
               /\ Marks(Queued(q)) \subseteq Marks(got) \cup Marks(Queued(r))
               /\ Sound(sc, k, got) /\ Sound(sc, k, Queued(r))
               /\ Before(sc, Items(got), Items(Queued(r)))
               /\ r.overflow = q.overflow /\ r.side_active = q.side_active /\ r.reader = q.reader
               /\ r.emitted = q.emitted \cup Marks(got)
               /\ r.side # <<>> => q.side # <<>>
               /\ got = <<>> => /\ Queued(q) = <<>> /\ Queued(r) = <<>>
                                /\ q.overflow \subseteq q.emitted
  <1> DEFINE a == q.main
             b == q.side
             ab == a \o b
             got == received(q, limit)
             n == IF Queued(q) = <<>> THEN 0 ELSE Len(got)
             x == Min({n, Len(q.main)})
             la == SubSeq(a, x + 1, Len(a))
             lb == SubSeq(b, n - x + 1, Len(b))
             p == [q EXCEPT !.main = la, !.side = lb]
             r == recv_many(q, limit)
  <1>1. a \in Seq(Message) /\ b \in Seq(Message)
    BY DEF Bridge
  <1>2. Queued(q) = ab /\ ab \in Seq(Message) /\ Len(ab) = Len(a) + Len(b)
        /\ Len(a) \in Nat /\ Len(b) \in Nat
    BY <1>1, RowPoints DEF Queued
  <1>3. got \in Seq(Message)
    BY ReceiveType
  <1>4. r = [p EXCEPT !.emitted = p.emitted \cup Marks(got)]
    BY DEF recv_many, observe, Marks
  <1> HIDE DEF p
  <1>5. /\ p.main = la /\ p.side = lb /\ p.overflow = q.overflow /\ p.emitted = q.emitted
        /\ p.side_active = q.side_active /\ p.reader = q.reader
        /\ DOMAIN p = DOMAIN q
    BY DEF Bridge, p
  <1>6. /\ r.main = la /\ r.side = lb /\ r.overflow = q.overflow
        /\ r.emitted = q.emitted \cup Marks(got)
        /\ r.side_active = q.side_active /\ r.reader = q.reader
    <2>1. DOMAIN p = {"main", "side", "side_active", "overflow", "emitted", "open", "reader"}
      BY <1>5 DEF Bridge
    <2> HIDE DEF la, lb, got, r
    <2>2. QED
      BY <1>4, <1>5, <2>1
  <1> HIDE DEF r
  <1>7. Queued(r) = la \o lb
    BY <1>6 DEF Queued
  <1>8. n \in Nat /\ n <= Len(a) + Len(b) /\ (ab # <<>> => got = SubSeq(ab, 1, n))
    <2>a. (ab = <<>> => n = 0) /\ (ab # <<>> => n = Len(got))
      <3>1. Queued(q) = <<>> <=> ab = <<>>
        BY <1>2, Zenon
      <3> HIDE DEF ab, got
      <3>2. QED
        BY <3>1, Zenon
    <2>b. ab # <<>> => got = SubSeq(ab, 1, Min({limit, Len(ab)}))
      BY <1>2, Zenon DEF received
    <2> HIDE DEF a, b, ab, n, got
    <2>1. CASE ab = <<>>
      BY <1>2, <2>a, <2>1
    <2>2. CASE ab # <<>>
      <3> DEFINE m == Min({limit, Len(ab)})
      <3>1. got = SubSeq(ab, 1, m)
        BY <2>b, <2>2
      <3>2. Len(ab) \in Nat /\ Len(ab) # 0
        BY <1>2, <2>2
      <3>3. m \in Nat /\ 1 <= m /\ m <= Len(ab)
        BY <3>2, MinOfTwo
      <3> HIDE DEF m
      <3>4. Len(SubSeq(ab, 1, m)) = m
        BY <1>2, <3>3
      <3>5. n = m
        BY <2>a, <2>2, <3>1, <3>4
      <3>6. QED
        BY <1>2, <2>2, <3>1, <3>3, <3>5
    <2>3. QED
      BY <2>1, <2>2
  <1> HIDE DEF got, n
  <1>9. x \in Nat /\ x <= n /\ x <= Len(a) /\ x \in {n, Len(a)}
    BY <1>2, <1>8, MinOfTwo
  <1> HIDE DEF x
  <1>10. /\ ab = SubSeq(ab, 1, n) \o (la \o lb) /\ SubSeq(ab, 1, n) \in Seq(Message)
         /\ la \o lb \in Seq(Message)
    <2> HIDE DEF a, b
    <2>1. QED
      BY <1>1, <1>8, <1>9, Splits DEF la, lb, ab
  <1> DEFINE left == la \o lb
  <1>11. left = Queued(r) /\ left \in Seq(Message)
    BY <1>7, <1>10
  <1>12. r.side # <<>> => q.side # <<>>
    <2> SUFFICES ASSUME b = <<>> PROVE lb = <<>>
      BY <1>6
    <2>1. Len(b) = 0
      OBVIOUS
    <2>2. n - x \in Nat
      <3>1. \A u, v \in Nat : v <= u => u - v \in Nat
        OBVIOUS
      <3>2. QED
        BY <1>8, <1>9, <3>1
    <2> HIDE DEF b
    <2>3. \A c \in Nat : SubSeq(b, c + 1, 0) = <<>>
      BY <1>1
    <2>4. QED
      BY <2>1, <2>2, <2>3
  <1> HIDE DEF left, la, lb, a, b
  <1>13. CASE ab # <<>>
    <2>1. ab = got \o left
      BY <1>8, <1>10, <1>13 DEF left
    <2>2. /\ Items(ab) = Items(got) \cup Items(left)
          /\ Marks(ab) = Marks(got) \cup Marks(left)
          /\ Sound(sc, k, got) /\ Sound(sc, k, left) /\ Before(sc, Items(got), Items(left))
      BY <1>2, <1>3, <1>11, <2>1, InARow
    <2>3. got # <<>>
      BY <1>2, <1>13, ReceiveType DEF got
    <2>4. QED
      BY <1>2, <1>6, <1>11, <1>12, <2>2, <2>3 DEF got, r
  <1>14. CASE ab = <<>>
    <2>1. left = <<>>
      <3>1. Len(SubSeq(ab, 1, n) \o left) = Len(SubSeq(ab, 1, n)) + Len(left)
        BY <1>10, <1>11, RowPoints
      <3>2. Len(ab) = 0 /\ Len(left) \in Nat /\ Len(SubSeq(ab, 1, n)) \in Nat
        BY <1>10, <1>11, <1>14
      <3>3. Len(left) = 0
        BY <1>10, <3>1, <3>2 DEF left
      <3>4. QED
        BY <1>11, <3>3
    <2>2. got = overflow_marker(q)
      BY <1>2, <1>14 DEF got, received
    <2>3. got \in {<<Incomplete("usage")>>, <<Incomplete("error")>>, <<>>}
      BY <2>2 DEF overflow_marker
    <2>4. Sound(sc, k, got) /\ Items(got) = {}
      <3>1. \A kind \in {"usage", "error"} : Of(Incomplete(kind)) = {} /\ Genuine(sc, k, Incomplete(kind))
        BY DEF Of, Incomplete, Event, Genuine
      <3>2. \A kind \in {"usage", "error"} :
                Items(<<Incomplete(kind)>>) = {} /\ Sound(sc, k, <<Incomplete(kind)>>)
        BY <3>1, OneEvent DEF Sound
      <3>3. QED
        BY <2>3, <3>2, NothingSaid
    <2>5. Items(ab) = {} /\ Marks(ab) = {} /\ Items(left) = {} /\ Sound(sc, k, left)
      BY <1>14, <2>1, NothingSaid
    <2>6. got = <<>> => q.overflow \subseteq q.emitted
      <3>1. q.overflow \subseteq {"usage", "error"}
        BY DEF Bridge
      <3>2. <<Incomplete("usage")>> # <<>> /\ <<Incomplete("error")>> # <<>>
        OBVIOUS
      <3>3. QED
        BY <2>2, <3>1, <3>2 DEF overflow_marker
    <2>7. QED
      BY <1>2, <1>6, <1>11, <1>12, <1>14, <2>1, <2>4, <2>5, <2>6 DEF got, r, Before
  <1>15. QED
    BY <1>13, <1>14

-----------------------------------------------------------------------------
(* What the endpoint keeps back. *)

\* The metadata as the events it is told with.
Retained(m) ==
    m.errors
    \o Only(m.usage # {}, <<Event("usage", m.usage)>>)
    \o Only(m.incomplete, <<Incomplete("usage")>>)
    \o Only(m.diagnostics_incomplete, <<Incomplete("error")>>)

\* No output is among the events.
Mute(q) == \A n \in DOMAIN q : q[n].kind # "output"

\* Two sequences in a row are mute when both are.
LEMMA MuteRow ==
    ASSUME NEW S, NEW a \in Seq(S), NEW b \in Seq(S)
    PROVE  Mute(a \o b) <=> Mute(a) /\ Mute(b)
  <1> DEFINE ab == a \o b
             d == Len(a)
  <1>1. /\ \A n \in DOMAIN a : n \in DOMAIN ab /\ ab[n] = a[n]
        /\ \A n \in DOMAIN b : n + d \in DOMAIN ab /\ ab[n + d] = b[n]
        /\ \A n \in DOMAIN ab : n \in DOMAIN a \/ (n - d \in DOMAIN b /\ n = (n - d) + d)
    BY Places
  <1> HIDE DEF ab, d
  <1>2. ASSUME Mute(ab), NEW n \in DOMAIN b
        PROVE  b[n].kind # "output"
    <2>1. n + d \in DOMAIN ab /\ ab[n + d] = b[n]
      BY <1>1
    <2>2. QED
      BY <1>2, <2>1 DEF Mute
  <1>3. ASSUME Mute(a), Mute(b), NEW n \in DOMAIN ab
        PROVE  ab[n].kind # "output"
    <2>1. CASE n \in DOMAIN a
      BY <1>1, <1>3, <2>1 DEF Mute
    <2>2. CASE n - d \in DOMAIN b /\ n = (n - d) + d
      <3>1. ab[(n - d) + d] = b[n - d]
        BY <1>1, <2>2
      <3>2. ab[n] = b[n - d]
        BY <2>2, <3>1
      <3>3. QED
        BY <1>3, <2>2, <3>2 DEF Mute
    <2>3. QED
      BY <1>1, <2>1, <2>2
  <1>4. Mute(ab) => Mute(a)
    BY <1>1 DEF Mute
  <1>5. QED
    BY <1>2, <1>3, <1>4 DEF Mute, ab

\* All that two sequences in a row say.
LEMMA RowSays ==
    ASSUME NEW S, NEW a \in Seq(S), NEW b \in Seq(S), NEW sc, NEW k
    PROVE  /\ a \o b \in Seq(S)
           /\ Items(a \o b) = Items(a) \cup Items(b)
           /\ Marks(a \o b) = Marks(a) \cup Marks(b)
           /\ Sound(sc, k, a \o b) <=> /\ Sound(sc, k, a) /\ Sound(sc, k, b)
                                       /\ Before(sc, Items(a), Items(b))
           /\ Mute(a \o b) <=> Mute(a) /\ Mute(b)
  <1>1. a \o b \in Seq(S)
    OBVIOUS
  <1>2. Mute(a \o b) <=> Mute(a) /\ Mute(b)
    BY MuteRow
  <1>3. /\ Items(a \o b) = Items(a) \cup Items(b)
        /\ Marks(a \o b) = Marks(a) \cup Marks(b)
        /\ Sound(sc, k, a \o b) <=> /\ Sound(sc, k, a) /\ Sound(sc, k, b)
                                    /\ Before(sc, Items(a), Items(b))
    BY InARow
  <1>4. QED
    BY <1>1, <1>2, <1>3

\* A mute event more.
LEMMA MuteAppend ==
    ASSUME NEW S, NEW q \in Seq(S), NEW e \in S
    PROVE  Mute(Append(q, e)) <=> Mute(q) /\ e.kind # "output"
  <1> DEFINE one == <<e>>
  <1>1. Append(q, e) = q \o one /\ one \in Seq(S) /\ DOMAIN one = {1} /\ one[1] = e
    OBVIOUS
  <1> HIDE DEF one
  <1>2. Mute(one) <=> e.kind # "output"
    BY <1>1 DEF Mute
  <1>3. Mute(q \o one) <=> Mute(q) /\ Mute(one)
    BY <1>1, MuteRow
  <1>4. QED
    BY <1>1, <1>2, <1>3

\* An event that is there on a condition.
LEMMA OnlySays ==
    ASSUME NEW c \in BOOLEAN, NEW S, NEW e \in S, NEW sc, NEW k
    PROVE  LET q == Only(c, <<e>>) IN
           /\ q \in Seq(S)
           /\ Items(q) = (IF c THEN Of(e) ELSE {})
           /\ Marks(q) = (IF c /\ e.of = {} THEN {e.kind} ELSE {})
           /\ Sound(sc, k, q) <=> (c => Genuine(sc, k, e))
           /\ Mute(q) <=> (c => e.kind # "output")
  <1>1. <<e>> \in Seq(S) /\ <<>> \in Seq(S)
    OBVIOUS
  <1>2. Mute(<<>>) /\ (Mute(<<e>>) <=> e.kind # "output")
    <2>1. DOMAIN <<e>> = {1} /\ <<e>>[1] = e
      OBVIOUS
    <2>2. DOMAIN <<>> = {}
      OBVIOUS
    <2>3. QED
      BY <2>1, <2>2 DEF Mute
  <1>3. CASE c
    <2>1. Only(c, <<e>>) = <<e>>
      BY <1>3 DEF Only
    <2>2. /\ Items(<<e>>) = Of(e)
          /\ Marks(<<e>>) = (IF e.of = {} THEN {e.kind} ELSE {})
          /\ Sound(sc, k, <<e>>) <=> Genuine(sc, k, e)
      BY OneEvent DEF Sound
    <2>3. QED
      BY <1>1, <1>2, <1>3, <2>1, <2>2
  <1>4. CASE ~c
    <2>1. Only(c, <<e>>) = <<>>
      BY <1>4 DEF Only
    <2>2. QED
      BY <1>1, <1>2, <1>4, <2>1, NothingSaid
  <1>5. QED
    BY <1>3, <1>4

\* The items of the usage kept back are usage that was said.
UsageSaid(sc, k, of) == \A i \in of \ {0} : i \in 1..k /\ sc[i] = "usage"
Flags(m) == (IF m.incomplete THEN {"usage"} ELSE {})
            \cup (IF m.diagnostics_incomplete THEN {"error"} ELSE {})

\* What the retained metadata says.
LEMMA RetainedSays ==
    ASSUME NEW m \in Metadata, NEW sc, NEW k
    PROVE  /\ Retained(m) \in Seq(Message)
           /\ Items(Retained(m)) = Items(m.errors) \cup (m.usage \ {0})
           /\ Marks(Retained(m)) = Marks(m.errors) \cup Flags(m)
           /\ Sound(sc, k, Retained(m)) <=>
                 /\ Sound(sc, k, m.errors) /\ UsageSaid(sc, k, m.usage)
                 /\ Before(sc, Items(m.errors), m.usage \ {0})
           /\ Mute(m.errors) => Mute(Retained(m))
  <1> DEFINE u == Event("usage", m.usage)
             e1 == Incomplete("usage")
             e2 == Incomplete("error")
             s1 == m.errors
             s2 == Only(m.usage # {}, <<u>>)
             s3 == Only(m.incomplete, <<e1>>)
             s4 == Only(m.diagnostics_incomplete, <<e2>>)
  <1>0. /\ m.errors \in Seq(Message) /\ m.usage \in SUBSET Nat /\ m.incomplete \in BOOLEAN
        /\ m.diagnostics_incomplete \in BOOLEAN
    BY DEF Metadata
  <1>1. u \in Message /\ e1 \in Message /\ e2 \in Message
    BY <1>0 DEF Message, Event, Incomplete, Kinds
  <1>2. /\ Of(u) = m.usage \ {0} /\ u.of = m.usage /\ u.kind = "usage"
        /\ Of(e1) = {} /\ e1.of = {} /\ e1.kind = "usage"
        /\ Of(e2) = {} /\ e2.of = {} /\ e2.kind = "error"
    BY DEF Of, Event, Incomplete
  <1>3. /\ Genuine(sc, k, u) <=> UsageSaid(sc, k, m.usage)
        /\ Genuine(sc, k, e1) /\ Genuine(sc, k, e2)
    BY <1>2 DEF Genuine, UsageSaid
  <1> HIDE DEF u, e1, e2
  <1>4. /\ s2 \in Seq(Message) /\ Items(s2) = m.usage \ {0} /\ Marks(s2) = {}
        /\ Sound(sc, k, s2) <=> UsageSaid(sc, k, m.usage)
        /\ Mute(s2)
    <2>1. /\ s2 \in Seq(Message) /\ Items(s2) = (IF m.usage # {} THEN Of(u) ELSE {})
          /\ Marks(s2) = (IF m.usage # {} /\ u.of = {} THEN {u.kind} ELSE {})
          /\ Sound(sc, k, s2) <=> (m.usage # {} => Genuine(sc, k, u))
          /\ Mute(s2) <=> (m.usage # {} => u.kind # "output")
      BY <1>1, OnlySays
    <2> HIDE DEF s2
    <2>2. QED
      BY <1>2, <1>3, <2>1 DEF UsageSaid
  <1>5. /\ s3 \in Seq(Message) /\ Items(s3) = {} /\ Marks(s3) = (IF m.incomplete THEN {"usage"} ELSE {})
        /\ Sound(sc, k, s3) /\ Mute(s3)
    <2>1. /\ s3 \in Seq(Message) /\ Items(s3) = (IF m.incomplete THEN Of(e1) ELSE {})
          /\ Marks(s3) = (IF m.incomplete /\ e1.of = {} THEN {e1.kind} ELSE {})
          /\ Sound(sc, k, s3) <=> (m.incomplete => Genuine(sc, k, e1))
          /\ Mute(s3) <=> (m.incomplete => e1.kind # "output")
      BY <1>0, <1>1, OnlySays
    <2> HIDE DEF s3
    <2>2. QED
      BY <1>2, <1>3, <2>1
  <1>6. /\ s4 \in Seq(Message) /\ Items(s4) = {}
        /\ Marks(s4) = (IF m.diagnostics_incomplete THEN {"error"} ELSE {})
        /\ Sound(sc, k, s4) /\ Mute(s4)
    <2>1. /\ s4 \in Seq(Message) /\ Items(s4) = (IF m.diagnostics_incomplete THEN Of(e2) ELSE {})
          /\ Marks(s4) = (IF m.diagnostics_incomplete /\ e2.of = {} THEN {e2.kind} ELSE {})
          /\ Sound(sc, k, s4) <=> (m.diagnostics_incomplete => Genuine(sc, k, e2))
          /\ Mute(s4) <=> (m.diagnostics_incomplete => e2.kind # "output")
      BY <1>0, <1>1, OnlySays
    <2> HIDE DEF s4
    <2>2. QED
      BY <1>2, <1>3, <2>1
  <1>a. Retained(m) = ((s1 \o s2) \o s3) \o s4
    BY DEF Retained, u, e1, e2
  <1>b. s1 \in Seq(Message)
    BY <1>0
  <1> HIDE DEF s1, s2, s3, s4
  <1> DEFINE t2 == s1 \o s2
  <1>7. /\ t2 \in Seq(Message)
        /\ Items(t2) = Items(s1) \cup Items(s2)
        /\ Marks(t2) = Marks(s1) \cup Marks(s2)
        /\ Sound(sc, k, t2) <=> Sound(sc, k, s1) /\ Sound(sc, k, s2) /\ Before(sc, Items(s1), Items(s2))
        /\ Mute(t2) <=> Mute(s1) /\ Mute(s2)
    <2>1. s1 \in Seq(Message) /\ s2 \in Seq(Message)
      BY <1>b, <1>4
    <2>2. QED
      BY <2>1, RowSays
  <1> HIDE DEF t2
  <1> DEFINE t3 == t2 \o s3
  <1>8. /\ t3 \in Seq(Message)
        /\ Items(t3) = Items(t2) \cup Items(s3)
        /\ Marks(t3) = Marks(t2) \cup Marks(s3)
        /\ Sound(sc, k, t3) <=> Sound(sc, k, t2) /\ Sound(sc, k, s3) /\ Before(sc, Items(t2), Items(s3))
        /\ Mute(t3) <=> Mute(t2) /\ Mute(s3)
    <2>1. t2 \in Seq(Message) /\ s3 \in Seq(Message)
      BY <1>5, <1>7
    <2>2. QED
      BY <2>1, RowSays
  <1> HIDE DEF t3
  <1>9. /\ t3 \o s4 \in Seq(Message)
        /\ Items(t3 \o s4) = Items(t3) \cup Items(s4)
        /\ Marks(t3 \o s4) = Marks(t3) \cup Marks(s4)
        /\ Sound(sc, k, t3 \o s4) <=> Sound(sc, k, t3) /\ Sound(sc, k, s4) /\ Before(sc, Items(t3), Items(s4))
        /\ Mute(t3 \o s4) <=> Mute(t3) /\ Mute(s4)
    <2>1. t3 \in Seq(Message) /\ s4 \in Seq(Message)
      BY <1>6, <1>8
    <2>2. QED
      BY <2>1, RowSays
  <1>10. \A S : Before(sc, S, {})
    BY DEF Before
  <1>11. Retained(m) = t3 \o s4
    BY <1>a DEF t2, t3
  <1>12. s1 = m.errors
    BY DEF s1
  <1>13. /\ Items(Retained(m)) = Items(m.errors) \cup (m.usage \ {0})
         /\ Marks(Retained(m)) = Marks(m.errors) \cup Flags(m)
    BY <1>4, <1>5, <1>6, <1>7, <1>8, <1>9, <1>11, <1>12 DEF Flags
  <1>14. Sound(sc, k, Retained(m)) <=>
            /\ Sound(sc, k, m.errors) /\ UsageSaid(sc, k, m.usage)
            /\ Before(sc, Items(m.errors), m.usage \ {0})
    BY <1>4, <1>5, <1>6, <1>7, <1>8, <1>9, <1>10, <1>11, <1>12
  <1>15. QED
    BY <1>4, <1>5, <1>6, <1>7, <1>8, <1>9, <1>11, <1>12, <1>13, <1>14

\* Retaining an event keeps what was retained; what it drops it marks, output apart.
LEMMA Retains ==
    ASSUME NEW m \in Metadata, NEW e \in Message, NEW sc, NEW k,
           m.usage_overflowed => m.incomplete, Mute(m.errors),
           Sound(sc, k, Retained(m)), Genuine(sc, k, e), Before(sc, Items(Retained(m)), Of(e))
    PROVE  LET r == retain(m, e) IN
           /\ r.usage_overflowed => r.incomplete
           /\ Mute(r.errors)
           /\ Items(Retained(m)) \subseteq Items(Retained(r))
           /\ Items(Retained(r)) \subseteq Items(Retained(m)) \cup Of(e)
           /\ Marks(Retained(m)) \subseteq Marks(Retained(r))
           /\ e.kind # "output" => Of(e) \subseteq Items(Retained(r)) \/ e.kind \in Marks(Retained(r))
           /\ e.of = {} => e.kind \in Marks(Retained(r))
           /\ Sound(sc, k, Retained(r))
  <1> DEFINE r == retain(m, e)
  <1>0. r \in Metadata
    BY RetainType
  <1>1. /\ Items(Retained(m)) = Items(m.errors) \cup (m.usage \ {0})
        /\ Marks(Retained(m)) = Marks(m.errors) \cup Flags(m)
        /\ Sound(sc, k, m.errors) /\ UsageSaid(sc, k, m.usage)
        /\ Before(sc, Items(m.errors), m.usage \ {0})
    BY RetainedSays
  <1> HIDE DEF r
  <1>2. /\ Items(Retained(r)) = Items(r.errors) \cup (r.usage \ {0})
        /\ Marks(Retained(r)) = Marks(r.errors) \cup Flags(r)
        /\ Sound(sc, k, Retained(r)) <=>
              /\ Sound(sc, k, r.errors) /\ UsageSaid(sc, k, r.usage)
              /\ Before(sc, Items(r.errors), r.usage \ {0})
    BY <1>0, RetainedSays
  <1>3. e.kind \in Kinds /\ m.errors \in Seq(Message)
    BY DEF Message, Metadata
  <1> SUFFICES /\ r.usage_overflowed => r.incomplete
               /\ Mute(r.errors)
               /\ Items(Retained(m)) \subseteq Items(Retained(r))
               /\ Items(Retained(r)) \subseteq Items(Retained(m)) \cup Of(e)
               /\ Marks(Retained(m)) \subseteq Marks(Retained(r))
               /\ e.kind # "output" => Of(e) \subseteq Items(Retained(r)) \/ e.kind \in Marks(Retained(r))
               /\ e.of = {} => e.kind \in Marks(Retained(r))
               /\ Sound(sc, k, Retained(r))
    BY DEF r
  <1>4. CASE e.kind = "usage"
    <2>0. r = retain_usage(m, e.of)
      BY <1>4 DEF retain, r
    <2>1. CASE e.of = {}
      <3>1. r = [m EXCEPT !.incomplete = TRUE]
        BY <2>0, <2>1 DEF retain_usage
      <3>2. /\ r.errors = m.errors /\ r.usage = m.usage /\ r.incomplete
            /\ r.diagnostics_incomplete = m.diagnostics_incomplete
        BY <3>1 DEF Metadata
      <3>3. Flags(m) \subseteq Flags(r) /\ "usage" \in Flags(r)
        BY <3>2 DEF Flags
      <3>4. QED
        BY <1>1, <1>2, <1>4, <3>2, <3>3
    <2>2. CASE e.of # {} /\ m.usage_overflowed
      <3>1. r = m
        BY <2>0, <2>2 DEF retain_usage
      <3>2. "usage" \in Flags(m)
        BY <2>2 DEF Flags
      <3>3. QED
        BY <1>1, <1>2, <1>4, <2>2, <3>1, <3>2
    <2>3. CASE e.of # {} /\ ~m.usage_overflowed /\ Cardinality(m.usage \cup e.of) > UsageMax
      <3>1. r = [m EXCEPT !.incomplete = TRUE, !.usage_overflowed = TRUE, !.overflowed = TRUE]
        BY <2>0, <2>3 DEF retain_usage
      <3>2. /\ r.errors = m.errors /\ r.usage = m.usage /\ r.incomplete
            /\ r.diagnostics_incomplete = m.diagnostics_incomplete
        BY <3>1 DEF Metadata
      <3>3. Flags(m) \subseteq Flags(r) /\ "usage" \in Flags(r)
        BY <3>2 DEF Flags
      <3>4. QED
        BY <1>1, <1>2, <1>4, <2>3, <3>2, <3>3
    <2>4. CASE e.of # {} /\ ~m.usage_overflowed /\ ~(Cardinality(m.usage \cup e.of) > UsageMax)
      <3>1. r = [m EXCEPT !.usage = m.usage \cup e.of]
        BY <2>0, <2>4 DEF retain_usage
      <3>2. /\ r.errors = m.errors /\ r.usage = m.usage \cup e.of
            /\ r.incomplete = m.incomplete /\ r.usage_overflowed = m.usage_overflowed
            /\ r.diagnostics_incomplete = m.diagnostics_incomplete
        BY <3>1 DEF Metadata
      <3>3. Flags(m) = Flags(r)
        BY <3>2 DEF Flags
      <3>4. r.usage \ {0} = (m.usage \ {0}) \cup Of(e)
        BY <3>2 DEF Of
      <3>5. UsageSaid(sc, k, r.usage)
        BY <1>1, <1>4, <3>4 DEF UsageSaid, Genuine
      <3>6. Before(sc, Items(r.errors), r.usage \ {0})
        BY <1>1, <3>2, <3>4 DEF Before
      <3>7. QED
        BY <1>1, <1>2, <2>4, <3>2, <3>3, <3>4, <3>5, <3>6
    <2>5. QED
      BY <2>1, <2>2, <2>3, <2>4
  <1>5. CASE e.kind = "error" /\ Len(m.errors) < Capacity
    <2>0. Len(m.errors) \in Nat /\ Capacity \in Nat
      BY <1>3, CapacityAssumption
    <2>1. r = [m EXCEPT !.errors = Append(m.errors, e)]
      BY <1>5, <2>0 DEF retain, r
    <2>2. /\ r.errors = Append(m.errors, e) /\ r.usage = m.usage
          /\ r.incomplete = m.incomplete /\ r.usage_overflowed = m.usage_overflowed
          /\ r.diagnostics_incomplete = m.diagnostics_incomplete
      BY <2>1 DEF Metadata
    <2>3. Flags(m) = Flags(r)
      BY <2>2 DEF Flags
    <2>4. Before(sc, Items(m.errors), Of(e)) /\ Before(sc, m.usage \ {0}, Of(e))
      BY <1>1 DEF Before
    <2>5. /\ Items(r.errors) = Items(m.errors) \cup Of(e)
          /\ Marks(r.errors) = Marks(m.errors) \cup (IF e.of = {} THEN {e.kind} ELSE {})
          /\ Sound(sc, k, r.errors)
      BY <1>1, <1>3, <2>2, <2>4, AppendSays
    <2>6. Mute(r.errors)
      <3>1. Mute(Append(m.errors, e)) <=> Mute(m.errors) /\ e.kind # "output"
        BY <1>3, MuteAppend
      <3>2. QED
        BY <1>5, <2>2, <3>1
    <2>7. Before(sc, Items(r.errors), r.usage \ {0})
      <3>1. Before(sc, Of(e), m.usage \ {0})
        BY <1>1, <1>5, <2>4 DEF Before, Less, UsageSaid, Genuine
      <3>2. QED
        BY <1>1, <2>2, <2>5, <3>1 DEF Before
    <2>8. QED
      BY <1>1, <1>2, <2>2, <2>3, <2>5, <2>6, <2>7
  <1>6. CASE e.kind = "error" /\ ~(Len(m.errors) < Capacity)
    <2>0. Len(m.errors) \in Nat /\ Capacity \in Nat
      BY <1>3, CapacityAssumption
    <2>1. r = [m EXCEPT !.diagnostics_incomplete = TRUE, !.overflowed = TRUE]
      BY <1>6, <2>0 DEF retain, r
    <2>2. /\ r.errors = m.errors /\ r.usage = m.usage
          /\ r.incomplete = m.incomplete /\ r.usage_overflowed = m.usage_overflowed
          /\ r.diagnostics_incomplete
      BY <2>1 DEF Metadata
    <2>3. Flags(m) \subseteq Flags(r) /\ "error" \in Flags(r)
      BY <2>2 DEF Flags
    <2>4. QED
      BY <1>1, <1>2, <1>6, <2>2, <2>3
  <1>7. CASE e.kind = "output"
    <2>1. r = m
      BY <1>7 DEF retain, r
    <2>2. e.of # {}
      BY <1>7 DEF Genuine
    <2>3. QED
      BY <1>1, <1>2, <1>7, <2>1, <2>2
  <1>8. QED
    BY <1>3, <1>4, <1>5, <1>6, <1>7 DEF Kinds

\* Every event but the last is a message, and a success is one of the driver.
Closes(q, ok) ==
    /\ \A n \in DOMAIN q : n < Len(q) => q[n].kind \in Kinds
    /\ \A n \in DOMAIN q : q[n].kind = "ok" => ok

\* The terminal events tell what was retained, and the ending tells nothing of it.
LEMMA Tells ==
    ASSUME NEW m \in Metadata, NEW sc, NEW k, Sound(sc, k, Retained(m)), Mute(m.errors),
           NEW result \in {"ok", "detail", "cancelled", "unconfirmed", "run_closed", "failed"}
    PROVE  LET events == into_events(m, result) IN
           /\ Items(events) = Items(Retained(m))
           /\ Marks(Retained(m)) \subseteq Marks(events)
           /\ Sound(sc, k, events) /\ Mute(events)
           /\ Closes(events, result = "ok")
  <1> DEFINE f == Event("error", {0})
             s1 == Retained(m)
             s2 == Only(result = "detail", <<f>>)
             last == terminal_event(m, result)
             S == Message \cup Ending
             s12 == s1 \o s2
             all == Append(s12, last)
  <1>1. f \in Message /\ Of(f) = {} /\ f.of # {} /\ f.kind = "error" /\ Genuine(sc, k, f)
    BY DEF Message, Event, Kinds, Of, Genuine
  <1>2. /\ last \in Ending /\ Of(last) = {} /\ last.kind \in Endings
        /\ (last.kind = "ok" => result = "ok")
    <2>1. m.overflowed \in BOOLEAN
      BY DEF Metadata
    <2>2. CASE result = "unconfirmed"
      BY <2>2 DEF terminal_event, Event, Ending, Endings, Of
    <2>3. CASE result # "unconfirmed" /\ m.overflowed
      BY <2>3 DEF terminal_event, Event, Ending, Endings, Of
    <2>4. CASE result = "detail" /\ ~m.overflowed
      BY <2>4 DEF terminal_event, Event, Ending, Endings, Of
    <2>5. CASE result \in {"ok", "cancelled", "run_closed", "failed"} /\ ~m.overflowed
      BY <2>5 DEF terminal_event, Event, Ending, Endings, Of
    <2>6. QED
      BY <2>1, <2>2, <2>3, <2>4, <2>5
  <1>3. s1 \in Seq(Message) /\ Mute(s1)
    BY RetainedSays
  <1>4. s2 \in Seq(Message) /\ Items(s2) = {} /\ Sound(sc, k, s2) /\ Mute(s2)
    <2> HIDE DEF f
    <2>1. /\ s2 \in Seq(Message) /\ Items(s2) = (IF result = "detail" THEN Of(f) ELSE {})
          /\ Sound(sc, k, s2) <=> (result = "detail" => Genuine(sc, k, f))
          /\ Mute(s2) <=> (result = "detail" => f.kind # "output")
      BY <1>1, OnlySays
    <2> HIDE DEF s2
    <2>2. QED
      BY <1>1, <2>1
  <1>5. into_events(m, result) = all
    <2>1. into_events(m, result) = s12 \o <<last>>
      BY DEF into_events, Retained
    <2> HIDE DEF s1, s2, last
    <2>2. s12 \in Seq(Message)
      BY <1>3, <1>4, ConcatType
    <2> HIDE DEF s12
    <2>3. s12 \o <<last>> = Append(s12, last)
      BY <2>2
    <2>4. QED
      BY <2>1, <2>3
  <1> HIDE DEF s1, s2, last, f
  <1>6. s12 \in Seq(Message) /\ Items(s12) = Items(s1) /\ Marks(s1) \subseteq Marks(s12)
        /\ Sound(sc, k, s12) /\ Mute(s12)
    <2>1. Before(sc, Items(s1), {})
      BY DEF Before
    <2>2. /\ Items(s12) = Items(s1) \cup Items(s2)
          /\ Marks(s12) = Marks(s1) \cup Marks(s2)
          /\ Sound(sc, k, s12) <=> Sound(sc, k, s1) /\ Sound(sc, k, s2) /\ Before(sc, Items(s1), Items(s2))
          /\ Mute(s12) <=> Mute(s1) /\ Mute(s2)
          /\ s12 \in Seq(Message)
      <3>1. s1 \in Seq(Message) /\ s2 \in Seq(Message)
        BY <1>3, <1>4
      <3>2. QED
        BY <3>1, RowSays
    <2>3. QED
      BY <1>3, <1>4, <2>1, <2>2 DEF s1
  <1> HIDE DEF s12
  <1>7. s12 \in Seq(S) /\ last \in S
    <2>1. \A q \in Seq(Message) : q \in Seq(S)
      <3> SUFFICES ASSUME NEW q \in Seq(Message) PROVE q \in Seq(S)
        OBVIOUS
      <3>1. \A i \in 1..Len(q) : q[i] \in S
        OBVIOUS
      <3> HIDE DEF S
      <3>2. QED
        BY <3>1
    <2>2. QED
      BY <1>2, <1>6, <2>1
  <1> HIDE DEF S
  <1>8. Genuine(sc, k, last)
    BY <1>2 DEF Genuine, Endings
  <1>9. Before(sc, Items(s12), Of(last))
    BY <1>2 DEF Before
  <1>10. /\ Items(all) = Items(s12) \cup Of(last) /\ Marks(s12) \subseteq Marks(all)
         /\ Sound(sc, k, all)
    BY <1>6, <1>7, <1>8, <1>9, AppendSays
  <1>11. /\ Len(all) = Len(s12) + 1 /\ DOMAIN all = 1..Len(s12) + 1 /\ Len(s12) \in Nat
         /\ all[Len(s12) + 1] = last /\ \A n \in 1..Len(s12) : all[n] = s12[n]
    BY <1>7
  <1>12. DOMAIN s12 = 1..Len(s12) /\ \A n \in DOMAIN s12 : s12[n].kind \in Kinds
    <2>1. \A e \in Message : e.kind \in Kinds
      BY DEF Message
    <2>2. \A n \in 1..Len(s12) : s12[n] \in Message
      BY <1>6
    <2>3. DOMAIN s12 = 1..Len(s12)
      BY <1>6
    <2>4. QED
      BY <2>1, <2>2, <2>3
  <1> HIDE DEF all
  <1>13. \A n \in DOMAIN all : (n \in DOMAIN s12 /\ all[n] = s12[n]) \/ (n = Len(all) /\ all[n] = last)
    <2>1. \A x \in Nat : \A n \in 1..x + 1 : n \in 1..x \/ n = x + 1
      OBVIOUS
    <2>2. QED
      BY <1>11, <1>12, <2>1
  <1>14. Mute(all)
    BY <1>2, <1>6, <1>13 DEF Mute, Endings
  <1>15. Closes(all, result = "ok")
    <2>1. \A n \in DOMAIN all : n < Len(all) => all[n].kind \in Kinds
      <3>1. Len(all) \in Nat
        BY <1>11
      <3>2. ~(Len(all) < Len(all))
        BY <3>1
      <3>3. QED
        BY <1>12, <1>13, <3>2
    <2>2. \A n \in DOMAIN all : all[n].kind = "ok" => result = "ok"
      BY <1>2, <1>12, <1>13 DEF Kinds
    <2>3. QED
      BY <2>1, <2>2 DEF Closes
  <1>16. QED
    BY <1>2, <1>5, <1>6, <1>10, <1>14, <1>15 DEF s1

-----------------------------------------------------------------------------
(* The way of an item, from the log back to the driver: the log, the       *)
(* controller's bridge, the remote task's hand, the stream, what the       *)
(* endpoint keeps, the capsule's bridge.                                   *)

Hand == IF rt.at = "bridging" THEN <<rt.event>> ELSE <<>>
Held == IF ep.at = "forwarding" THEN <<ep.event>> ELSE <<>>
Kept == IF chan.terminal = "pending" THEN Held \o Retained(ep.metadata) ELSE chan.rest

Way == <<Items(log), Items(Queued(outer)), Items(Hand), Items(chan.queue), Items(Kept),
         Items(Queued(inner))>>

\* The places of the way are in order.
Sorted(sc, w) == \A j, k \in 1..6 : j < k => Before(sc, w[j], w[k])

\* How far an item has come.
Recorded == Items(log)
Arrived == Items(log) \cup Items(Queued(outer))
Sent == Arrived \cup Items(Hand) \cup Items(chan.queue)
Afoot == Sent \cup Items(Kept) \cup Items(Queued(inner))

\* The kinds of which it is known behind the capsule's bridge that some are missing.
Known == Marks(log) \cup Marks(Queued(outer)) \cup Marks(Hand) \cup Marks(chan.queue)
         \cup Marks(Kept) \cup outer.overflow

\* Output reaches the controller's bridge, and leaves the endpoint.
Flowing == dispatch = "persisting" /\ outer.reader /\ ~proxy.cancel /\ rt.at # "finished"
Passing == ~ep.gone /\ ~ep.cancelled /\ ~host.command

\* Something was lost with the connection or with the ledger.
Broken == dispatch = "failed" \/ (rt.at = "finished" /\ rt.result = "lost")

-----------------------------------------------------------------------------
(* The inductive invariant. *)

\* Everything on its way is genuine and in order.
OrderInv ==
    /\ Len(said) <= Len(script)
    /\ Sorted(script, Way)
    /\ Sound(script, Len(said), log)
    /\ Sound(script, Len(said), Queued(outer))
    /\ Sound(script, Len(said), Hand)
    /\ Sound(script, Len(said), chan.queue)
    /\ Sound(script, Len(said), Kept)
    /\ Sound(script, Len(said), Queued(inner))

\* The side queues are for what was cancelled; nobody stops reading the capsule's bridge.
BridgeInv ==
    /\ inner.reader /\ Sided(inner, stop.cancel)
    /\ Sided(outer, proxy.cancel)
    /\ dispatch # "failed" <=> outer.reader
    /\ ~outer.open <=> rt.at = "finished"

\* Who cancelled, and who knows.
CancelInv ==
    /\ proxy.registered <=> rt.at \notin {"idle", "refused", "finished"}
    /\ closer.at # "idle" =>
          proxy.run_closed /\ (proxy.cancel \/ rt.at \in {"idle", "refused", "finished"})
    /\ rt.at = "withdrawing" => proxy.cancel \/ ~outer.reader
    /\ rt.at = "cancelling" => proxy.cancel
    /\ host.command => proxy.cancel \/ host.loss \/ ~outer.reader \/ rt.at = "finished"
    /\ Active /\ host.closed => host.command
    /\ cutter.at = "runner" => host.closed
    /\ stop.cancel => ep.gone \/ ep.cancelled \/ host.command
    /\ ep.cancelled => ep.gone \/ host.command
    /\ ep.gone => rt.at = "finished" /\ rt.result = "lost"
    /\ chan.reader <=> ~(rt.at = "finished" /\ ep.at # "none")

\* What the endpoint keeps back.
KeepInv ==
    /\ ~ep.cancelled => ep.metadata = NoMetadata
    /\ ep.at = "forwarding" => ~ep.cancelled /\ ~ep.gone
    /\ ep.metadata.usage_overflowed => ep.metadata.incomplete
    /\ Mute(ep.metadata.errors) /\ Mute(chan.rest)
    /\ driver.at = "off" => said = <<>> /\ Queued(inner) = <<>> /\ inner.overflow = {}
    /\ ep.at \in {"none", "reserved"} => chan.queue = <<>> /\ ~ep.cancelled
    /\ ep.at = "done" => Queued(inner) = <<>> /\ inner.overflow \subseteq inner.emitted

\* How a driver ends, and what the stream's end tells of it.
ResultInv ==
    /\ driver.at = "done" /\ driver.result = "ok" => \A i \in DOMAIN said : said[i].how = "ok"
    /\ Closes(chan.rest, driver.at = "done" /\ driver.result = "ok")
    /\ rt.at = "finished" /\ rt.result # "lost" =>
          chan.queue = <<>> /\ (ep.at = "none" \/ (chan.terminal = "sent" /\ chan.rest = <<>>))

\* The output that got this far is the beginning of it; all that was accepted is there as
\* long as nothing was cancelled or lost.
GapInv ==
    /\ NoGap(script, Len(said), Recorded)
    /\ dispatch = "persisting" => NoGap(script, Len(said), Arrived)
    /\ Flowing => NoGap(script, Len(said), Sent)
    /\ Flowing /\ Passing => \A i \in DOMAIN said : said[i].how = "ok" => i \in Afoot
    /\ ~stop.cancel => \A i \in DOMAIN said : script[i] = "output" => said[i].how = "ok"
    /\ rt.at = "finished" /\ rt.result = "ok" /\ ~proxy.cancel /\ ~host.loss /\ dispatch # "failed" =>
          driver.at = "done" /\ driver.result = "ok" /\ \A i \in DOMAIN said : i \in Arrived

\* Metadata that is no longer on its way is known to be missing.
AccountInv ==
    /\ ~Broken => inner.emitted \subseteq Known
    /\ ~Broken => \A i \in DOMAIN said : script[i] # "output" =>
          i \in Afoot \/ script[i] \in inner.overflow \/ script[i] \in Known

\* The markers the dispatch has seen are in the log, and it stops at the end of the stream.
LedgerInv ==
    /\ dispatch # "failed" => outer.emitted \subseteq Marks(log)
    /\ dispatch = "persisted" =>
          rt.at = "finished" /\ Queued(outer) = <<>> /\ outer.overflow \subseteq outer.emitted

WayInv == /\ IInv /\ OrderInv /\ BridgeInv /\ CancelInv /\ KeepInv /\ ResultInv /\ GapInv
          /\ AccountInv /\ LedgerInv

\* What never comes back.
Onward ==
    /\ script' = script
    /\ Len(said) <= Len(said') /\ \A i \in DOMAIN said : i \in DOMAIN said' /\ said'[i] = said[i]
    /\ driver.at = "done" => driver' = driver /\ said' = said
    /\ dispatch = "failed" => dispatch' = "failed"
    /\ dispatch' = "persisting" => dispatch = "persisting"
    /\ rt.at = "finished" => rt'.at = "finished" /\ rt'.result = rt.result
    /\ outer'.reader => outer.reader
    /\ proxy.cancel => proxy'.cancel
    /\ ep.gone => ep'.gone
    /\ ep.cancelled => ep'.cancelled
    /\ host.command => host'.command
    /\ host.loss => host'.loss
    /\ stop.cancel => stop'.cancel

-----------------------------------------------------------------------------
(* Sets of items on the way. *)

\* Items that leave the way do not disturb the order.
LEMMA Thins ==
    ASSUME NEW sc, NEW w, NEW v, Sorted(sc, w), \A i \in 1..6 : v[i] \subseteq w[i]
    PROVE  Sorted(sc, v)
  BY DEF Sorted, Before

\* Items that move forward over empty places keep the order.
LEMMA Moves ==
    ASSUME NEW sc, NEW w, NEW v, NEW a \in 1..6, NEW b \in 1..6, a < b, Sorted(sc, w),
           \A i \in 1..6 : i # a /\ i # b => v[i] \subseteq w[i],
           \A i \in 1..6 : a < i /\ i < b => w[i] = {},
           v[a] \cup v[b] \subseteq w[a] \cup w[b], Before(sc, v[a], v[b])
    PROVE  Sorted(sc, v)
  <1> SUFFICES ASSUME NEW j \in 1..6, NEW k \in 1..6, j < k
               PROVE  Before(sc, v[j], v[k])
    BY DEF Sorted
  <1>1. \A i, n \in 1..6 : i < n => Before(sc, w[i], w[n])
    BY DEF Sorted
  <1>2. CASE j = a /\ k = b
    BY <1>2
  <1>3. CASE j \notin {a, b} /\ k \notin {a, b}
    BY <1>1, <1>3 DEF Before
  <1>4. CASE j \notin {a, b} /\ k \in {a, b}
    <2>1. v[j] \subseteq w[j] /\ v[k] \subseteq w[a] \cup w[b]
      BY <1>4
    <2>2. j < a \/ (a < j /\ j < b)
      BY <1>4
    <2>3. CASE j < a
      <3>1. j < b
        BY <2>3
      <3>2. Before(sc, w[j], w[a]) /\ Before(sc, w[j], w[b])
        BY <1>1, <2>3, <3>1
      <3>3. QED
        BY <2>1, <3>2 DEF Before
    <2>4. CASE a < j /\ j < b
      <3>1. w[j] = {}
        BY <2>4
      <3>2. QED
        BY <2>1, <3>1 DEF Before
    <2>5. QED
      BY <2>2, <2>3, <2>4
  <1>5. CASE j \in {a, b} /\ k \notin {a, b}
    <2>1. v[k] \subseteq w[k] /\ v[j] \subseteq w[a] \cup w[b]
      BY <1>5
    <2>2. b < k \/ (a < k /\ k < b)
      BY <1>5
    <2>3. CASE b < k
      <3>1. a < k
        BY <2>3
      <3>2. Before(sc, w[a], w[k]) /\ Before(sc, w[b], w[k])
        BY <1>1, <2>3, <3>1
      <3>3. QED
        BY <2>1, <3>2 DEF Before
    <2>4. CASE a < k /\ k < b
      <3>1. w[k] = {}
        BY <2>4
      <3>2. QED
        BY <2>1, <3>1 DEF Before
    <2>5. QED
      BY <2>2, <2>3, <2>4
  <1>6. QED
    BY <1>2, <1>3, <1>4, <1>5

\* The beginning of the way has the beginning of the output that is on it.
LEMMA NoGapBefore ==
    ASSUME NEW sc, NEW k \in Nat, NEW A, NEW B, Before(sc, A, B), NoGap(sc, k, A \cup B)
    PROVE  NoGap(sc, k, A)
  <1> SUFFICES ASSUME NEW i \in 1..k, NEW j \in 1..k, sc[i] = "output", sc[j] = "output", i < j, j \in A,
                      i \notin A
               PROVE  FALSE
    BY DEF NoGap
  <1>1. i \in B
    BY DEF NoGap
  <1>2. j < i
    BY <1>1 DEF Before, Less
  <1>3. QED
    BY <1>2

\* Items that are no output, and items said later, leave no gap.
LEMMA NoGapGrows ==
    ASSUME NEW sc, NEW k \in Nat, NEW n \in Nat, k <= n, NEW A, NEW B, NoGap(sc, k, A), A \subseteq B,
           \A i \in B : sc[i] = "output" => i \in A, A \subseteq 1..k
    PROVE  NoGap(sc, n, B)
  <1> SUFFICES ASSUME NEW i \in 1..n, NEW j \in 1..n, sc[i] = "output", sc[j] = "output", i < j, j \in B
               PROVE  i \in B
    BY DEF NoGap
  <1>1. j \in A /\ j \in 1..k
    OBVIOUS
  <1>2. i \in 1..k
    BY <1>1
  <1>3. QED
    BY <1>1, <1>2 DEF NoGap

\* What the order of the way says of the places before and behind one.
LEMMA WayBefore ==
    ASSUME OrderInv
    PROVE  /\ Before(script, Recorded, Items(Queued(outer)))
           /\ Before(script, Arrived, Items(Hand) \cup Items(chan.queue))
           /\ Before(script, Sent, Items(Kept) \cup Items(Queued(inner)))
  <1> DEFINE w == Way
  <1>1. /\ w[1] = Items(log) /\ w[2] = Items(Queued(outer)) /\ w[3] = Items(Hand)
        /\ w[4] = Items(chan.queue) /\ w[5] = Items(Kept) /\ w[6] = Items(Queued(inner))
    BY DEF Way
  <1> HIDE DEF w
  <1>2. \A j, k \in 1..6 : j < k => Before(script, w[j], w[k])
    BY DEF OrderInv, Sorted, w
  <1>3. /\ Before(script, w[1], w[2])
        /\ Before(script, w[1], w[3]) /\ Before(script, w[1], w[4])
        /\ Before(script, w[2], w[3]) /\ Before(script, w[2], w[4])
        /\ Before(script, w[1], w[5]) /\ Before(script, w[1], w[6])
        /\ Before(script, w[2], w[5]) /\ Before(script, w[2], w[6])
        /\ Before(script, w[3], w[5]) /\ Before(script, w[3], w[6])
        /\ Before(script, w[4], w[5]) /\ Before(script, w[4], w[6])
    BY <1>2
  <1>4. Before(script, Recorded, Items(Queued(outer)))
    BY <1>1, <1>3 DEF Recorded
  <1>5. Before(script, Arrived, Items(Hand) \cup Items(chan.queue))
    BY <1>1, <1>3 DEF Arrived, Before
  <1>6. Before(script, Sent, Items(Kept) \cup Items(Queued(inner)))
    BY <1>1, <1>3 DEF Arrived, Sent, Before
  <1>7. QED
    BY <1>4, <1>5, <1>6

\* Everything on its way was said.
LEMMA AfootSaid ==
    ASSUME OrderInv
    PROVE  /\ Afoot \subseteq 1..Len(said) /\ Sent \subseteq 1..Len(said)
           /\ Arrived \subseteq 1..Len(said) /\ Recorded \subseteq 1..Len(said)
  <1>1. /\ Items(log) \subseteq 1..Len(said) /\ Items(Queued(outer)) \subseteq 1..Len(said)
        /\ Items(Hand) \subseteq 1..Len(said) /\ Items(chan.queue) \subseteq 1..Len(said)
        /\ Items(Kept) \subseteq 1..Len(said) /\ Items(Queued(inner)) \subseteq 1..Len(said)
    BY SoundItems DEF OrderInv
  <1>2. QED
    BY <1>1 DEF Afoot, Sent, Arrived, Recorded

-----------------------------------------------------------------------------
(* What a step may never undo. *)

\* The end of the remote task leaves the controller's queue as it is.
LEMMA FinishKeeps ==
    ASSUME TypeOK, NEW result, NEW loss \in BOOLEAN, finish(result, loss)
    PROVE  /\ Queued(outer') = Queued(outer) /\ outer'.overflow = outer.overflow
           /\ outer'.emitted = outer.emitted /\ outer'.reader = outer.reader /\ ~outer'.open
           /\ outer'.side = outer.side /\ outer'.side_active = outer.side_active
           /\ rt'.at = "finished" /\ rt'.result = prefer_pending_bridge_failure(result)
           /\ ~proxy'.registered /\ proxy'.cancel = proxy.cancel /\ proxy'.run_closed = proxy.run_closed
  <1>1. RtType /\ OuterType /\ ProxyType
    BY DEF TypeOK
  <1>2. outer' = [outer EXCEPT !.open = FALSE]
    BY DEF finish, sender_dropped
  <1>3. /\ outer'.main = outer.main /\ outer'.side = outer.side /\ outer'.overflow = outer.overflow
        /\ outer'.emitted = outer.emitted /\ outer'.reader = outer.reader /\ ~outer'.open
        /\ outer'.side_active = outer.side_active
    BY <1>1, <1>2 DEF OuterType, Bridge
  <1>4. rt'.at = "finished" /\ rt'.result = prefer_pending_bridge_failure(result)
    BY <1>1 DEF finish, RtType
  <1>5. ~proxy'.registered /\ proxy'.cancel = proxy.cancel /\ proxy'.run_closed = proxy.run_closed
    BY <1>1 DEF finish, ProxyType
  <1>6. QED
    BY <1>3, <1>4, <1>5 DEF Queued

\* What was said stays said, and the driver that is done is done.
LEMMA DriverOnward ==
    ASSUME WayInv, DriverStep
    PROVE  Onward
  <1>1. TypeOK
    BY DEF WayInv, IInv
  <1>2. UNCHANGED <<script, trouble, stop, ep, host, chan, rt, proxy, outer, dispatch, log, callers>>
    BY DriverTypes DEF WayInv
  <1>3. driver.at # "done"
    BY DEF DriverStep, Emit, EmitWaits, ReportGivesUp, DriverReturns
  <1>4. said' = said \/ \E x : said' = Append(said, x)
    BY DEF DriverStep, Emit, EmitWaits, ReportGivesUp, DriverReturns, goes_on
  <1>5. Len(said) <= Len(said') /\ \A i \in DOMAIN said : i \in DOMAIN said' /\ said'[i] = said[i]
    <2>1. said \in Seq([how: Hows, final: BOOLEAN])
      BY <1>1 DEF TypeOK, SaidType
    <2>2. CASE said' = said
      BY <2>1, <2>2
    <2>3. ASSUME NEW x, said' = Append(said, x)
          PROVE  Len(said) <= Len(said') /\ \A i \in DOMAIN said : i \in DOMAIN said' /\ said'[i] = said[i]
      <3>1. \A S, T, q : q \in Seq(S) /\ S \subseteq T => q \in Seq(T)
        <4> SUFFICES ASSUME NEW S, NEW T, NEW q \in Seq(S), S \subseteq T PROVE q \in Seq(T)
          OBVIOUS
        <4>1. Len(q) \in Nat /\ q \in [1..Len(q) -> T]
          OBVIOUS
        <4>2. QED
          BY <4>1
      <3>2. said \in Seq([how: Hows, final: BOOLEAN] \cup {x})
        BY <2>1, <3>1, Zenon
      <3> DEFINE R == [how: Hows, final: BOOLEAN] \cup {x}
      <3>3. said \in Seq(R) /\ x \in R
        BY <3>2
      <3> HIDE DEF R
      <3>4. Len(said) \in Nat /\ Len(Append(said, x)) = Len(said) + 1 /\ DOMAIN said = 1..Len(said)
            /\ DOMAIN Append(said, x) = 1..Len(said) + 1
            /\ \A i \in 1..Len(said) : Append(said, x)[i] = said[i]
        BY <3>3
      <3>5. QED
        BY <2>3, <3>4
    <2>4. QED
      BY <1>4, <2>2, <2>3
  <1>6. QED
    BY <1>2, <1>3, <1>5 DEF Onward

\* The endpoint's signals stay up.
LEMMA EndpointOnward ==
    ASSUME WayInv, EndpointStep
    PROVE  Onward
  <1>1. TypeOK /\ EpType /\ StopType /\ SaidType
    BY DEF WayInv, IInv, TypeOK
  <1>2. UNCHANGED <<script, trouble, said, host, rt, proxy, outer, dispatch, log, callers>>
    BY EndpointTypes DEF WayInv
  <1>3. driver.at = "done" => driver' = driver
    <2>1. CASE StartReserved
      BY <2>1 DEF StartReserved, WayInv, IInv, EndpointInv
    <2>2. CASE LocalOutput \/ LocalForward \/ LocalCancel \/ LocalDone
      BY <2>2 DEF LocalOutput, LocalForward, LocalCancel, LocalDone, capsule
    <2>3. QED
      BY <2>1, <2>2 DEF EndpointStep
  <1>4. ASSUME NEW e, forward(e)
        PROVE  (ep.gone => ep'.gone) /\ (ep.cancelled => ep'.cancelled) /\ (stop.cancel => stop'.cancel)
    <2>1. \/ ep' = [ep EXCEPT !.at = "serving"]
          \/ ep' = [ep EXCEPT !.at = "serving", !.cancelled = TRUE, !.event = NoEvent,
                              !.metadata = retain(ep.metadata, e)]
          \/ ep' = [ep EXCEPT !.at = "serving", !.gone = TRUE, !.event = NoEvent]
          \/ ep' = [ep EXCEPT !.at = "serving", !.event = NoEvent]
          \/ ep' = [ep EXCEPT !.at = "forwarding", !.event = e]
      BY <1>4 DEF forward
    <2>2. (ep.gone => ep'.gone) /\ (ep.cancelled => ep'.cancelled)
      BY <1>1, <2>1 DEF EpType
    <2>3. stop' = stop \/ stop' = [stop EXCEPT !.cancel = TRUE]
      BY <1>4 DEF forward
    <2>4. stop.cancel => stop'.cancel
      BY <1>1, <2>3 DEF StopType
    <2>5. QED
      BY <2>2, <2>4
  <1>5. (ep.gone => ep'.gone) /\ (ep.cancelled => ep'.cancelled) /\ (stop.cancel => stop'.cancel)
    <2>1. CASE StartReserved \/ LocalDone
      <3>1. stop' = stop
        BY <2>1 DEF StartReserved, LocalDone, capsule
      <3>2. ep' = [ep EXCEPT !.at = "serving"] \/ ep' = [ep EXCEPT !.at = "done"]
        BY <2>1 DEF StartReserved, LocalDone
      <3>3. QED
        BY <1>1, <3>1, <3>2 DEF EpType
    <2>2. CASE LocalOutput \/ LocalForward
      BY <1>4, <2>2 DEF LocalOutput, LocalForward
    <2>3. CASE LocalCancel
      BY <1>1, <2>3 DEF LocalCancel, EpType, StopType
    <2>4. QED
      BY <2>1, <2>2, <2>3 DEF EndpointStep
  <1>6. Len(said) <= Len(said)
    BY <1>1 DEF SaidType
  <1>7. QED
    BY <1>2, <1>3, <1>5, <1>6 DEF Onward

\* Handing an event over does what the send did.
LEMMA BridgedKeeps ==
    ASSUME TypeOK, NEW e, NEW end, bridged(end, e)
    PROVE  /\ outer' = end.q /\ proxy' = proxy
           /\ end.how = "wait" => rt'.at = "bridging" /\ rt'.event = e
           /\ end.how \in {"ok", "cancelled"} => rt'.at = "reading"
           /\ end.how \notin {"wait", "ok", "cancelled"} => rt'.at = "withdrawing"
  BY DEF bridged, reads, TypeOK, RtType

\* The sends of the remote task.
SendsOuter(e, end) ==
    \/ e.kind = "output" /\ end = send(outer, e, proxy.cancel)
    \/ /\ e.kind # "output"
       /\ end \in {send_terminal(outer, e, proxy.cancel), reserve_terminal(outer, e, proxy.cancel)}

\* They end as a send ends.
LEMMA OuterOutcome ==
    ASSUME WayInv, NEW e \in Message, NEW end, SendsOuter(e, end)
    PROVE  /\ Outcome(outer, e, proxy.cancel, end) /\ end.q \in Bridge /\ end.how \in Hows
           /\ end.q.open = outer.open
           /\ e.kind = "output" => end.how # "overflow"
           /\ e.kind # "output" => end.how # "cancelled"
  <1>1. outer \in Bridge /\ proxy.cancel \in BOOLEAN /\ Sided(outer, proxy.cancel)
    BY DEF WayInv, IInv, TypeOK, OuterType, ProxyType, BridgeInv
  <1>2. end.q \in Bridge /\ end.how \in Hows /\ end.q.open = outer.open
    BY <1>1, SendType DEF SendsOuter
  <1>3. QED
    BY <1>1, <1>2, Sends DEF SendsOuter

\* A step of the remote task is one of these.
RemoteCases ==
    \/ /\ rt.at = "idle" /\ rt'.at \in {"refused", "starting"} /\ UNCHANGED <<ep, chan, outer, host>>
       /\ proxy'.registered <=> (proxy.registered \/ rt'.at = "starting")
       /\ proxy'.cancel = proxy.cancel /\ (rt'.at = "starting" => ~proxy.run_closed)
    \/ /\ rt.at \in {"starting", "start_cancelled"} /\ UNCHANGED <<ep, chan, host>>
       /\ \E result \in {"lost", "run_closed", "cancelled"}, loss \in BOOLEAN : finish(result, loss)
    \/ /\ rt.at = "starting" /\ rt'.at = "start_cancelled"
       /\ UNCHANGED <<ep, chan, proxy, outer, host>> /\ proxy.cancel
    \/ /\ rt.at = "starting" /\ rt'.at = "reading" /\ ep' = [ep EXCEPT !.at = "reserved"]
       /\ UNCHANGED <<chan, proxy, outer, host>> /\ ~host.closed
    \/ /\ Reading /\ chan' = [chan EXCEPT !.reader = FALSE] /\ UNCHANGED <<ep, host>>
       /\ \E loss \in BOOLEAN : finish("lost", loss)
    \/ /\ rt.at = "reading" /\ StreamReady /\ ~StreamEnds /\ ~IsMessage(stream_next)
       /\ finish(stream_next.kind, FALSE) /\ chan' = [stream_rest EXCEPT !.reader = FALSE]
       /\ UNCHANGED <<ep, host>>
    \/ /\ rt.at = "reading" /\ rt'.at \in {"reading", "cancelling"} /\ UNCHANGED <<ep, chan, proxy, outer, host>>
       /\ rt'.at = "cancelling" => proxy.cancel
    \/ /\ rt.at \in {"cancelling", "withdrawing"} /\ rt'.at = "reading"
       /\ UNCHANGED <<ep, chan, proxy, outer>>
       /\ host' = host \/ host' = [host EXCEPT !.command = host.command \/ Active]
    \/ /\ rt.at = "reading" /\ StreamReady /\ ~StreamEnds /\ IsMessage(stream_next)
       /\ chan' = stream_rest /\ UNCHANGED <<ep, host>>
       /\ \E end : SendsOuter(stream_next, end) /\ bridged(end, stream_next)
    \/ /\ rt.at = "bridging" /\ UNCHANGED <<ep, chan, host>>
       /\ \E end : SendsOuter(rt.event, end) /\ end.how # "wait" /\ bridged(end, rt.event)

\* Every step of the remote task is one of these.
LEMMA RemoteSteps ==
    ASSUME WayInv, RemoteStart \/ RemoteStep
    PROVE  RemoteCases /\ (proxy.cancel => proxy'.cancel) /\ (proxy.run_closed => proxy'.run_closed)
           /\ UNCHANGED <<capsule, dispatch, log, callers>>
  <1>0. TypeOK /\ RtType /\ ProxyType /\ HostType
    BY DEF WayInv, IInv, TypeOK
  <1>1. UNCHANGED <<capsule, dispatch, log, callers>>
    BY RemoteTypes DEF WayInv
  <1>2. ASSUME NEW result, NEW loss \in BOOLEAN, finish(result, loss)
        PROVE  (proxy.cancel => proxy'.cancel) /\ (proxy.run_closed => proxy'.run_closed)
    BY <1>0, <1>2, FinishKeeps
  <1>3. CASE RemoteStart
    <2>1. rt.at = "idle" /\ rt'.at \in {"refused", "starting"} /\ UNCHANGED <<ep, chan, outer, host>>
          /\ (rt'.at = "starting" => ~proxy.run_closed)
      BY <1>0, <1>3 DEF RemoteStart, RtType
    <2>2. /\ proxy'.cancel = proxy.cancel /\ (proxy.run_closed => proxy'.run_closed)
          /\ proxy'.registered <=> (proxy.registered \/ rt'.at = "starting")
      BY <1>0, <1>3 DEF RemoteStart, ProxyType, RtType
    <2>3. QED
      BY <1>1, <2>1, <2>2 DEF RemoteCases
  <1>4. CASE AwaitRemoteStart
    <2>0. rt.at = "starting" /\ host' = host
      BY <1>4 DEF AwaitRemoteStart
    <2>1. CASE UNCHANGED <<ep, chan>> /\ \E result \in {"lost", "run_closed"}, loss \in BOOLEAN : finish(result, loss)
      <3>1. \E result \in {"lost", "run_closed", "cancelled"}, loss \in BOOLEAN : finish(result, loss)
        BY <2>1
      <3>2. QED
        BY <1>1, <1>2, <2>0, <2>1, <3>1 DEF RemoteCases
    <2>2. CASE /\ rt' = [rt EXCEPT !.at = "reading"]
               /\ ep' = [ep EXCEPT !.at = "reserved"]
               /\ UNCHANGED <<chan, proxy, outer>> /\ ~host.closed
      <3>1. rt'.at = "reading"
        BY <1>0, <2>2 DEF RtType
      <3>2. QED
        BY <1>1, <2>0, <2>2, <3>1 DEF RemoteCases
    <2>3. CASE /\ rt' = [rt EXCEPT !.at = "start_cancelled"] /\ proxy.cancel
               /\ UNCHANGED <<ep, chan, proxy, outer>>
      <3>1. rt'.at = "start_cancelled"
        BY <1>0, <2>3 DEF RtType
      <3>2. QED
        BY <1>1, <2>0, <2>3, <3>1 DEF RemoteCases
    <2>4. host.loss \in BOOLEAN
      BY <1>0 DEF HostType
    <2>5. QED
      BY <1>4, <2>1, <2>2, <2>3, <2>4 DEF AwaitRemoteStart
  <1>5. CASE PendingStartCancelled
    <2>1. /\ UNCHANGED <<ep, chan, host>> /\ rt.at = "start_cancelled"
          /\ \E result \in {"lost", "run_closed", "cancelled"}, loss \in BOOLEAN : finish(result, loss)
      BY <1>5 DEF PendingStartCancelled
    <2>2. QED
      BY <1>1, <1>2, <2>1 DEF RemoteCases
  <1>6. ASSUME Reading, chan' = [chan EXCEPT !.reader = FALSE], UNCHANGED <<ep, host>>,
               NEW loss \in BOOLEAN, finish("lost", loss)
        PROVE  RemoteCases /\ (proxy.cancel => proxy'.cancel) /\ (proxy.run_closed => proxy'.run_closed)
    BY <1>2, <1>6 DEF RemoteCases
  <1>7. CASE RemoteEvent
    <2>0. UNCHANGED <<ep, host>> /\ Reading /\ StreamReady /\ rt.at = "reading"
      BY <1>7 DEF RemoteEvent, Reading
    <2>1. CASE StreamEnds
      BY <1>1, <1>6, <1>7, <2>0, <2>1 DEF RemoteEvent
    <2>2. CASE ~StreamEnds /\ IsMessage(stream_next)
      <3> DEFINE e == stream_next
                 end == IF e.kind = "output" THEN send(outer, e, proxy.cancel)
                        ELSE send_terminal(outer, e, proxy.cancel)
      <3>1. bridged(end, e) /\ chan' = stream_rest
        BY <1>7, <2>2 DEF RemoteEvent
      <3>2. SendsOuter(e, end)
        BY DEF SendsOuter
      <3> HIDE DEF end
      <3>3. proxy' = proxy
        BY <3>1 DEF bridged
      <3>4. QED
        BY <1>1, <2>0, <2>2, <3>1, <3>2, <3>3 DEF RemoteCases
    <2>3. CASE ~StreamEnds /\ ~IsMessage(stream_next)
      <3>1. finish(stream_next.kind, FALSE) /\ chan' = [stream_rest EXCEPT !.reader = FALSE]
        BY <1>7, <2>3 DEF RemoteEvent
      <3>2. QED
        BY <1>1, <1>2, <2>0, <2>3, <3>1 DEF RemoteCases
    <2>4. QED
      BY <2>1, <2>2, <2>3
  <1>8. CASE RemoteBridge
    <2>0. UNCHANGED <<ep, host>> /\ Reading /\ rt.at = "bridging"
      BY <1>8 DEF RemoteBridge, Reading
    <2>1. CASE Lost
      BY <1>1, <1>6, <1>8, <2>0, <2>1 DEF RemoteBridge
    <2>2. CASE ~Lost
      <3> DEFINE e == rt.event
                 end == IF e.kind = "output" THEN send(outer, e, proxy.cancel)
                        ELSE reserve_terminal(outer, e, proxy.cancel)
      <3>1. bridged(end, e) /\ chan' = chan /\ end.how # "wait"
        BY <1>8, <2>2 DEF RemoteBridge
      <3>2. SendsOuter(e, end)
        BY DEF SendsOuter
      <3> HIDE DEF end
      <3>3. proxy' = proxy
        BY <3>1 DEF bridged
      <3>4. QED
        BY <1>1, <2>0, <3>1, <3>2, <3>3 DEF RemoteCases
    <2>3. QED
      BY <2>1, <2>2
  <1>9. CASE RemoteSignal
    <2>0. UNCHANGED <<ep, host>> /\ Reading /\ rt.at = "reading"
      BY <1>9 DEF RemoteSignal, Reading
    <2>1. CASE Lost /\ finish("lost", FALSE) /\ chan' = [chan EXCEPT !.reader = FALSE]
      BY <1>1, <1>6, <2>0, <2>1
    <2>2. CASE ~Lost /\ rt.closing /\ ~StreamReady /\ proxy.closed
      <3>1. ep.at # "none" /\ chan.terminal = "pending"
        BY <2>0, <2>2 DEF WayInv, IInv, RemoteInv, StreamReady
      <3>2. closer.ok
        BY <2>2 DEF WayInv, IInv, CloseInv
      <3>3. ~Active
        BY <3>2 DEF WayInv, IInv, CloseInv
      <3>4. ep.at # "done" /\ EpType
        BY <1>0, <3>1 DEF WayInv, IInv, EndpointInv, TypeOK
      <3>5. QED
        BY <3>1, <3>3, <3>4 DEF Active, EpType
    <2>3. CASE /\ \/ rt' = [rt EXCEPT !.closing = TRUE, !.cancellation_handled = TRUE]
                  \/ rt' = [rt EXCEPT !.at = "cancelling", !.cancellation_handled = TRUE] /\ proxy.cancel
               /\ UNCHANGED <<chan, proxy, outer>>
      <3>1. rt'.at \in {"reading", "cancelling"} /\ (rt'.at = "cancelling" => proxy.cancel)
        BY <1>0, <2>0, <2>3 DEF RtType
      <3>2. QED
        BY <1>1, <2>0, <2>3, <3>1 DEF RemoteCases
    <2>4. QED
      BY <1>9, <2>1, <2>2, <2>3 DEF RemoteSignal
  <1>10. CASE ForwardCancel
    <2>0. ep' = ep /\ Reading /\ rt.at \in {"cancelling", "withdrawing"}
      BY <1>10 DEF ForwardCancel, Reading
    <2>1. CASE forward_lost
      BY <1>1, <1>6, <2>0, <2>1 DEF forward_lost
    <2>2. ASSUME NEW c \in BOOLEAN, forwarded(c),
                 host' = host \/ host' = [host EXCEPT !.command = host.command \/ Active]
          PROVE  RemoteCases /\ proxy' = proxy
      <3>1. rt' = [rt EXCEPT !.at = "reading", !.event = NoEvent,
                             !.pending = rt.pending \/ rt.at = "withdrawing",
                             !.closing = rt.closing \/ (c /\ rt.at = "cancelling")]
        BY <1>0, <2>2 DEF forwarded, reads, RtType
      <3>2. rt'.at = "reading"
        BY <1>0, <3>1 DEF RtType
      <3>3. chan' = chan /\ proxy' = proxy /\ outer' = outer
        BY <2>2 DEF forwarded
      <3>4. QED
        BY <2>0, <2>2, <3>2, <3>3 DEF RemoteCases
    <2>3. \/ forward_lost
          \/ \E c \in BOOLEAN : /\ forwarded(c)
                                /\ \/ host' = host
                                   \/ host' = [host EXCEPT !.command = host.command \/ Active]
      BY <1>10 DEF ForwardCancel
    <2>4. QED
      BY <1>1, <2>1, <2>2, <2>3
  <1>11. QED
    BY <1>3, <1>4, <1>5, <1>7, <1>8, <1>9, <1>10 DEF RemoteStep

\* The remote task ends once, and its signals stay up.
LEMMA RemoteOnward ==
    ASSUME WayInv, RemoteStart \/ RemoteStep
    PROVE  Onward
  <1>0. TypeOK /\ HostType /\ EpType /\ SaidType /\ OuterType
    BY DEF WayInv, IInv, TypeOK
  <1>1. UNCHANGED <<script, said, driver, inner, stop, dispatch>> /\ RemoteCases
        /\ (proxy.cancel => proxy'.cancel)
    BY RemoteSteps DEF capsule
  <1>2. rt.at # "finished"
    BY <1>1 DEF RemoteCases, Reading
  <1>3. (ep.gone => ep'.gone) /\ (ep.cancelled => ep'.cancelled)
    <2>1. ep' = ep \/ ep' = [ep EXCEPT !.at = "reserved"]
      BY <1>1 DEF RemoteCases
    <2>2. QED
      BY <1>0, <2>1 DEF EpType
  <1>4. (host.command => host'.command) /\ (host.loss => host'.loss)
    <2>1. host' = host \/ host' = [host EXCEPT !.command = host.command \/ Active]
      BY <1>1 DEF RemoteCases
    <2>2. QED
      BY <1>0, <2>1 DEF HostType
  <1>5. outer'.reader => outer.reader
    <2>1. ASSUME NEW e \in Message, NEW end, SendsOuter(e, end), bridged(end, e)
          PROVE  outer'.reader = outer.reader
      BY <1>0, <2>1, OuterOutcome, BridgedKeeps DEF Outcome
    <2>2. ASSUME NEW result, NEW loss \in BOOLEAN, finish(result, loss)
          PROVE  outer'.reader = outer.reader
      BY <1>0, <2>2, FinishKeeps
    <2>3. rt.at = "bridging" => rt.event \in Message
      BY DEF WayInv, IInv, InHand
    <2>4. rt.at = "reading" /\ StreamReady /\ ~StreamEnds /\ IsMessage(stream_next) =>
             stream_next \in Message
      BY StreamNext DEF WayInv, Reading, IsMessage, Ending, Endings, Kinds
    <2>5. QED
      BY <1>1, <2>1, <2>2, <2>3, <2>4 DEF RemoteCases
  <1>6. Len(said) <= Len(said)
    BY <1>0 DEF SaidType
  <1>7. QED
    BY <1>1, <1>2, <1>3, <1>4, <1>5, <1>6 DEF Onward

\* So do the signals of the calls, and the dispatch ends once.
LEMMA CallerOnward ==
    ASSUME WayInv, CallerStep
    PROVE  Onward
  <1>0. TypeOK /\ HostType /\ StopType /\ SaidType /\ ProxyType /\ OuterType
    BY DEF WayInv, IInv, TypeOK
  <1>1. UNCHANGED <<script, trouble, said, driver, inner, ep, chan, rt>> /\ (host.loss => host'.loss)
    BY CallerTypes DEF WayInv
  <1>2. /\ dispatch = "failed" => dispatch' = "failed"
        /\ dispatch' = "persisting" => dispatch = "persisting"
    BY DEF CallerStep, ForwardLoss, DispatchStep, Interrupt, Persist, PersistFails, BeginClose,
       CloserStep, CloseCall, CompleteClose, WaitRun, Disconnect, DisconnectCloses
  <1>3. outer'.reader => outer.reader
    <2>1. recv_many(outer, Batch).reader = outer.reader
      BY <1>0, Receives, StreamAssumption DEF WayInv, OrderInv, OuterType
    <2>2. outer' = outer \/ outer' = recv_many(outer, Batch)
          \/ outer' = [recv_many(outer, Batch) EXCEPT !.reader = FALSE]
      BY DEF CallerStep, ForwardLoss, DispatchStep, Interrupt, Persist, PersistFails, BeginClose,
         CloserStep, CloseCall, CompleteClose, WaitRun, Disconnect, DisconnectCloses
    <2>3. recv_many(outer, Batch) \in Bridge
      BY <1>0, ReceiveType, StreamAssumption DEF OuterType
    <2>4. QED
      BY <2>1, <2>2, <2>3 DEF Bridge
  <1>4. proxy.cancel => proxy'.cancel
    BY <1>0 DEF CallerStep, ForwardLoss, DispatchStep, Interrupt, Persist, PersistFails, BeginClose,
       CloserStep, CloseCall, CompleteClose, WaitRun, Disconnect, DisconnectCloses, ProxyType
  <1>5. host.command => host'.command
    BY <1>0 DEF CallerStep, ForwardLoss, DispatchStep, Interrupt, Persist, PersistFails, BeginClose,
       CloserStep, CloseCall, CompleteClose, WaitRun, Disconnect, DisconnectCloses, HostType,
       local_close_begins
  <1>6. stop.cancel => stop'.cancel
    BY <1>0 DEF CallerStep, ForwardLoss, DispatchStep, Interrupt, Persist, PersistFails, BeginClose,
       CloserStep, CloseCall, CompleteClose, WaitRun, Disconnect, DisconnectCloses, StopType,
       local_close_runner, capsule
  <1>7. Len(said) <= Len(said)
    BY <1>0 DEF SaidType
  <1>8. QED
    BY <1>1, <1>2, <1>3, <1>4, <1>5, <1>6, <1>7 DEF Onward

-----------------------------------------------------------------------------
(* What a step has to show for the gaps and for the account. *)

\* The signals of the successor were those of the state, or are new.
LEMMA SignalsOnward ==
    ASSUME Onward
    PROVE  (Flowing' => Flowing) /\ (Passing' => Passing) /\ (Broken => Broken')
  BY DEF Onward, Flowing, Passing, Broken

\* While nothing was cancelled, all output is on its way.
LEMMA PassingHasAll ==
    ASSUME TypeOK, OrderInv, CancelInv, Passing,
           \A i \in DOMAIN said : said[i].how = "ok" => i \in Afoot,
           ~stop.cancel => \A i \in DOMAIN said : script[i] = "output" => said[i].how = "ok"
    PROVE  NoGap(script, Len(said), Sent)
  <1>1. ~stop.cancel
    BY DEF CancelInv, Passing
  <1>2. DOMAIN said = 1..Len(said) /\ Len(said) \in Nat
    BY DEF TypeOK, SaidType
  <1>3. \A i \in 1..Len(said) : script[i] = "output" => i \in Afoot
    BY <1>1, <1>2
  <1>4. NoGap(script, Len(said), Sent \cup (Items(Kept) \cup Items(Queued(inner))))
    BY <1>3 DEF NoGap, Afoot
  <1>5. Before(script, Sent, Items(Kept) \cup Items(Queued(inner)))
    BY WayBefore
  <1>6. QED
    BY <1>2, <1>4, <1>5, NoGapBefore

\* Output that got this far still has no gap.
LEMMA GapStep ==
    ASSUME WayInv, Onward, TypeOK', OrderInv', CancelInv',
           Recorded' = Recorded \/ dispatch' = "persisting",
           dispatch' = "persisting" /\ ~Flowing' =>
              Arrived \subseteq Arrived' /\ \A i \in Arrived' : script[i] = "output" => i \in Arrived,
           Flowing' /\ ~Passing' =>
              Sent \subseteq Sent' /\ \A i \in Sent' : script[i] = "output" => i \in Sent,
           Flowing' /\ Passing' => \A i \in DOMAIN said' : said'[i].how = "ok" => i \in Afoot',
           ~stop'.cancel =>
              \A i \in DOMAIN said' : script[i] = "output" => i \in DOMAIN said \/ said'[i].how = "ok",
           rt'.at = "finished" /\ rt'.result = "ok" /\ ~proxy'.cancel /\ ~host'.loss
             /\ dispatch' # "failed" =>
              driver'.at = "done" /\ driver'.result = "ok" /\ \A i \in DOMAIN said' : i \in Arrived'
    PROVE  GapInv'
  <1>0. /\ Len(said) \in Nat /\ Len(said') \in Nat /\ Len(said) <= Len(said') /\ script' = script
        /\ GapInv /\ OrderInv
    BY DEF WayInv, IInv, TypeOK, SaidType, Onward
  <1>a. Recorded \subseteq 1..Len(said) /\ Arrived \subseteq 1..Len(said) /\ Sent \subseteq 1..Len(said)
    BY <1>0, AfootSaid
  <1>c. /\ Before(script', Recorded', Items(Queued(outer'))) 
        /\ Before(script', Arrived', Items(Hand') \cup Items(chan'.queue))
    <2>1. (OrderInv => /\ Before(script, Recorded, Items(Queued(outer)))
                       /\ Before(script, Arrived, Items(Hand) \cup Items(chan.queue))
                       /\ Before(script, Sent, Items(Kept) \cup Items(Queued(inner))))'
      BY WayBefore, PTL
    <2>2. QED
      BY <2>1
  <1>1. ~stop'.cancel => \A i \in DOMAIN said' : script'[i] = "output" => said'[i].how = "ok"
    <2> SUFFICES ASSUME ~stop'.cancel, NEW i \in DOMAIN said', script[i] = "output", i \in DOMAIN said
                 PROVE  said'[i].how = "ok"
      BY <1>0
    <2>1. ~stop.cancel /\ said'[i] = said[i]
      BY DEF Onward
    <2>2. QED
      BY <1>0, <2>1 DEF GapInv
  <1>2. Flowing' => NoGap(script', Len(said'), Sent')
    <2>1. CASE Flowing' /\ Passing'
      <3>1. (TypeOK /\ OrderInv /\ CancelInv /\ Passing
             /\ (\A i \in DOMAIN said : said[i].how = "ok" => i \in Afoot)
             /\ (~stop.cancel => \A i \in DOMAIN said : script[i] = "output" => said[i].how = "ok")
             => NoGap(script, Len(said), Sent))'
        BY PassingHasAll, PTL
      <3>2. QED
        BY <1>1, <2>1, <3>1
    <2>2. CASE Flowing' /\ ~Passing'
      <3>1. Flowing
        BY <2>2, SignalsOnward
      <3>2. NoGap(script, Len(said), Sent)
        BY <1>0, <3>1 DEF GapInv
      <3>3. Sent \subseteq Sent' /\ \A i \in Sent' : script[i] = "output" => i \in Sent
        BY <2>2
      <3>4. QED
        BY <1>0, <1>a, <3>2, <3>3, NoGapGrows
    <2>3. QED
      BY <2>1, <2>2
  <1>3. dispatch' = "persisting" => NoGap(script', Len(said'), Arrived')
    <2>1. CASE Flowing'
      <3>1. Sent' = Arrived' \cup (Items(Hand') \cup Items(chan'.queue))
        BY DEF Sent
      <3>2. QED
        BY <1>0, <1>2, <1>c, <2>1, <3>1, NoGapBefore
    <2>2. CASE dispatch' = "persisting" /\ ~Flowing'
      <3>1. dispatch = "persisting"
        BY <2>2 DEF Onward
      <3>2. NoGap(script, Len(said), Arrived)
        BY <1>0, <3>1 DEF GapInv
      <3>3. Arrived \subseteq Arrived' /\ \A i \in Arrived' : script[i] = "output" => i \in Arrived
        BY <2>2
      <3>4. QED
        BY <1>0, <1>a, <3>2, <3>3, NoGapGrows
    <2>3. QED
      BY <2>1, <2>2
  <1>4. NoGap(script', Len(said'), Recorded')
    <2>1. CASE dispatch' = "persisting"
      <3>1. Arrived' = Recorded' \cup Items(Queued(outer'))
        BY DEF Arrived, Recorded
      <3>2. QED
        BY <1>0, <1>3, <1>c, <2>1, <3>1, NoGapBefore
    <2>2. CASE Recorded' = Recorded
      <3>1. NoGap(script, Len(said), Recorded)
        BY <1>0 DEF GapInv
      <3>2. QED
        BY <1>0, <1>a, <2>2, <3>1, NoGapGrows
    <2>3. QED
      BY <2>1, <2>2
  <1>5. QED
    BY <1>1, <1>2, <1>3, <1>4 DEF GapInv

\* Metadata that leaves the way is known to be missing.
LEMMA AccountStep ==
    ASSUME WayInv, Onward, TypeOK', OrderInv',
           ~Broken' => \A kind \in Kinds : kind \in Known => kind \in Known',
           ~Broken' => inner'.emitted \subseteq inner.emitted \cup Known',
           ~Broken' => \A i \in Afoot : script[i] # "output" => i \in Afoot' \/ script[i] \in Known',
           inner.overflow \subseteq inner'.overflow,
           ~Broken' => \A i \in DOMAIN said' : script[i] # "output" =>
              i \in DOMAIN said \/ i \in Afoot' \/ script[i] \in inner'.overflow
    PROVE  AccountInv'
  <1>0. script' = script /\ AccountInv /\ (~Broken' => ~Broken)
    BY SignalsOnward DEF WayInv, Onward
  <1>1. ~Broken' => inner'.emitted \subseteq Known'
    <2>1. inner.emitted \subseteq Kinds
      BY DEF WayInv, IInv, TypeOK, InnerType, Bridge
    <2>2. QED
      BY <1>0, <2>1 DEF AccountInv
  <1>2. ASSUME ~Broken', NEW i \in DOMAIN said', script[i] # "output"
        PROVE  i \in Afoot' \/ script[i] \in inner'.overflow \/ script[i] \in Known'
    <2>1. CASE i \notin DOMAIN said
      BY <1>2, <2>1
    <2>2. CASE i \in DOMAIN said
      <3>1. script[i] \in Kinds
        <4>1. said \in Seq([how: Hows, final: BOOLEAN]) /\ script \in Seq(Kinds) /\ Len(said) <= Len(script)
          BY DEF WayInv, IInv, TypeOK, SaidType, ScriptType, OrderInv
        <4>2. Len(said) \in Nat /\ Len(script) \in Nat /\ i \in 1..Len(said)
          BY <2>2, <4>1
        <4>3. i \in 1..Len(script)
          BY <4>1, <4>2
        <4>4. QED
          BY <4>1, <4>3
      <3>2. i \in Afoot \/ script[i] \in inner.overflow \/ script[i] \in Known
        BY <1>0, <1>2, <2>2 DEF AccountInv
      <3>3. QED
        BY <1>2, <3>1, <3>2
    <2>3. QED
      BY <2>1, <2>2
  <1>3. QED
    BY <1>0, <1>1, <1>2 DEF AccountInv

\* A step that moves no event.
Quiet ==
    /\ said' = said /\ log' = log
    /\ Queued(outer') = Queued(outer) /\ outer'.overflow = outer.overflow
    /\ outer'.emitted = outer.emitted
    /\ chan'.queue = chan.queue /\ Kept' = Kept
    /\ Queued(inner') = Queued(inner) /\ inner'.overflow = inner.overflow
    /\ inner'.emitted = inner.emitted
    /\ Hand' = Hand \/ (Hand' = <<>> /\ Broken')

\* It keeps what the invariant says of the events.
LEMMA QuietKeeps ==
    ASSUME WayInv, Onward, TypeOK', CancelInv', Quiet,
           rt'.at = "finished" /\ rt'.result = "ok" => rt.at = "finished",
           dispatch' = "persisted" => dispatch = "persisted"
    PROVE  OrderInv' /\ GapInv' /\ AccountInv' /\ LedgerInv'
  <1>0. script' = script /\ said' = said /\ OrderInv /\ GapInv /\ AccountInv /\ LedgerInv
    BY DEF WayInv, Onward, Quiet
  <1>1. /\ Items(log') = Items(log) /\ Items(Queued(outer')) = Items(Queued(outer))
        /\ Items(chan'.queue) = Items(chan.queue) /\ Items(Kept') = Items(Kept)
        /\ Items(Queued(inner')) = Items(Queued(inner)) /\ Items(Hand') \subseteq Items(Hand)
        /\ ~Broken' => Hand' = Hand
    BY NothingSaid DEF Quiet
  <1>2. OrderInv'
    <2>1. Sorted(script', Way')
      <3> DEFINE w == Way
                 v == Way'
      <3>1. /\ w[1] = Items(log) /\ w[2] = Items(Queued(outer)) /\ w[3] = Items(Hand)
            /\ w[4] = Items(chan.queue) /\ w[5] = Items(Kept) /\ w[6] = Items(Queued(inner))
        BY DEF Way
      <3>2. /\ v[1] = Items(log') /\ v[2] = Items(Queued(outer')) /\ v[3] = Items(Hand')
            /\ v[4] = Items(chan'.queue) /\ v[5] = Items(Kept') /\ v[6] = Items(Queued(inner'))
        BY DEF Way
      <3> HIDE DEF w, v
      <3>3. \A i \in 1..6 : v[i] \subseteq w[i]
        BY <1>1, <3>1, <3>2
      <3>4. Sorted(script, w)
        BY <1>0 DEF OrderInv, w
      <3>5. Sorted(script, v)
        BY <3>3, <3>4, Thins
      <3>6. QED
        BY <1>0, <3>5 DEF v
    <2>2. Sound(script', Len(said'), Hand')
      BY <1>0, NothingSaid DEF Quiet, OrderInv
    <2>3. QED
      BY <1>0, <2>1, <2>2 DEF Quiet, OrderInv
  <1>3. Recorded' = Recorded /\ Arrived' = Arrived
    BY <1>1 DEF Recorded, Arrived
  <1>4. Flowing' => ~Broken'
    BY DEF Flowing, Broken
  <1>5. ~Broken' => Sent' = Sent /\ Afoot' = Afoot /\ Known' = Known
    BY <1>1, <1>3 DEF Quiet, Sent, Afoot, Known
  <1>6. GapInv'
    <2>1. Flowing' /\ Passing' => \A i \in DOMAIN said' : said'[i].how = "ok" => i \in Afoot'
      BY <1>0, <1>4, <1>5, SignalsOnward DEF GapInv
    <2>2. rt'.at = "finished" /\ rt'.result = "ok" /\ ~proxy'.cancel /\ ~host'.loss /\ dispatch' # "failed" =>
             driver'.at = "done" /\ driver'.result = "ok" /\ \A i \in DOMAIN said' : i \in Arrived'
      <3> SUFFICES ASSUME rt'.at = "finished", rt'.result = "ok", ~proxy'.cancel, ~host'.loss,
                          dispatch' # "failed"
                   PROVE  driver'.at = "done" /\ driver'.result = "ok" /\ \A i \in DOMAIN said' : i \in Arrived'
        OBVIOUS
      <3>1. rt.at = "finished" /\ rt.result = "ok" /\ ~proxy.cancel /\ ~host.loss /\ dispatch # "failed"
        BY DEF Onward
      <3>2. driver.at = "done" /\ driver.result = "ok" /\ \A i \in DOMAIN said : i \in Arrived
        BY <1>0, <3>1 DEF GapInv
      <3>3. driver' = driver
        BY <3>2 DEF Onward
      <3>4. QED
        BY <1>0, <1>3, <3>2, <3>3
    <2>3. QED
      BY <1>0, <1>2, <1>3, <1>4, <1>5, <2>1, <2>2, GapStep
  <1>7. AccountInv'
    BY <1>0, <1>2, <1>5, AccountStep DEF Quiet
  <1>8. LedgerInv'
    <2>1. dispatch' # "failed" => outer'.emitted \subseteq Marks(log')
      BY <1>0 DEF Quiet, LedgerInv, Onward
    <2>2. dispatch' = "persisted" =>
             rt'.at = "finished" /\ Queued(outer') = <<>> /\ outer'.overflow \subseteq outer'.emitted
      BY <1>0 DEF Quiet, LedgerInv, Onward
    <2>3. QED
      BY <2>1, <2>2 DEF LedgerInv
  <1>9. QED
    BY <1>2, <1>6, <1>7, <1>8

-----------------------------------------------------------------------------
(* The driver's steps. *)

\* What a step of the driver does to what it has said and to the capsule's bridge.
DriverCases ==
    /\ driver.at \in {"on", "waiting"} /\ driver'.at # "off"
    /\ inner'.reader /\ Sided(inner', stop.cancel) /\ inner'.emitted = inner.emitted
    /\ driver'.at = "done" /\ driver'.result = "ok" => \A i \in DOMAIN said' : said'[i].how = "ok"
    /\ \/ said' = said /\ Queued(inner') = Queued(inner) /\ inner'.overflow = inner.overflow
       \/ /\ Item <= Len(script) /\ Saying \in Message
          /\ \E how \in Hows, final \in BOOLEAN :
               /\ said' = Append(said, [how |-> how, final |-> final])
               /\ \/ /\ how = "ok" /\ Queued(inner') = Append(Queued(inner), Saying)
                     /\ inner'.overflow = inner.overflow
                  \/ /\ how = "overflow" /\ Queued(inner') = Queued(inner)
                     /\ inner'.overflow = inner.overflow \cup {metadata_of(Saying)}
                     /\ script[Item] = "output" => stop.cancel

\* The item the driver is at is one of its script.
LEMMA ItemIsThere ==
    ASSUME TypeOK, Item <= Len(script)
    PROVE  /\ Item \in 1..Len(script) /\ script[Item] \in Kinds /\ Saying \in Message
           /\ Saying.kind = script[Item] /\ Saying.of = {Item} /\ Of(Saying) = {Item}
  <1>1. Len(said) \in Nat /\ script \in Seq(Kinds) /\ Len(script) \in Nat
    BY DEF TypeOK, SaidType, ScriptType
  <1>2. Item \in Nat /\ Item # 0
    BY <1>1 DEF Item
  <1>3. Item \in 1..Len(script)
    BY <1>1, <1>2
  <1>4. script[Item] \in Kinds
    BY <1>1, <1>3
  <1>5. Saying = [kind |-> script[Item], of |-> {Item}]
    BY DEF Saying, Event
  <1>6. Saying \in Message
    BY <1>2, <1>4, <1>5 DEF Message
  <1>7. QED
    BY <1>2, <1>3, <1>4, <1>5, <1>6 DEF Of

\* A call that ended.
LEMMA GoesOnCases ==
    ASSUME WayInv, Item <= Len(script), driver.at \in {"on", "waiting"}, NEW end,
           end \in {send(inner, Saying, stop.cancel), send_terminal(inner, Saying, stop.cancel),
                    reserve_terminal(inner, Saying, stop.cancel)},
           goes_on(end)
    PROVE  DriverCases
  <1>0. TypeOK /\ inner \in Bridge /\ stop.cancel \in BOOLEAN /\ inner.reader /\ Sided(inner, stop.cancel)
        /\ DriverType
    BY DEF WayInv, IInv, TypeOK, InnerType, StopType, BridgeInv
  <1>1. Saying \in Message /\ Saying.kind = script[Item]
    BY <1>0, ItemIsThere
  <1>2. Outcome(inner, Saying, stop.cancel, end) /\ end.how \in Hows
    BY <1>0, <1>1, Sends, SendType
  <1>3. inner' = end.q
    BY DEF goes_on
  <1>4. inner'.reader /\ Sided(inner', stop.cancel) /\ inner'.emitted = inner.emitted
    BY <1>0, <1>2, <1>3 DEF Outcome
  <1>5. end.how # "closed"
    BY <1>0, <1>2 DEF Outcome
  <1>6. CASE end.how \in {"wait", "cancelled"}
    <2>1. said' = said /\ Queued(inner') = Queued(inner) /\ inner'.overflow = inner.overflow
      BY <1>2, <1>3, <1>6 DEF Outcome, goes_on
    <2>2. driver'.at \in {"on", "waiting"}
      BY <1>0, <1>6 DEF goes_on, DriverType
    <2>3. QED
      BY <1>4, <2>1, <2>2 DEF DriverCases
  <1>7. CASE end.how \in {"ok", "overflow"}
    <2>1. driver' = [driver EXCEPT !.at = "on"] /\ said' = Append(said, [how |-> end.how, final |-> Terminal])
      BY <1>7 DEF goes_on
    <2>2. driver'.at = "on"
      BY <1>0, <2>1 DEF DriverType
    <2>3. Terminal \in BOOLEAN
      BY <1>0 DEF Terminal, DriverType
    <2>4. \/ /\ end.how = "ok" /\ Queued(inner') = Append(Queued(inner), Saying)
             /\ inner'.overflow = inner.overflow
          \/ /\ end.how = "overflow" /\ Queued(inner') = Queued(inner)
             /\ inner'.overflow = inner.overflow \cup {metadata_of(Saying)}
             /\ script[Item] = "output" => stop.cancel
      BY <1>2, <1>3, <1>7 DEF Outcome
    <2>5. \E how \in Hows, final \in BOOLEAN :
               /\ said' = Append(said, [how |-> how, final |-> final])
               /\ \/ /\ how = "ok" /\ Queued(inner') = Append(Queued(inner), Saying)
                     /\ inner'.overflow = inner.overflow
                  \/ /\ how = "overflow" /\ Queued(inner') = Queued(inner)
                     /\ inner'.overflow = inner.overflow \cup {metadata_of(Saying)}
                     /\ script[Item] = "output" => stop.cancel
      BY <1>2, <2>1, <2>3, <2>4
    <2>6. QED
      BY <1>1, <1>4, <2>2, <2>5 DEF DriverCases
  <1>8. QED
    BY <1>2, <1>5, <1>6, <1>7 DEF Hows

\* Every step of the driver is one of the cases.
LEMMA DriverSteps ==
    ASSUME WayInv, DriverStep
    PROVE  DriverCases
  <1>0. TypeOK /\ DriverType /\ InnerType /\ inner \in Bridge /\ inner.reader /\ Sided(inner, stop.cancel)
        /\ (driver.at = "waiting" => Item <= Len(script))
    BY DEF WayInv, IInv, TypeOK, InnerType, BridgeInv, InHand
  <1>1. CASE Emit
    <2> DEFINE end == IF Terminal THEN send_terminal(inner, Saying, stop.cancel)
                      ELSE send(inner, Saying, stop.cancel)
    <2>1. /\ driver.at = "on" /\ Item <= Len(script) /\ goes_on(end)
      BY <1>1 DEF Emit
    <2>2. end \in {send(inner, Saying, stop.cancel), send_terminal(inner, Saying, stop.cancel),
                   reserve_terminal(inner, Saying, stop.cancel)}
      OBVIOUS
    <2> HIDE DEF end
    <2>3. QED
      BY <2>1, <2>2, GoesOnCases
  <1>2. CASE EmitWaits
    <2> DEFINE end == IF Terminal THEN reserve_terminal(inner, Saying, stop.cancel)
                      ELSE send(inner, Saying, stop.cancel)
    <2>1. /\ driver.at = "waiting" /\ goes_on(end)
      BY <1>2 DEF EmitWaits
    <2>2. end \in {send(inner, Saying, stop.cancel), send_terminal(inner, Saying, stop.cancel),
                   reserve_terminal(inner, Saying, stop.cancel)}
      OBVIOUS
    <2> HIDE DEF end
    <2>3. QED
      BY <1>0, <2>1, <2>2, GoesOnCases
  <1>3. CASE ReportGivesUp
    <2>1. Item <= Len(script) /\ Saying \in Message /\ Saying.kind = "error" /\ driver.at = "waiting"
      BY <1>0, <1>3, ItemIsThere DEF ReportGivesUp
    <2>2. inner' = [[inner EXCEPT !.overflow = @ \cup {"error"}] EXCEPT !.open = FALSE]
      BY <1>3 DEF ReportGivesUp, sender_dropped, mark_diagnostics_incomplete
    <2>3. /\ inner'.main = inner.main /\ inner'.side = inner.side /\ inner'.side_active = inner.side_active
          /\ inner'.overflow = inner.overflow \cup {"error"} /\ inner'.emitted = inner.emitted
          /\ inner'.reader = inner.reader
      BY <1>0, <2>2 DEF Bridge
    <2>4. driver'.at = "done" /\ driver'.result = "unconfirmed"
      BY <1>0, <1>3 DEF ReportGivesUp, DriverType
    <2>5. metadata_of(Saying) = "error" /\ script[Item] # "output"
      BY <1>3, <2>1 DEF metadata_of, ReportGivesUp
    <2>6. Sided(inner', stop.cancel) /\ Queued(inner') = Queued(inner)
      BY <1>0, <2>3 DEF Sided, Queued
    <2>7. \E how \in Hows, final \in BOOLEAN :
               /\ said' = Append(said, [how |-> how, final |-> final])
               /\ \/ /\ how = "ok" /\ Queued(inner') = Append(Queued(inner), Saying)
                     /\ inner'.overflow = inner.overflow
                  \/ /\ how = "overflow" /\ Queued(inner') = Queued(inner)
                     /\ inner'.overflow = inner.overflow \cup {metadata_of(Saying)}
                     /\ script[Item] = "output" => stop.cancel
      <3>1. said' = Append(said, [how |-> "overflow", final |-> FALSE]) /\ "overflow" \in Hows
        BY <1>3 DEF ReportGivesUp, Hows
      <3>2. QED
        BY <2>3, <2>5, <2>6, <3>1
    <2>8. QED
      BY <1>0, <2>1, <2>3, <2>4, <2>6, <2>7 DEF DriverCases
  <1>4. CASE DriverReturns
    <2>1. inner' = [inner EXCEPT !.open = FALSE] /\ said' = said /\ driver.at = "on"
      BY <1>4 DEF DriverReturns, sender_dropped
    <2>2. /\ inner'.main = inner.main /\ inner'.side = inner.side /\ inner'.side_active = inner.side_active
          /\ inner'.overflow = inner.overflow /\ inner'.emitted = inner.emitted
          /\ inner'.reader = inner.reader
      BY <1>0, <2>1 DEF Bridge
    <2>3. Sided(inner', stop.cancel) /\ Queued(inner') = Queued(inner)
      BY <1>0, <2>2 DEF Sided, Queued
    <2>4. driver'.at = "done" /\ (driver'.result = "ok" => \A i \in DOMAIN said : said[i].how = "ok")
      BY <1>0, <1>4 DEF DriverReturns, DriverType
    <2>5. QED
      BY <1>0, <2>1, <2>2, <2>3, <2>4 DEF DriverCases
  <1>5. QED
    BY <1>1, <1>2, <1>3, <1>4 DEF DriverStep

\* A driver that can take a step has not ended, and no success was told of it.
LEMMA DriverSignals ==
    ASSUME WayInv, DriverStep
    PROVE  BridgeInv' /\ CancelInv' /\ KeepInv' /\ ResultInv' /\ LedgerInv'
  <1>0. /\ TypeOK /\ EndpointInv /\ BridgeInv /\ CancelInv /\ KeepInv /\ ResultInv /\ LedgerInv
    BY DEF WayInv, IInv
  <1>1. UNCHANGED <<script, trouble, stop, ep, host, chan, rt, proxy, outer, dispatch, log, callers>>
    BY DriverTypes DEF WayInv
  <1>2. DriverCases
    BY DriverSteps
  <1>3. BridgeInv'
    BY <1>0, <1>1, <1>2 DEF BridgeInv, DriverCases
  <1>4. CancelInv'
    BY <1>0, <1>1 DEF CancelInv, Active, callers
  <1>5. KeepInv'
    BY <1>0, <1>1, <1>2 DEF KeepInv, DriverCases, EndpointInv
  <1>6. ResultInv'
    BY <1>0, <1>1, <1>2 DEF ResultInv, DriverCases, Closes
  <1>7. LedgerInv'
    BY <1>0, <1>1 DEF LedgerInv
  <1>8. QED
    BY <1>3, <1>4, <1>5, <1>6, <1>7

\* What is said last is behind everything.
LEMMA LastGrows ==
    ASSUME NEW sc, NEW w, NEW v, NEW n \in Nat, Sorted(sc, w), \A i \in 1..6 : w[i] \subseteq 1..n,
           \A i \in 1..5 : v[i] = w[i], v[6] \subseteq w[6] \cup {n + 1}
    PROVE  Sorted(sc, v)
  <1> SUFFICES ASSUME NEW j \in 1..6, NEW k \in 1..6, j < k
               PROVE  Before(sc, v[j], v[k])
    BY DEF Sorted
  <1>1. Before(sc, w[j], w[k]) /\ w[j] \subseteq 1..n
    BY DEF Sorted
  <1>2. v[j] = w[j] /\ v[k] \subseteq w[k] \cup {n + 1}
    <2>1. j \in 1..5 /\ (k \in 1..5 \/ k = 6)
      OBVIOUS
    <2>2. QED
      BY <2>1
  <1>3. \A i \in 1..n : i < n + 1 /\ i # n + 1
    OBVIOUS
  <1>4. QED
    BY <1>1, <1>2, <1>3 DEF Before, Less

\* The places of the way, one by one.
LEMMA WayPlaces ==
    /\ Way[1] = Items(log) /\ Way[2] = Items(Queued(outer)) /\ Way[3] = Items(Hand)
    /\ Way[4] = Items(chan.queue) /\ Way[5] = Items(Kept) /\ Way[6] = Items(Queued(inner))
  BY DEF Way

\* The places hold only what was said.
LEMMA WaySaid ==
    ASSUME OrderInv
    PROVE  \A i \in 1..6 : Way[i] \subseteq 1..Len(said)
  <1>1. /\ Items(log) \subseteq 1..Len(said) /\ Items(Queued(outer)) \subseteq 1..Len(said)
        /\ Items(Hand) \subseteq 1..Len(said) /\ Items(chan.queue) \subseteq 1..Len(said)
        /\ Items(Kept) \subseteq 1..Len(said) /\ Items(Queued(inner)) \subseteq 1..Len(said)
    BY SoundItems DEF OrderInv
  <1>2. QED
    BY <1>1, WayPlaces

\* What the driver says is behind everything that is on its way, or is known to be missing.
LEMMA DriverEvents ==
    ASSUME WayInv, DriverStep, TypeOK', CancelInv'
    PROVE  OrderInv' /\ GapInv' /\ AccountInv'
  <1>0. /\ TypeOK /\ OrderInv /\ GapInv /\ AccountInv /\ Onward /\ DriverCases
        /\ inner \in Bridge /\ inner' \in Bridge
    BY DriverOnward, DriverSteps DEF WayInv, IInv, TypeOK, InnerType
  <1>1. UNCHANGED <<script, trouble, stop, ep, host, chan, rt, proxy, outer, dispatch, log, callers>>
    BY DriverTypes DEF WayInv
  <1>2. /\ Hand' = Hand /\ Kept' = Kept /\ Recorded' = Recorded /\ Arrived' = Arrived /\ Sent' = Sent
        /\ Known' = Known /\ (Flowing' => Flowing) /\ (Passing' => Passing) /\ (~Broken' => ~Broken)
    <2>1. Hand' = Hand /\ Kept' = Kept
      BY <1>1 DEF Hand, Kept, Held
    <2>2. QED
      BY <1>0, <1>1, <2>1, SignalsOnward DEF Recorded, Arrived, Sent, Known
  <1>3. CASE said' = said /\ Queued(inner') = Queued(inner) /\ inner'.overflow = inner.overflow
    <2>1. Quiet
      BY <1>0, <1>1, <1>2, <1>3 DEF Quiet, DriverCases
    <2>2. QED
      BY <1>0, <1>1, <2>1, QuietKeeps
  <1>4. ASSUME NEW how \in Hows, NEW final \in BOOLEAN, Item <= Len(script), Saying \in Message,
               said' = Append(said, [how |-> how, final |-> final]),
               \/ /\ how = "ok" /\ Queued(inner') = Append(Queued(inner), Saying)
                  /\ inner'.overflow = inner.overflow
               \/ /\ how = "overflow" /\ Queued(inner') = Queued(inner)
                  /\ inner'.overflow = inner.overflow \cup {metadata_of(Saying)}
                  /\ script[Item] = "output" => stop.cancel
        PROVE  OrderInv' /\ GapInv' /\ AccountInv'
    <2> DEFINE n == Len(said)
    <2>1. /\ n \in Nat /\ Len(said') = n + 1 /\ DOMAIN said = 1..n /\ DOMAIN said' = 1..n + 1
          /\ said'[n + 1].how = how /\ Len(said) <= Len(said') /\ n + 1 \in Nat
      BY <1>0, <1>4 DEF TypeOK, SaidType
    <2>2. /\ Saying.kind = script[n + 1] /\ Saying.of = {n + 1} /\ Of(Saying) = {n + 1}
      BY <1>0, <1>4, ItemIsThere DEF Item
    <2>3. Genuine(script, n + 1, Saying)
      BY <2>1, <2>2 DEF Genuine
    <2>4. Queued(inner) \in Seq(Message)
      BY <1>0, QueuedType
    <2>5. Sound(script, n + 1, Queued(inner)) /\ Items(Queued(inner)) \subseteq 1..n
      BY <1>0, <2>1, SoundGrows, SoundItems DEF OrderInv
    <2>6. Before(script, Items(Queued(inner)), {n + 1})
      <3>1. \A i \in 1..n : i < n + 1 /\ i # n + 1
        BY <2>1
      <3>2. QED
        BY <2>5, <3>1 DEF Before, Less
    <2>7. /\ Items(Queued(inner)) \subseteq Items(Queued(inner'))
          /\ Items(Queued(inner')) \subseteq Items(Queued(inner)) \cup {n + 1}
          /\ how = "ok" => n + 1 \in Items(Queued(inner'))
          /\ Sound(script, n + 1, Queued(inner'))
      <3>1. CASE how = "ok"
        <4>1. Queued(inner') = Append(Queued(inner), Saying)
          BY <1>4, <3>1
        <4>2. /\ Items(Append(Queued(inner), Saying)) = Items(Queued(inner)) \cup {n + 1}
              /\ Sound(script, n + 1, Append(Queued(inner), Saying))
          <5> DEFINE q == Queued(inner)
                     e == Saying
                     k == n + 1
          <5>1. q \in Seq(Message) /\ e \in Message /\ Of(e) = {k} /\ Genuine(script, k, e)
                /\ Sound(script, k, q) /\ Before(script, Items(q), {k})
            BY <1>4, <2>2, <2>3, <2>4, <2>5, <2>6
          <5> HIDE DEF q, e, k
          <5>2. /\ Items(Append(q, e)) = Items(q) \cup Of(e)
                /\ Sound(script, k, Append(q, e)) <=> /\ Sound(script, k, q) /\ Genuine(script, k, e)
                                                     /\ Before(script, Items(q), Of(e))
            BY <5>1, AppendSays
          <5>3. Items(Append(q, e)) = Items(q) \cup {k} /\ Sound(script, k, Append(q, e))
            BY <5>1, <5>2
          <5>4. QED
            BY <5>3 DEF q, e, k
        <4>3. QED
          BY <4>1, <4>2
      <3>2. CASE how # "ok"
        <4>1. Queued(inner') = Queued(inner)
          BY <1>4, <3>2
        <4>2. QED
          BY <2>5, <3>2, <4>1
      <3>3. QED
        BY <3>1, <3>2
    <2>8. OrderInv'
      <3>1. Sorted(script', Way')
        <4> DEFINE w == Way
                   v == Way'
        <4>1. /\ w[1] = Items(log) /\ w[2] = Items(Queued(outer)) /\ w[3] = Items(Hand)
              /\ w[4] = Items(chan.queue) /\ w[5] = Items(Kept) /\ w[6] = Items(Queued(inner))
          BY WayPlaces
        <4>2. /\ v[1] = Items(log') /\ v[2] = Items(Queued(outer')) /\ v[3] = Items(Hand')
              /\ v[4] = Items(chan'.queue) /\ v[5] = Items(Kept') /\ v[6] = Items(Queued(inner'))
          BY DEF Way
        <4>3. (\A i \in 1..6 : w[i] \subseteq 1..n) /\ Sorted(script, w)
          BY <1>0, WaySaid DEF OrderInv
        <4> HIDE DEF w, v, n
        <4>4. (\A i \in 1..5 : v[i] = w[i]) /\ v[6] \subseteq w[6] \cup {n + 1}
          BY <1>1, <1>2, <2>7, <4>1, <4>2
        <4>5. Sorted(script, v)
          BY <2>1, <4>3, <4>4, LastGrows
        <4>6. QED
          BY <1>1, <4>5 DEF v
      <3>2. Sound(script, n + 1, log) /\ Sound(script, n + 1, Queued(outer)) /\ Sound(script, n + 1, Hand)
            /\ Sound(script, n + 1, chan.queue) /\ Sound(script, n + 1, Kept)
        BY <1>0, <2>1, SoundGrows DEF OrderInv
      <3>3. Len(said') <= Len(script')
        BY <1>1, <1>4, <2>1 DEF Item
      <3>4. QED
        BY <1>1, <1>2, <2>1, <2>7, <3>1, <3>2, <3>3 DEF OrderInv
    <2>9. Afoot \subseteq Afoot' /\ (how = "ok" => n + 1 \in Afoot')
      BY <1>2, <2>7 DEF Afoot
    <2>10. \A i \in DOMAIN said' : i = n + 1 \/ (i \in DOMAIN said /\ said'[i] = said[i])
      <3>1. \A i \in 1..n + 1 : i = n + 1 \/ i \in 1..n
        BY <2>1
      <3>2. QED
        BY <1>0, <2>1, <3>1 DEF Onward
    <2>11. GapInv'
      <3>1. Flowing' /\ Passing' => \A i \in DOMAIN said' : said'[i].how = "ok" => i \in Afoot'
        BY <1>0, <1>2, <2>1, <2>9, <2>10 DEF GapInv
      <3>2. ~stop'.cancel =>
              \A i \in DOMAIN said' : script[i] = "output" => i \in DOMAIN said \/ said'[i].how = "ok"
        BY <1>1, <1>4, <2>1, <2>10 DEF Item
      <3>3. ~(rt'.at = "finished" /\ rt'.result = "ok" /\ ~proxy'.cancel /\ ~host'.loss
             /\ dispatch' # "failed")
        BY <1>0, <1>1 DEF GapInv, DriverCases
      <3>4. QED
        BY <1>0, <1>2, <2>8, <3>1, <3>2, <3>3, GapStep
    <2>12. AccountInv'
      <3>1. inner.overflow \subseteq inner'.overflow
        BY <1>4
      <3>2. \A i \in DOMAIN said' : script[i] # "output" =>
              i \in DOMAIN said \/ i \in Afoot' \/ script[i] \in inner'.overflow
        <4> SUFFICES ASSUME script[n + 1] # "output" PROVE n + 1 \in Afoot' \/ script[n + 1] \in inner'.overflow
          BY <2>10
        <4>1. CASE how = "ok"
          BY <2>9, <4>1
        <4>2. CASE how # "ok"
          <5>1. metadata_of(Saying) \in inner'.overflow
            BY <1>4, <4>2
          <5>2. script[n + 1] \in Kinds
            BY <1>0, <1>4, ItemIsThere DEF Item
          <5>3. metadata_of(Saying) = script[n + 1]
            BY <2>2, <5>2 DEF metadata_of, Kinds
          <5>4. QED
            BY <5>1, <5>3
        <4>3. QED
          BY <4>1, <4>2
      <3>3. QED
        BY <1>0, <1>2, <2>8, <2>9, <3>1, <3>2, AccountStep DEF DriverCases
    <2>13. QED
      BY <2>8, <2>11, <2>12
  <1>5. QED
    BY <1>0, <1>3, <1>4 DEF DriverCases

-----------------------------------------------------------------------------
(* The endpoint's steps. *)

\* One event at a time is received.
LEMMA OneReceived ==
    ASSUME NEW q \in Bridge, received(q, 1) # <<>>
    PROVE  LET e == received(q, 1)[1] IN received(q, 1) = <<e>> /\ e \in Message
  <1> DEFINE s == Queued(q)
  <1>1. s \in Seq(Message) /\ overflow_marker(q) \in Seq(Message)
    BY QueuedType
  <1>2. CASE s = <<>>
    <2>1. received(q, 1) \in {<<Incomplete("usage")>>, <<Incomplete("error")>>}
      BY <1>2 DEF received, overflow_marker
    <2>2. Incomplete("usage") \in Message /\ Incomplete("error") \in Message
      BY DEF Incomplete, Event, Message, Kinds
    <2>3. QED
      BY <2>1, <2>2
  <1>3. CASE s # <<>>
    <2>1. Len(s) \in Nat /\ 1 <= Len(s)
      BY <1>1, <1>3
    <2>2. Min({1, Len(s)}) = 1
      <3>1. Min({1, Len(s)}) \in {1, Len(s)} /\ Min({1, Len(s)}) <= 1
        BY <2>1, MinOfTwo
      <3>2. QED
        BY <2>1, <3>1
    <2>3. received(q, 1) = SubSeq(s, 1, 1)
      BY <1>3, <2>2 DEF received
    <2> HIDE DEF s
    <2>4. SubSeq(s, 1, 1) = <<s[1]>> /\ s[1] \in Message
      <3>1. SubSeq(s, 1, 1) \in Seq(Message) /\ Len(SubSeq(s, 1, 1)) = 1 /\ SubSeq(s, 1, 1)[1] = s[1]
        BY <1>1, <2>1
      <3> DEFINE t == SubSeq(s, 1, 1)
      <3>2. t \in Seq(Message) /\ Len(t) = 1 /\ t[1] = s[1]
        BY <3>1
      <3> HIDE DEF t
      <3>3. t = <<t[1]>> /\ t[1] \in Message
        BY <3>2
      <3>4. QED
        BY <3>2, <3>3 DEF t
    <2>5. QED
      BY <2>3, <2>4
  <1>4. QED
    BY <1>2, <1>3

\* The event a step of the endpoint is about: it leaves the capsule's bridge, or was held.
Source(e) ==
    /\ e \in Message /\ Genuine(script, Len(said), e)
    /\ Items(Held) \cup Items(Queued(inner)) = Of(e) \cup Items(Queued(inner'))
    /\ Items(Queued(inner')) \subseteq Items(Queued(inner))
    /\ Sound(script, Len(said), Queued(inner'))
    /\ Before(script, Of(e), Items(Queued(inner')))
    /\ Marks(Held) \subseteq Marks(<<e>>)
    /\ inner'.emitted \subseteq inner.emitted \cup Marks(<<e>>) /\ inner'.overflow = inner.overflow
    /\ inner'.reader = inner.reader /\ Sided(inner', stop.cancel)
    /\ \/ ep.at = "serving" /\ Held = <<>>
       \/ ep.at = "forwarding" /\ Held = <<e>> /\ inner' = inner

\* What becomes of it.
ForwardCases(e) ==
    \/ /\ ep.gone /\ ep'.at = "serving" /\ ep'.gone /\ ep'.cancelled = ep.cancelled
       /\ ep'.metadata = ep.metadata /\ UNCHANGED <<chan, stop>>
    \/ /\ ~ep.gone /\ (ep.cancelled \/ host.command)
       /\ ep'.at = "serving" /\ ~ep'.gone /\ ep'.cancelled
       /\ ep'.metadata = retain(ep.metadata, e) /\ chan' = chan /\ stop'.cancel
    \/ /\ Passing /\ ~chan.reader /\ ep'.at = "serving" /\ ep'.gone /\ ~ep'.cancelled
       /\ ep'.metadata = ep.metadata /\ chan' = chan /\ stop'.cancel
    \/ /\ Passing /\ chan' = [chan EXCEPT !.queue = Append(chan.queue, e)]
       /\ ep'.at = "serving" /\ ~ep'.gone /\ ~ep'.cancelled
       /\ ep'.metadata = ep.metadata /\ stop' = stop
    \/ /\ Passing /\ ep.at = "serving" /\ ep'.at = "forwarding" /\ ep'.event = e
       /\ ~ep'.gone /\ ~ep'.cancelled
       /\ ep'.metadata = ep.metadata /\ UNCHANGED <<chan, stop>>

\* Forwarding an event is one of the cases.
LEMMA Forwards ==
    ASSUME WayInv, NEW e, forward(e)
    PROVE  ForwardCases(e)
  <1>0. EpType /\ StopType
    BY DEF WayInv, IInv, TypeOK
  <1>1. CASE ep.gone
    BY <1>0, <1>1 DEF forward, ForwardCases, EpType
  <1>2. CASE ~ep.gone /\ (ep.cancelled \/ host.command)
    <2>1. /\ ep' = [ep EXCEPT !.at = "serving", !.cancelled = TRUE, !.event = NoEvent,
                              !.metadata = retain(ep.metadata, e)]
          /\ stop' = [stop EXCEPT !.cancel = TRUE] /\ chan' = chan
      BY <1>2 DEF forward
    <2>2. ep'.at = "serving" /\ ep'.gone = ep.gone /\ ep'.cancelled /\ ep'.metadata = retain(ep.metadata, e)
      BY <1>0, <2>1 DEF EpType
    <2>3. stop'.cancel
      BY <1>0, <2>1 DEF StopType
    <2>4. QED
      BY <1>2, <2>1, <2>2, <2>3 DEF ForwardCases
  <1>3. CASE Passing
    <2>1. CASE /\ ~chan.reader
               /\ ep' = [ep EXCEPT !.at = "serving", !.gone = TRUE, !.event = NoEvent]
               /\ stop' = [stop EXCEPT !.cancel = TRUE]
               /\ UNCHANGED chan
      <3>1. ep'.at = "serving" /\ ep'.gone /\ ep'.cancelled = ep.cancelled /\ ep'.metadata = ep.metadata
        BY <1>0, <2>1 DEF EpType
      <3>2. stop'.cancel
        BY <1>0, <2>1 DEF StopType
      <3>3. QED
        BY <1>3, <2>1, <3>1, <3>2 DEF ForwardCases, Passing
    <2>2. CASE /\ chan' = [chan EXCEPT !.queue = Append(chan.queue, e)]
               /\ ep' = [ep EXCEPT !.at = "serving", !.event = NoEvent]
               /\ UNCHANGED stop
      <3>1. /\ ep'.at = "serving" /\ ep'.gone = ep.gone /\ ep'.cancelled = ep.cancelled
            /\ ep'.metadata = ep.metadata
        BY <1>0, <2>2 DEF EpType
      <3>2. QED
        BY <1>3, <2>2, <3>1 DEF ForwardCases, Passing
    <2>3. CASE /\ ep.at = "serving"
               /\ ep' = [ep EXCEPT !.at = "forwarding", !.event = e]
               /\ UNCHANGED <<chan, stop>>
      <3>1. /\ ep'.at = "forwarding" /\ ep'.gone = ep.gone /\ ep'.cancelled = ep.cancelled
            /\ ep'.metadata = ep.metadata /\ ep'.event = e
        BY <1>0, <2>3 DEF EpType
      <3>2. QED
        BY <1>3, <2>3, <3>1 DEF ForwardCases, Passing
    <2>4. QED
      BY <1>3, <2>1, <2>2, <2>3 DEF forward, Passing
  <1>4. QED
    BY <1>1, <1>2, <1>3 DEF Passing

\* A step of the endpoint, by what it does with events.
EndpointCases ==
    \/ /\ ep.at = "reserved" /\ driver'.at = "on" /\ ep' = [ep EXCEPT !.at = "serving"]
       /\ UNCHANGED <<chan, inner, stop>>
    \/ /\ ep.at = "serving" /\ UNCHANGED <<chan, inner, driver>> /\ stop'.cancel
       /\ \/ host.command /\ ep' = [ep EXCEPT !.cancelled = TRUE]
          \/ ~chan.reader /\ ep' = [ep EXCEPT !.cancelled = TRUE, !.gone = TRUE]
    \/ /\ UNCHANGED driver /\ ep.at \in {"serving", "forwarding"}
       /\ \E e \in Message : Source(e) /\ ForwardCases(e)
    \/ /\ ep.at \in {"reserved", "serving"} /\ ep' = [ep EXCEPT !.at = "done"]
       /\ UNCHANGED <<driver, inner, stop>>
       /\ Queued(inner) = <<>> /\ inner.overflow \subseteq inner.emitted
       /\ \/ ep.gone /\ chan' = [chan EXCEPT !.terminal = "dropped"]
          \/ \E result \in {"ok", "detail", "cancelled", "unconfirmed", "run_closed", "failed"} :
               /\ chan' = [chan EXCEPT !.terminal = "sent", !.rest = into_events(ep.metadata, result)]
               /\ result = "ok" => driver.at = "done" /\ driver.result = "ok"

\* Every step of the endpoint is one of these.
LEMMA EndpointSteps ==
    ASSUME WayInv, EndpointStep
    PROVE  EndpointCases
  <1>0. /\ TypeOK /\ EpType /\ StopType /\ DriverType /\ inner \in Bridge /\ OrderInv /\ KeepInv /\ BridgeInv
        /\ EndpointInv /\ InHand
    BY DEF WayInv, IInv, TypeOK, InnerType
  <1>1. CASE StartReserved
    <2>1. CASE /\ driver' = [driver EXCEPT !.at = "on"]
               /\ ep' = [ep EXCEPT !.at = "serving"]
               /\ UNCHANGED chan
      <3>1. driver'.at = "on"
        BY <1>0, <2>1 DEF DriverType
      <3>2. QED
        BY <1>1, <2>1, <3>1 DEF StartReserved, EndpointCases
    <2>2. ASSUME NEW result \in {"cancelled", "run_closed", "failed"},
                 chan' = [chan EXCEPT !.terminal = "sent", !.rest = into_events(NoMetadata, result)],
                 ep' = [ep EXCEPT !.at = "done"], UNCHANGED driver
          PROVE  EndpointCases
      <3>1. ep.at = "reserved" /\ UNCHANGED <<inner, stop>> /\ ep.metadata = NoMetadata
        BY <1>0, <1>1 DEF StartReserved, KeepInv
      <3>2. Queued(inner) = <<>> /\ inner.overflow \subseteq inner.emitted
        BY <1>0, <3>1 DEF EndpointInv, KeepInv
      <3>3. \E r \in {"ok", "detail", "cancelled", "unconfirmed", "run_closed", "failed"} :
               /\ chan' = [chan EXCEPT !.terminal = "sent", !.rest = into_events(ep.metadata, r)]
               /\ r = "ok" => driver.at = "done" /\ driver.result = "ok"
        BY <2>2, <3>1
      <3>4. QED
        BY <2>2, <3>1, <3>2, <3>3 DEF EndpointCases
    <2>3. QED
      BY <1>1, <2>1, <2>2 DEF StartReserved
  <1>2. CASE LocalOutput
    <2> DEFINE got == received(inner, 1)
               e == got[1]
    <2>1. /\ ep.at = "serving" /\ got # <<>> /\ inner' = recv_many(inner, 1) /\ forward(e)
          /\ driver' = driver
      BY <1>2 DEF LocalOutput
    <2>2. got = <<e>> /\ e \in Message
      BY <1>0, <2>1, OneReceived
    <2>3. Sound(script, Len(said), Queued(inner)) /\ 1 \in Nat \ {0}
      BY <1>0 DEF OrderInv
    <2>4. /\ Items(Queued(inner)) = Items(got) \cup Items(Queued(inner'))
          /\ Sound(script, Len(said), got) /\ Sound(script, Len(said), Queued(inner'))
          /\ Before(script, Items(got), Items(Queued(inner')))
          /\ inner'.overflow = inner.overflow /\ inner'.side_active = inner.side_active
          /\ inner'.reader = inner.reader
          /\ inner'.emitted = inner.emitted \cup Marks(got)
          /\ inner'.side # <<>> => inner.side # <<>>
      BY <1>0, <2>1, <2>3, Receives
    <2>5. Held = <<>> /\ Items(<<>>) = {} /\ Marks(<<>>) = {}
      BY <2>1, NothingSaid DEF Held
    <2> HIDE DEF got, e
    <2>6. Items(got) = Of(e) /\ Genuine(script, Len(said), e)
      <3>1. Items(<<e>>) = Of(e) /\ (Valid(script, Len(said), <<e>>) <=> Genuine(script, Len(said), e))
        BY OneEvent
      <3>2. QED
        BY <2>2, <2>4, <3>1 DEF Sound
    <2>7. Sided(inner', stop.cancel)
      BY <1>0, <2>4 DEF Sided, BridgeInv
    <2>8. Source(e)
      BY <2>1, <2>2, <2>4, <2>5, <2>6, <2>7 DEF Source
    <2>9. ForwardCases(e)
      BY <2>1, Forwards
    <2>10. QED
      BY <2>1, <2>2, <2>8, <2>9 DEF EndpointCases
  <1>3. CASE LocalForward
    <2> DEFINE e == ep.event
    <2>1. ep.at = "forwarding" /\ forward(e) /\ UNCHANGED <<driver, inner>> /\ e \in Message
      BY <1>0, <1>3 DEF LocalForward, InHand
    <2>2. Held = <<e>> /\ chan.terminal = "pending"
      BY <1>0, <2>1 DEF Held, EndpointInv
    <2> HIDE DEF e
    <2>3. Retained(ep.metadata) \in Seq(Message) /\ Held \in Seq(Message)
      <3>1. ep.metadata \in Metadata
        BY <1>0 DEF EpType
      <3>2. <<e>> \in Seq(Message)
        BY <2>1
      <3>3. Retained(ep.metadata) \in Seq(Message)
        BY <3>1, RetainedSays
      <3>4. QED
        BY <2>2, <3>2, <3>3
    <2>4. Sound(script, Len(said), Kept) /\ Kept = Held \o Retained(ep.metadata)
      BY <1>0, <2>2 DEF OrderInv, Kept
    <2>5. Sound(script, Len(said), Held) /\ Items(Held) \subseteq Items(Kept)
      BY <2>3, <2>4, RowSays
    <2>6. Items(Held) = Of(e) /\ Genuine(script, Len(said), e)
      <3>1. Items(<<e>>) = Of(e) /\ (Valid(script, Len(said), <<e>>) <=> Genuine(script, Len(said), e))
        BY OneEvent
      <3>2. QED
        BY <2>2, <2>5, <3>1 DEF Sound
    <2>7. Before(script, Of(e), Items(Queued(inner)))
      <3>1. Before(script, Way[5], Way[6])
        BY <1>0 DEF OrderInv, Sorted
      <3>2. QED
        BY <2>5, <2>6, <3>1, WayPlaces DEF Before
    <2>8. Source(e)
      BY <1>0, <2>1, <2>2, <2>6, <2>7 DEF Source, OrderInv, BridgeInv
    <2>9. QED
      BY <2>1, <2>8, Forwards DEF EndpointCases
  <1>4. CASE LocalCancel
    <2>1. stop'.cancel
      BY <1>0, <1>4 DEF LocalCancel, StopType
    <2>2. QED
      BY <1>4, <2>1 DEF LocalCancel, EndpointCases
  <1>5. CASE LocalDone
    <2>1. /\ ep.at = "serving" /\ Ready(inner) /\ received(inner, 1) = <<>> /\ chan' = ends_stream
          /\ ep' = [ep EXCEPT !.at = "done"] /\ UNCHANGED <<driver, inner, stop>>
      BY <1>5 DEF LocalDone, capsule
    <2>2. driver.at = "done" /\ driver.result \in {"ok", "detail", "cancelled", "unconfirmed"}
      <3>1. ~inner.open
        BY <1>0, <2>1, DrainedType
      <3>2. QED
        BY <1>0, <3>1 DEF EndpointInv, DriverType
    <2>3. Queued(inner) = <<>> /\ inner.overflow \subseteq inner.emitted
      <3>1. Sound(script, Len(said), Queued(inner)) /\ 1 \in Nat \ {0}
        BY <1>0 DEF OrderInv
      <3>2. QED
        BY <1>0, <2>1, <3>1, Receives
    <2>4. \/ ep.gone /\ chan' = [chan EXCEPT !.terminal = "dropped"]
          \/ \E result \in {"ok", "detail", "cancelled", "unconfirmed", "run_closed", "failed"} :
               /\ chan' = [chan EXCEPT !.terminal = "sent", !.rest = into_events(ep.metadata, result)]
               /\ result = "ok" => driver.at = "done" /\ driver.result = "ok"
      BY <2>1, <2>2 DEF ends_stream
    <2>5. QED
      BY <2>1, <2>3, <2>4 DEF EndpointCases
  <1>6. QED
    BY <1>1, <1>2, <1>3, <1>4, <1>5 DEF EndpointStep

\* As long as the stream is not ended, the endpoint keeps what it holds and what it retains.
LEMMA KeptSays ==
    ASSUME TypeOK, InHand, chan.terminal = "pending"
    PROVE  /\ Items(Kept) = Items(Held) \cup Items(Retained(ep.metadata))
           /\ Marks(Kept) = Marks(Held) \cup Marks(Retained(ep.metadata))
           /\ Sound(script, Len(said), Kept) <=>
                /\ Sound(script, Len(said), Held) /\ Sound(script, Len(said), Retained(ep.metadata))
                /\ Before(script, Items(Held), Items(Retained(ep.metadata)))
  <1>1. ep.metadata \in Metadata
    BY DEF TypeOK, EpType
  <1>2. Retained(ep.metadata) \in Seq(Message)
    BY <1>1, RetainedSays
  <1>3. Held \in Seq(Message)
    <2>1. CASE ep.at = "forwarding"
      <3>1. ep.event \in Message
        BY <2>1 DEF InHand
      <3>2. <<ep.event>> \in Seq(Message)
        BY <3>1
      <3>3. QED
        BY <2>1, <3>2 DEF Held
    <2>2. CASE ep.at # "forwarding"
      <3>1. <<>> \in Seq(Message)
        OBVIOUS
      <3>2. QED
        BY <2>2, <3>1 DEF Held
    <2>3. QED
      BY <2>1, <2>2
  <1>4. Kept = Held \o Retained(ep.metadata)
    BY DEF Kept
  <1> DEFINE a == Held
             b == Retained(ep.metadata)
             k == Len(said)
  <1>5. a \in Seq(Message) /\ b \in Seq(Message) /\ Kept = a \o b
    BY <1>2, <1>3, <1>4
  <1> HIDE DEF a, b, k
  <1>6. /\ Items(a \o b) = Items(a) \cup Items(b)
        /\ Marks(a \o b) = Marks(a) \cup Marks(b)
        /\ Sound(script, k, a \o b) <=> /\ Sound(script, k, a) /\ Sound(script, k, b)
                                       /\ Before(script, Items(a), Items(b))
    BY ONLY <1>5, RowSays, SMTT(30)
  <1>7. QED
    BY <1>5, <1>6 DEF a, b, k

\* Nothing is retained at first.
LEMMA NoneRetained ==
    ASSUME NEW sc, NEW k
    PROVE  /\ Items(Retained(NoMetadata)) = {} /\ Marks(Retained(NoMetadata)) = {}
           /\ Sound(sc, k, Retained(NoMetadata)) /\ NoMetadata \in Metadata
  <1>1. NoMetadata \in Metadata
    <2>1. <<>> \in Seq(Message)
      OBVIOUS
    <2>2. QED
      BY <2>1 DEF NoMetadata, Metadata
  <1>2. /\ NoMetadata.errors = <<>> /\ NoMetadata.usage = {} /\ Flags(NoMetadata) = {}
    BY DEF NoMetadata, Flags
  <1>3. Items(<<>>) = {} /\ Marks(<<>>) = {} /\ Sound(sc, k, <<>>)
    BY NothingSaid
  <1>4. UsageSaid(sc, k, {}) /\ Before(sc, {}, {})
    BY DEF UsageSaid, Before
  <1>5. /\ Items(Retained(NoMetadata)) = Items(NoMetadata.errors) \cup (NoMetadata.usage \ {0})
        /\ Marks(Retained(NoMetadata)) = Marks(NoMetadata.errors) \cup Flags(NoMetadata)
        /\ Sound(sc, k, Retained(NoMetadata)) <=>
                 /\ Sound(sc, k, NoMetadata.errors) /\ UsageSaid(sc, k, NoMetadata.usage)
                 /\ Before(sc, Items(NoMetadata.errors), NoMetadata.usage \ {0})
    BY <1>1, RetainedSays
  <1>6. NoMetadata.usage \ {0} = {}
    BY <1>2
  <1>7. QED
    BY <1>1, <1>2, <1>3, <1>4, <1>5, <1>6

\* What the endpoint is asked to keep back it retains, or remembers that some is missing.
LEMMA KeptBack ==
    ASSUME WayInv, NEW e \in Message, Source(e), chan.terminal = "pending"
    PROVE  LET m == ep.metadata
               r == retain(ep.metadata, e) IN
           /\ Sound(script, Len(said), Retained(m)) /\ Before(script, Items(Retained(m)), Of(e))
           /\ Items(Retained(m)) \subseteq Items(Kept)
           /\ r.usage_overflowed => r.incomplete
           /\ Mute(r.errors)
           /\ Items(Retained(m)) \subseteq Items(Retained(r))
           /\ Items(Retained(r)) \subseteq Items(Retained(m)) \cup Of(e)
           /\ Marks(Retained(m)) \subseteq Marks(Retained(r))
           /\ e.kind # "output" => Of(e) \subseteq Items(Retained(r)) \/ e.kind \in Marks(Retained(r))
           /\ e.of = {} => e.kind \in Marks(Retained(r))
           /\ Sound(script, Len(said), Retained(r))
  <1> DEFINE m == ep.metadata
  <1>0. /\ TypeOK /\ InHand /\ OrderInv /\ KeepInv /\ m \in Metadata
    BY DEF WayInv, IInv, TypeOK, EpType
  <1>1. /\ Items(Kept) = Items(Held) \cup Items(Retained(m))
        /\ Sound(script, Len(said), Retained(m))
    BY <1>0, KeptSays DEF OrderInv
  <1>2. Before(script, Items(Retained(m)), Of(e))
    <2>1. CASE ep.at = "serving" /\ Held = <<>>
      <3>1. Of(e) \subseteq Items(Queued(inner))
        BY <2>1, NothingSaid DEF Source
      <3>2. Before(script, Way[5], Way[6])
        BY <1>0 DEF OrderInv, Sorted
      <3>3. QED
        BY <1>1, <3>1, <3>2, WayPlaces DEF Before
    <2>2. CASE ep.at = "forwarding"
      <3>1. m = NoMetadata
        BY <1>0, <2>2 DEF KeepInv
      <3>2. Items(Retained(m)) = {}
        BY <3>1, NoneRetained
      <3>3. QED
        BY <3>2 DEF Before
    <2>3. QED
      BY <2>1, <2>2 DEF Source
  <1>3. Genuine(script, Len(said), e)
    BY DEF Source
  <1>4. (m.usage_overflowed => m.incomplete) /\ Mute(m.errors)
    BY <1>0 DEF KeepInv
  <1> HIDE DEF m
  <1>5. LET r == retain(m, e) IN
           /\ r.usage_overflowed => r.incomplete
           /\ Mute(r.errors)
           /\ Items(Retained(m)) \subseteq Items(Retained(r))
           /\ Items(Retained(r)) \subseteq Items(Retained(m)) \cup Of(e)
           /\ Marks(Retained(m)) \subseteq Marks(Retained(r))
           /\ e.kind # "output" => Of(e) \subseteq Items(Retained(r)) \/ e.kind \in Marks(Retained(r))
           /\ e.of = {} => e.kind \in Marks(Retained(r))
           /\ Sound(script, Len(said), Retained(r))
    BY <1>0, <1>1, <1>2, <1>3, <1>4, Retains
  <1>6. QED
    BY <1>1, <1>2, <1>5 DEF m

\* A task that is served has not been told anything but a loss.
LEMMA ServedIsLost ==
    ASSUME WayInv, ep.at \in {"reserved", "serving", "forwarding"}
    PROVE  /\ chan.terminal = "pending" /\ chan.rest = <<>>
           /\ rt.at = "finished" => rt.result = "lost"
           /\ ~chan.reader <=> rt.at = "finished"
  BY DEF WayInv, IInv, EndpointInv, ResultInv, CancelInv

\* The endpoint stops passing output on for a reason, and ends its stream with what it kept.
LEMMA EndpointSignals ==
    ASSUME WayInv, EndpointStep
    PROVE  BridgeInv' /\ CancelInv' /\ KeepInv' /\ ResultInv' /\ LedgerInv'
  <1>0. /\ TypeOK /\ EndpointInv /\ BridgeInv /\ CancelInv /\ KeepInv /\ ResultInv /\ LedgerInv
        /\ EpType /\ ChanType /\ OrderInv /\ Onward
    BY EndpointOnward DEF WayInv, IInv, TypeOK
  <1>1. UNCHANGED <<script, trouble, said, host, rt, proxy, outer, dispatch, log, callers>>
    BY EndpointTypes DEF WayInv
  <1>2. EndpointCases /\ ep.at \in {"reserved", "serving", "forwarding"}
    BY EndpointSteps DEF EndpointCases
  <1>3. /\ chan.terminal = "pending" /\ chan.rest = <<>>
        /\ rt.at = "finished" => rt.result = "lost"
        /\ ~chan.reader <=> rt.at = "finished"
    BY <1>2, ServedIsLost
  <1>4. LedgerInv'
    BY <1>0, <1>1 DEF LedgerInv
  <1>5. Mute(<<>>) /\ \A ok : Closes(<<>>, ok)
    BY DEF Mute, Closes
  <1>6. CASE /\ ep.at = "reserved" /\ driver'.at = "on" /\ ep' = [ep EXCEPT !.at = "serving"]
             /\ UNCHANGED <<chan, inner, stop>>
    <2>1. /\ ep'.at = "serving" /\ ep'.gone = ep.gone /\ ep'.cancelled = ep.cancelled
          /\ ep'.metadata = ep.metadata
      BY <1>0, <1>6 DEF EpType
    <2>2. BridgeInv'
      BY <1>0, <1>1, <1>6 DEF BridgeInv
    <2>3. CancelInv'
      BY <1>0, <1>1, <1>6, <2>1 DEF CancelInv, Active, callers
    <2>4. KeepInv'
      BY <1>0, <1>1, <1>6, <2>1 DEF KeepInv
    <2>5. ResultInv'
      BY <1>0, <1>1, <1>3, <1>5, <1>6, <2>1 DEF ResultInv
    <2>6. QED
      BY <1>4, <2>2, <2>3, <2>4, <2>5
  <1>7. CASE /\ ep.at = "serving" /\ UNCHANGED <<chan, inner, driver>> /\ stop'.cancel
             /\ \/ host.command /\ ep' = [ep EXCEPT !.cancelled = TRUE]
                \/ ~chan.reader /\ ep' = [ep EXCEPT !.cancelled = TRUE, !.gone = TRUE]
    <2>1. /\ ep'.at = "serving" /\ ep'.cancelled /\ ep'.metadata = ep.metadata
          /\ \/ host.command /\ ep'.gone = ep.gone
             \/ ~chan.reader /\ ep'.gone
      BY <1>0, <1>7 DEF EpType
    <2>2. BridgeInv'
      BY <1>0, <1>1, <1>7 DEF BridgeInv, Sided
    <2>3. CancelInv'
      BY <1>0, <1>1, <1>3, <1>7, <2>1 DEF CancelInv, Active, callers
    <2>4. KeepInv'
      BY <1>0, <1>1, <1>7, <2>1 DEF KeepInv
    <2>5. ResultInv'
      BY <1>0, <1>1, <1>3, <1>7, <2>1 DEF ResultInv
    <2>6. QED
      BY <1>4, <2>2, <2>3, <2>4, <2>5
  <1>8. ASSUME NEW e \in Message, Source(e), ForwardCases(e), driver' = driver,
               ep.at \in {"serving", "forwarding"}
        PROVE  BridgeInv' /\ CancelInv' /\ KeepInv' /\ ResultInv'
    <2>1. /\ chan'.reader = chan.reader /\ chan'.terminal = chan.terminal /\ chan'.rest = chan.rest
          /\ ep'.at \in {"serving", "forwarding"}
      BY <1>0, <1>8 DEF ForwardCases, ChanType
    <2>2. BridgeInv'
      BY <1>0, <1>1, <1>8 DEF BridgeInv, Source, Sided, Onward
    <2>3. CancelInv'
      <3>1. /\ stop'.cancel => ep'.gone \/ ep'.cancelled \/ host.command
            /\ ep'.cancelled => ep'.gone \/ host.command
        BY <1>0, <1>8 DEF ForwardCases, CancelInv, Passing
      <3>2. ep'.gone => rt.at = "finished" /\ rt.result = "lost"
        BY <1>0, <1>3, <1>8 DEF ForwardCases, CancelInv
      <3>3. chan'.reader <=> ~(rt.at = "finished" /\ ep'.at # "none")
        BY <1>3, <2>1
      <3>4. Active /\ Active'
        BY <1>8, <2>1 DEF Active
      <3>5. QED
        BY <1>0, <1>1, <3>1, <3>2, <3>3, <3>4 DEF CancelInv, callers
    <2>4. KeepInv'
      <3>1. /\ ~ep'.cancelled => ep'.metadata = NoMetadata
            /\ ep'.at = "forwarding" => ~ep'.cancelled /\ ~ep'.gone
        BY <1>0, <1>8 DEF ForwardCases, KeepInv, Passing
      <3>2. (ep'.metadata.usage_overflowed => ep'.metadata.incomplete) /\ Mute(ep'.metadata.errors)
        <4>1. CASE ep'.metadata = ep.metadata
          BY <1>0, <4>1 DEF KeepInv
        <4>2. CASE ep'.metadata = retain(ep.metadata, e)
          BY <1>3, <1>8, <4>2, KeptBack
        <4>3. QED
          BY <1>8, <4>1, <4>2 DEF ForwardCases
      <3>3. driver'.at # "off"
        BY <1>0, <1>8 DEF EndpointInv
      <3>4. QED
        BY <1>0, <2>1, <3>1, <3>2, <3>3 DEF KeepInv
    <2>5. ResultInv'
      BY <1>0, <1>1, <1>3, <1>8, <2>1 DEF ResultInv
    <2>6. QED
      BY <2>2, <2>3, <2>4, <2>5
  <1>9. ASSUME ep' = [ep EXCEPT !.at = "done"], UNCHANGED <<driver, inner, stop>>,
               Queued(inner) = <<>>, inner.overflow \subseteq inner.emitted,
               \/ ep.gone /\ chan' = [chan EXCEPT !.terminal = "dropped"]
               \/ \E result \in {"ok", "detail", "cancelled", "unconfirmed", "run_closed", "failed"} :
                    /\ chan' = [chan EXCEPT !.terminal = "sent", !.rest = into_events(ep.metadata, result)]
                    /\ result = "ok" => driver.at = "done" /\ driver.result = "ok"
        PROVE  BridgeInv' /\ CancelInv' /\ KeepInv' /\ ResultInv'
    <2>1. /\ ep'.at = "done" /\ ep'.gone = ep.gone /\ ep'.cancelled = ep.cancelled
          /\ ep'.metadata = ep.metadata
      BY <1>0, <1>9 DEF EpType
    <2>2. chan'.reader = chan.reader /\ chan'.queue = chan.queue
      BY <1>0, <1>9 DEF ChanType
    <2>3. /\ Mute(chan'.rest) /\ Closes(chan'.rest, driver.at = "done" /\ driver.result = "ok")
      <3>1. CASE ep.gone /\ chan' = [chan EXCEPT !.terminal = "dropped"]
        <4>1. chan'.rest = <<>>
          BY <1>0, <1>3, <3>1 DEF ChanType
        <4>2. QED
          BY <1>5, <4>1
      <3>2. ASSUME NEW result \in {"ok", "detail", "cancelled", "unconfirmed", "run_closed", "failed"},
                   chan' = [chan EXCEPT !.terminal = "sent", !.rest = into_events(ep.metadata, result)],
                   result = "ok" => driver.at = "done" /\ driver.result = "ok"
            PROVE  Mute(chan'.rest) /\ Closes(chan'.rest, driver.at = "done" /\ driver.result = "ok")
        <4>1. chan'.rest = into_events(ep.metadata, result)
          BY <1>0, <3>2 DEF ChanType
        <4>2. ep.metadata \in Metadata /\ Mute(ep.metadata.errors)
          BY <1>0 DEF EpType, KeepInv
        <4>3. Sound(script, Len(said), Retained(ep.metadata))
          BY <1>0, <1>3, KeptSays DEF WayInv, IInv, OrderInv
        <4>4. Mute(into_events(ep.metadata, result)) /\ Closes(into_events(ep.metadata, result), result = "ok")
          BY <4>2, <4>3, Tells
        <4>5. QED
          BY <3>2, <4>1, <4>4 DEF Closes
      <3>3. QED
        BY <1>9, <3>1, <3>2
    <2>4. BridgeInv'
      BY <1>0, <1>1, <1>9 DEF BridgeInv
    <2>5. CancelInv'
      BY <1>0, <1>1, <1>2, <1>9, <2>1, <2>2 DEF CancelInv, Active, callers
    <2>6. KeepInv'
      BY <1>0, <1>1, <1>9, <2>1, <2>2, <2>3 DEF KeepInv
    <2>7. ResultInv'
      BY <1>0, <1>1, <1>3, <1>9, <2>3 DEF ResultInv
    <2>8. QED
      BY <2>4, <2>5, <2>6, <2>7
  <1>10. QED
    BY <1>2, <1>4, <1>6, <1>7, <1>8, <1>9 DEF EndpointCases

\* An event that is forwarded moves on, is kept back, or is lost with its reader.
LEMMA ForwardPlaces ==
    ASSUME WayInv, IInv', NEW e \in Message, Source(e), ForwardCases(e),
           UNCHANGED <<script, said, host, rt, outer, dispatch, log>>,
           ep.at \in {"serving", "forwarding"}
    PROVE  /\ OrderInv'
           /\ Passing' => Afoot' = Afoot
           /\ Passing' \/ Sent' = Sent
           /\ ~Broken' =>
                 /\ Marks(chan.queue) \cup Marks(Kept) \cup Marks(<<e>>) \subseteq
                       Marks(chan'.queue) \cup Marks(Kept')
                 /\ \A i \in Afoot : script[i] # "output" => i \in Afoot' \/ script[i] \in Marks(Kept')
  <1> DEFINE n == Len(said)
             R == Retained(ep.metadata)
             S == Retained(ep'.metadata)
             w == Way
             v == Way'
  <1>0. /\ TypeOK /\ InHand /\ OrderInv /\ KeepInv /\ EpType /\ ChanType /\ chan.queue \in Seq(Message)
        /\ TypeOK' /\ InHand' /\ CancelInv
    BY DEF WayInv, IInv, TypeOK, ChanType
  <1>1. /\ chan.terminal = "pending" /\ chan.rest = <<>> /\ (rt.at = "finished" => rt.result = "lost")
        /\ ~chan.reader <=> rt.at = "finished"
    BY ServedIsLost
  <1>2. chan'.terminal = "pending"
    BY <1>0, <1>1 DEF ForwardCases, ChanType
  <1>3. /\ Items(Kept) = Items(Held) \cup Items(R) /\ Marks(Kept) = Marks(Held) \cup Marks(R)
        /\ Sound(script, n, Held) /\ Sound(script, n, R)
    BY <1>0, <1>1, KeptSays DEF OrderInv
  <1>4. /\ Items(Kept') = Items(Held') \cup Items(S) /\ Marks(Kept') = Marks(Held') \cup Marks(S)
        /\ Sound(script, n, Kept') <=> /\ Sound(script, n, Held') /\ Sound(script, n, S)
                                       /\ Before(script, Items(Held'), Items(S))
    <2>1. (TypeOK /\ InHand /\ chan.terminal = "pending" =>
             /\ Items(Kept) = Items(Held) \cup Items(Retained(ep.metadata))
             /\ Marks(Kept) = Marks(Held) \cup Marks(Retained(ep.metadata))
             /\ Sound(script, Len(said), Kept) <=>
                  /\ Sound(script, Len(said), Held) /\ Sound(script, Len(said), Retained(ep.metadata))
                  /\ Before(script, Items(Held), Items(Retained(ep.metadata))))'
      BY KeptSays, PTL
    <2>2. script' = script /\ Len(said') = Len(said)
      OBVIOUS
    <2>3. QED
      BY <1>0, <1>2, <2>1, <2>2
  <1>5. /\ Items(Held) \cup Items(Queued(inner)) = Of(e) \cup Items(Queued(inner'))
        /\ Items(Queued(inner')) \subseteq Items(Queued(inner))
        /\ Sound(script, n, Queued(inner')) /\ Before(script, Of(e), Items(Queued(inner')))
        /\ Marks(Held) \subseteq Marks(<<e>>) /\ Genuine(script, n, e)
    BY DEF Source
  <1>6. /\ w[1] = Items(log) /\ w[2] = Items(Queued(outer)) /\ w[3] = Items(Hand)
        /\ w[4] = Items(chan.queue) /\ w[5] = Items(Kept) /\ w[6] = Items(Queued(inner))
    BY WayPlaces
  <1>7. Hand' = Hand
    BY DEF Hand
  <1>8. /\ v[1] = w[1] /\ v[2] = w[2] /\ v[3] = w[3]
        /\ v[4] = Items(chan'.queue) /\ v[5] = Items(Kept') /\ v[6] = Items(Queued(inner'))
    BY <1>6, <1>7 DEF Way
  <1>9. Sorted(script, w)
    BY <1>0 DEF OrderInv
  <1>10. ASSUME Sorted(script, v), Sound(script, n, chan'.queue), Sound(script, n, Kept')
         PROVE  OrderInv'
    BY <1>0, <1>5, <1>7, <1>10 DEF OrderInv
  <1>11. /\ Afoot = w[1] \cup w[2] \cup w[3] \cup w[4] \cup w[5] \cup w[6]
         /\ Afoot' = v[1] \cup v[2] \cup v[3] \cup v[4] \cup v[5] \cup v[6]
         /\ Sent = w[1] \cup w[2] \cup w[3] \cup w[4]
         /\ Sent' = v[1] \cup v[2] \cup v[3] \cup v[4]
    <2>1. /\ Afoot = w[1] \cup w[2] \cup w[3] \cup w[4] \cup w[5] \cup w[6]
          /\ Sent = w[1] \cup w[2] \cup w[3] \cup w[4]
      BY <1>6 DEF Afoot, Sent, Arrived
    <2>2. /\ v[1] = Items(log') /\ v[2] = Items(Queued(outer')) /\ v[3] = Items(Hand')
      BY DEF Way
    <2>3. /\ Afoot' = v[1] \cup v[2] \cup v[3] \cup v[4] \cup v[5] \cup v[6]
          /\ Sent' = v[1] \cup v[2] \cup v[3] \cup v[4]
      BY <1>8, <2>2 DEF Afoot, Sent, Arrived
    <2>4. QED
      BY <2>1, <2>3
  <1>12. /\ Items(<<>>) = {} /\ Marks(<<>>) = {} /\ Sound(script, n, <<>>)
         /\ Items(<<e>>) = Of(e) /\ Sound(script, n, <<e>>)
         /\ Marks(<<e>>) = (IF e.of = {} THEN {e.kind} ELSE {})
    BY <1>5, NothingSaid, OneEvent DEF Sound
  <1>13. \A T : Before(script, {}, T) /\ Before(script, T, {})
    BY DEF Before
  <1>14. ep'.at = "serving" => Held' = <<>>
    BY DEF Held
  <1>15. /\ Sound(script, n, chan.queue) /\ (chan' = chan => v[4] = w[4])
    BY <1>0, <1>6, <1>8 DEF OrderInv
  <1>16. ~ep.cancelled => Items(R) = {} /\ Marks(R) = {}
    BY <1>0, NoneRetained DEF KeepInv
  <1> HIDE DEF w, v, n, R, S
  <1>17. CASE ep'.gone /\ ep'.at = "serving" /\ ep'.metadata = ep.metadata /\ chan' = chan
    <2>1. S = R /\ Held' = <<>>
      BY <1>14, <1>17 DEF S, R
    <2>2. Sound(script, n, Kept') /\ v[5] \subseteq w[5]
      BY <1>3, <1>4, <1>6, <1>8, <1>12, <1>13, <2>1
    <2>3. \A i \in 1..6 : v[i] \subseteq w[i]
      BY <1>5, <1>6, <1>8, <1>15, <1>17, <2>2
    <2>4. Sorted(script, v)
      BY <1>9, <2>3, Thins
    <2>5. ~Passing' /\ Sent' = Sent
      BY <1>8, <1>11, <1>15, <1>17 DEF Passing
    <2>6. Broken'
      BY <1>0, <1>1, <1>17 DEF ForwardCases, Broken, CancelInv, Passing
    <2>7. OrderInv'
      BY <1>10, <1>15, <1>17, <2>2, <2>4
    <2>8. QED
      BY <2>5, <2>6, <2>7
  <1>18. CASE /\ ~ep.gone /\ (ep.cancelled \/ host.command)
              /\ ep'.at = "serving" /\ ~ep'.gone /\ ep'.cancelled
              /\ ep'.metadata = retain(ep.metadata, e) /\ chan' = chan
    <2>1. Held' = <<>> /\ S = Retained(retain(ep.metadata, e))
      BY <1>14, <1>18 DEF S
    <2>2. /\ Before(script, Items(R), Of(e))
          /\ Items(R) \subseteq Items(S) /\ Items(S) \subseteq Items(R) \cup Of(e)
          /\ Marks(R) \subseteq Marks(S)
          /\ e.kind # "output" => Of(e) \subseteq Items(S) \/ e.kind \in Marks(S)
          /\ e.of = {} => e.kind \in Marks(S)
          /\ Sound(script, n, S)
      BY <1>1, <2>1, KeptBack DEF R, n
    <2>3. Items(Kept') = Items(S) /\ Marks(Kept') = Marks(S) /\ Sound(script, n, Kept')
      BY <1>4, <1>12, <1>13, <2>1, <2>2
    <2>4. Sorted(script, v)
      <3>1. v[5] \cup v[6] \subseteq w[5] \cup w[6]
        BY <1>3, <1>5, <1>6, <1>8, <2>2, <2>3
      <3>2. Before(script, v[5], v[6])
        <4>1. Before(script, w[5], w[6])
          BY <1>9 DEF Sorted
        <4>2. Before(script, Items(R), Items(Queued(inner')))
          BY <1>3, <1>5, <1>6, <4>1 DEF Before
        <4>3. QED
          BY <1>5, <1>8, <2>2, <2>3, <4>2 DEF Before
      <3>3. \A i \in 1..6 : i # 5 /\ i # 6 => v[i] \subseteq w[i]
        BY <1>8, <1>15, <1>18
      <3>4. \A i \in 1..6 : 5 < i /\ i < 6 => w[i] = {}
        OBVIOUS
      <3>5. 5 \in 1..6 /\ 6 \in 1..6 /\ 5 < 6
        OBVIOUS
      <3>6. QED
        BY <1>9, <3>1, <3>2, <3>3, <3>4, <3>5, Moves
    <2>5. OrderInv'
      BY <1>10, <1>15, <1>18, <2>3, <2>4
    <2>6. ~Passing' /\ Sent' = Sent
      BY <1>8, <1>11, <1>15, <1>18 DEF Passing
    <2>7. Marks(chan.queue) \cup Marks(Kept) \cup Marks(<<e>>) \subseteq Marks(chan'.queue) \cup Marks(Kept')
      BY <1>3, <1>5, <1>12, <1>18, <2>2, <2>3
    <2>8. ASSUME NEW i \in Afoot, script[i] # "output"
          PROVE  i \in Afoot' \/ script[i] \in Marks(Kept')
      <3>1. i \in Afoot' \/ i \in Of(e)
        BY <1>3, <1>5, <1>6, <1>8, <1>11, <1>15, <1>18, <2>2, <2>3, <2>8
      <3>2. CASE i \in Of(e)
        <4>1. script[i] = e.kind
          BY <1>5, <3>2 DEF Genuine
        <4>2. Of(e) \subseteq Items(S) \/ e.kind \in Marks(S)
          BY <2>2, <2>8, <4>1
        <4>3. QED
          BY <1>8, <1>11, <2>3, <3>2, <4>1, <4>2
      <3>3. QED
        BY <3>1, <3>2
    <2>9. QED
      BY <2>5, <2>6, <2>7, <2>8
  <1>19. CASE /\ Passing /\ chan' = [chan EXCEPT !.queue = Append(chan.queue, e)]
              /\ ep'.at = "serving" /\ ~ep'.gone /\ ~ep'.cancelled
              /\ ep'.metadata = ep.metadata
    <2>1. S = R /\ Held' = <<>> /\ Items(R) = {} /\ Marks(R) = {} /\ chan'.queue = Append(chan.queue, e)
      BY <1>0, <1>14, <1>16, <1>19 DEF S, R, Passing, ChanType
    <2>2. Sound(script, n, Kept') /\ v[5] = {} /\ Marks(Kept') = {}
      BY <1>3, <1>4, <1>8, <1>12, <1>13, <2>1
    <2>3. w[5] = Items(Held) /\ Marks(Kept) = Marks(Held) /\ Of(e) \subseteq w[5] \cup w[6]
      BY <1>3, <1>5, <1>6, <2>1
    <2>4. Before(script, w[4], Of(e))
      <3>1. Before(script, w[4], w[5]) /\ Before(script, w[4], w[6])
        BY <1>9 DEF Sorted
      <3>2. QED
        BY <2>3, <3>1 DEF Before
    <2>5. /\ v[4] = w[4] \cup Of(e) /\ Sound(script, n, chan'.queue)
          /\ Marks(chan'.queue) = Marks(chan.queue) \cup Marks(<<e>>)
      <3> DEFINE q == chan.queue
      <3>1. q \in Seq(Message) /\ Sound(script, n, q) /\ Before(script, Items(q), Of(e)) /\ w[4] = Items(q)
        BY <1>0, <1>6, <1>15, <2>4
      <3> HIDE DEF q
      <3>2. /\ Items(Append(q, e)) = Items(q) \cup Of(e)
            /\ Marks(Append(q, e)) = Marks(q) \cup (IF e.of = {} THEN {e.kind} ELSE {})
            /\ Sound(script, n, Append(q, e)) <=> /\ Sound(script, n, q) /\ Genuine(script, n, e)
                                                  /\ Before(script, Items(q), Of(e))
        BY <3>1, AppendSays
      <3>3. /\ Items(Append(q, e)) = w[4] \cup Of(e) /\ Sound(script, n, Append(q, e))
            /\ Marks(Append(q, e)) = Marks(q) \cup Marks(<<e>>)
        BY <1>5, <1>12, <3>1, <3>2
      <3>4. QED
        BY <1>8, <2>1, <3>3 DEF q
    <2>6. v[4] \cup v[5] \cup v[6] = w[4] \cup w[5] \cup w[6]
      BY <1>5, <1>6, <1>8, <2>2, <2>3, <2>5
    <2>7. Sorted(script, v)
      <3>0. 4 \in 1..6 /\ 5 \in 1..6 /\ 6 \in 1..6 /\ 4 < 5 /\ 4 < 6
        OBVIOUS
      <3>1. CASE ep.at = "serving" /\ Held = <<>>
        <4>1. w[5] = {} /\ v[4] \cup v[6] \subseteq w[4] \cup w[6]
          BY <1>12, <2>2, <2>3, <2>6, <3>1
        <4>2. Before(script, v[4], v[6])
          <5>1. Before(script, w[4], w[6])
            BY <1>9 DEF Sorted
          <5>2. QED
            BY <1>5, <1>6, <1>8, <2>5, <5>1 DEF Before
        <4>3. \A i \in 1..6 : i # 4 /\ i # 6 => v[i] \subseteq w[i]
          BY <1>8, <2>2
        <4>4. \A i \in 1..6 : 4 < i /\ i < 6 => w[i] = {}
          <5>1. \A i \in 1..6 : 4 < i /\ i < 6 => i = 5
            OBVIOUS
          <5>2. QED
            BY <4>1, <5>1
        <4>5. QED
          BY <1>9, <3>0, <4>1, <4>2, <4>3, <4>4, Moves
      <3>2. CASE ep.at = "forwarding" /\ Held = <<e>> /\ inner' = inner
        <4>1. v[4] \cup v[5] \subseteq w[4] \cup w[5]
          BY <1>12, <2>2, <2>3, <2>5, <3>2
        <4>2. Before(script, v[4], v[5])
          BY <1>13, <2>2
        <4>3. \A i \in 1..6 : i # 4 /\ i # 5 => v[i] \subseteq w[i]
          BY <1>6, <1>8, <3>2
        <4>4. \A i \in 1..6 : 4 < i /\ i < 5 => w[i] = {}
          OBVIOUS
        <4>5. QED
          BY <1>9, <3>0, <4>1, <4>2, <4>3, <4>4, Moves
      <3>3. QED
        BY <3>1, <3>2 DEF Source
    <2>8. OrderInv'
      BY <1>10, <2>2, <2>5, <2>7
    <2>9. Passing' /\ Afoot' = Afoot
      BY <1>8, <1>11, <1>19, <2>6 DEF Passing
    <2>10. Marks(chan.queue) \cup Marks(Kept) \cup Marks(<<e>>) \subseteq Marks(chan'.queue) \cup Marks(Kept')
      BY <1>5, <2>3, <2>5
    <2>11. QED
      BY <2>8, <2>9, <2>10
  <1>20. CASE /\ Passing /\ ep.at = "serving" /\ ep'.at = "forwarding" /\ ep'.event = e
              /\ ~ep'.gone /\ ~ep'.cancelled
              /\ ep'.metadata = ep.metadata /\ chan' = chan
    <2>1. S = R /\ Held' = <<e>> /\ Items(R) = {} /\ Marks(R) = {} /\ Held = <<>>
      BY <1>16, <1>20 DEF S, R, Passing, Held
    <2>2. Sound(script, n, Kept') /\ v[5] = Of(e) /\ Marks(Kept') = Marks(<<e>>)
      BY <1>3, <1>4, <1>8, <1>12, <1>13, <2>1
    <2>3. w[5] = {} /\ Marks(Kept) = {} /\ w[6] = Of(e) \cup v[6]
      BY <1>3, <1>5, <1>6, <1>8, <1>12, <2>1
    <2>4. Sorted(script, v)
      <3>1. v[5] \cup v[6] \subseteq w[5] \cup w[6]
        BY <2>2, <2>3
      <3>2. Before(script, v[5], v[6])
        BY <1>5, <1>8, <2>2
      <3>3. \A i \in 1..6 : i # 5 /\ i # 6 => v[i] \subseteq w[i]
        BY <1>8, <1>15, <1>20
      <3>4. \A i \in 1..6 : 5 < i /\ i < 6 => w[i] = {}
        OBVIOUS
      <3>5. 5 \in 1..6 /\ 6 \in 1..6 /\ 5 < 6
        OBVIOUS
      <3>6. QED
        BY <1>9, <3>1, <3>2, <3>3, <3>4, <3>5, Moves
    <2>5. OrderInv'
      BY <1>10, <1>15, <1>20, <2>2, <2>4
    <2>6. Passing' /\ Afoot' = Afoot
      BY <1>8, <1>11, <1>15, <1>20, <2>2, <2>3 DEF Passing
    <2>7. Marks(chan.queue) \cup Marks(Kept) \cup Marks(<<e>>) \subseteq Marks(chan'.queue) \cup Marks(Kept')
      BY <1>20, <2>2, <2>3
    <2>8. QED
      BY <2>5, <2>6, <2>7
  <1>21. QED
    BY <1>17, <1>18, <1>19, <1>20 DEF ForwardCases

\* The stream ends with what the endpoint kept, unless its reader is gone.
LEMMA DonePlaces ==
    ASSUME WayInv, ep.at \in {"reserved", "serving"}, ep' = [ep EXCEPT !.at = "done"],
           UNCHANGED <<script, said, host, rt, outer, dispatch, log, driver, inner>>,
           \/ ep.gone /\ chan' = [chan EXCEPT !.terminal = "dropped"]
           \/ \E result \in {"ok", "detail", "cancelled", "unconfirmed", "run_closed", "failed"} :
                chan' = [chan EXCEPT !.terminal = "sent", !.rest = into_events(ep.metadata, result)]
    PROVE  /\ OrderInv' /\ Sent' = Sent /\ chan'.queue = chan.queue
           /\ Broken' \/ (Afoot' = Afoot /\ Marks(Kept) \subseteq Marks(Kept'))
           /\ Passing' => ~ep.gone
           /\ ~ep.gone => Afoot' = Afoot
  <1> DEFINE n == Len(said)
             R == Retained(ep.metadata)
             w == Way
             v == Way'
  <1>0. /\ TypeOK /\ InHand /\ OrderInv /\ KeepInv /\ EpType /\ ChanType /\ CancelInv
    BY DEF WayInv, IInv, TypeOK
  <1>1. chan.terminal = "pending" /\ chan.rest = <<>>
    BY ServedIsLost
  <1>2. Held = <<>> /\ Items(<<>>) = {} /\ Marks(<<>>) = {} /\ Sound(script, n, <<>>)
    BY NothingSaid DEF Held
  <1>3. Items(Kept) = Items(R) /\ Marks(Kept) = Marks(R) /\ Sound(script, n, R)
    BY <1>0, <1>1, <1>2, KeptSays DEF OrderInv
  <1>4. chan'.queue = chan.queue /\ chan'.terminal # "pending" /\ ep'.gone = ep.gone
    BY <1>0 DEF ChanType, EpType
  <1>5. Kept' = chan'.rest /\ Hand' = Hand
    BY <1>4 DEF Kept, Hand
  <1>6. CASE ep.gone /\ chan' = [chan EXCEPT !.terminal = "dropped"]
    <2>1. Kept' = <<>>
      BY <1>0, <1>1, <1>5, <1>6 DEF ChanType
    <2>2. Broken'
      BY <1>0, <1>6 DEF Broken, CancelInv
    <2>3. Sorted(script, v)
      <3>1. \A i \in 1..6 : v[i] \subseteq w[i]
        <4>1. /\ w[1] = Items(log) /\ w[2] = Items(Queued(outer)) /\ w[3] = Items(Hand)
              /\ w[4] = Items(chan.queue) /\ w[5] = Items(Kept) /\ w[6] = Items(Queued(inner))
          BY WayPlaces
        <4>2. /\ v[1] = Items(log') /\ v[2] = Items(Queued(outer')) /\ v[3] = Items(Hand')
              /\ v[4] = Items(chan'.queue) /\ v[5] = Items(Kept') /\ v[6] = Items(Queued(inner'))
          BY DEF Way
        <4> HIDE DEF w, v
        <4>3. QED
          BY <1>2, <1>4, <1>5, <2>1, <4>1, <4>2
      <3>2. Sorted(script, w)
        BY <1>0 DEF OrderInv
      <3> HIDE DEF w, v
      <3>3. QED
        BY <3>1, <3>2, Thins
    <2>4. OrderInv'
      BY <1>0, <1>2, <1>4, <1>5, <2>1, <2>3 DEF OrderInv
    <2>5. Sent' = Sent
      BY <1>4, <1>5 DEF Sent, Arrived
    <2>6. ~Passing'
      BY <1>4, <1>6 DEF Passing
    <2>7. QED
      BY <1>4, <1>6, <2>2, <2>4, <2>5, <2>6
  <1>7. ASSUME NEW result \in {"ok", "detail", "cancelled", "unconfirmed", "run_closed", "failed"},
               chan' = [chan EXCEPT !.terminal = "sent", !.rest = into_events(ep.metadata, result)]
        PROVE  /\ OrderInv' /\ Sent' = Sent /\ chan'.queue = chan.queue
               /\ Broken' \/ (Afoot' = Afoot /\ Marks(Kept) \subseteq Marks(Kept'))
               /\ Passing' => ~ep.gone
               /\ ~ep.gone => Afoot' = Afoot
    <2>1. Kept' = into_events(ep.metadata, result)
      BY <1>0, <1>5, <1>7 DEF ChanType
    <2>2. ep.metadata \in Metadata /\ Mute(ep.metadata.errors)
      BY <1>0 DEF EpType, KeepInv
    <2>3. LET events == into_events(ep.metadata, result) IN
            /\ Items(events) = Items(R) /\ Marks(R) \subseteq Marks(events) /\ Sound(script, n, events)
      BY <1>3, <2>2, Tells
    <2>4. Items(Kept') = Items(Kept) /\ Marks(Kept) \subseteq Marks(Kept') /\ Sound(script, n, Kept')
      BY <1>3, <2>1, <2>3
    <2>5. Way' = Way
      BY <1>4, <1>5, <2>4 DEF Way
    <2>6. OrderInv'
      BY <1>0, <1>4, <1>5, <2>4, <2>5 DEF OrderInv
    <2>7. Sent' = Sent
      BY <1>4, <1>5 DEF Sent, Arrived
    <2>8. Afoot' = Afoot
      BY <2>4, <2>7 DEF Afoot
    <2>9. Passing' => ~ep.gone
      BY <1>4 DEF Passing
    <2>10. QED
      BY <1>4, <2>4, <2>6, <2>7, <2>8, <2>9
  <1>8. QED
    BY <1>6, <1>7

\* A step of the endpoint leaves no gap, and loses nothing unknown.
LEMMA EndpointEvents ==
    ASSUME WayInv, EndpointStep, IInv', CancelInv'
    PROVE  OrderInv' /\ GapInv' /\ AccountInv'
  <1>0. /\ TypeOK /\ TypeOK' /\ EndpointInv /\ OrderInv /\ GapInv /\ CancelInv /\ KeepInv /\ EpType /\ Onward
        /\ EndpointInv'
    BY EndpointOnward DEF WayInv, IInv, TypeOK
  <1>1. UNCHANGED <<script, trouble, said, host, rt, proxy, outer, dispatch, log, callers>>
    BY EndpointTypes DEF WayInv
  <1>2. EndpointCases /\ ep.at \in {"reserved", "serving", "forwarding"} /\ chan.terminal = "pending"
    <2>1. EndpointCases /\ ep.at \in {"reserved", "serving", "forwarding"}
      BY EndpointSteps DEF EndpointCases
    <2>2. QED
      BY <2>1, ServedIsLost
  <1>3. /\ Hand' = Hand /\ Recorded' = Recorded /\ Arrived' = Arrived
        /\ (Flowing' => Flowing) /\ (Passing' => Passing)
    BY <1>0, <1>1, SignalsOnward DEF Hand, Recorded, Arrived
  <1>4. rt'.at = "finished" /\ rt'.result = "ok" /\ ~proxy'.cancel /\ ~host'.loss /\ dispatch' # "failed" =>
              driver'.at = "done" /\ driver'.result = "ok" /\ \A i \in DOMAIN said' : i \in Arrived'
    BY <1>0, <1>1, <1>3 DEF GapInv, Onward
  <1>5. ASSUME /\ ep.at \in {"reserved", "serving"} /\ UNCHANGED <<chan, inner>>
               /\ ep'.at = "serving" /\ ep'.metadata = ep.metadata
        PROVE  OrderInv' /\ GapInv' /\ AccountInv'
    <2>1. Kept' = Kept
      BY <1>5 DEF Kept, Held
    <2>2. Quiet
      BY <1>1, <1>3, <1>5, <2>1 DEF Quiet
    <2>3. QED
      BY <1>0, <1>1, <2>2, QuietKeeps
  <1>6. CASE /\ ep.at = "reserved" /\ driver'.at = "on" /\ ep' = [ep EXCEPT !.at = "serving"]
             /\ UNCHANGED <<chan, inner, stop>>
    BY <1>0, <1>5, <1>6 DEF EpType
  <1>7. CASE /\ ep.at = "serving" /\ UNCHANGED <<chan, inner, driver>> /\ stop'.cancel
             /\ \/ host.command /\ ep' = [ep EXCEPT !.cancelled = TRUE]
                \/ ~chan.reader /\ ep' = [ep EXCEPT !.cancelled = TRUE, !.gone = TRUE]
    BY <1>0, <1>5, <1>7 DEF EpType
  <1>8. ASSUME NEW e \in Message, Source(e), ForwardCases(e), driver' = driver,
               ep.at \in {"serving", "forwarding"}
        PROVE  OrderInv' /\ GapInv' /\ AccountInv'
    <2>1. /\ OrderInv'
          /\ Passing' => Afoot' = Afoot
          /\ Passing' \/ Sent' = Sent
          /\ ~Broken' =>
                 /\ Marks(chan.queue) \cup Marks(Kept) \cup Marks(<<e>>) \subseteq
                       Marks(chan'.queue) \cup Marks(Kept')
                 /\ \A i \in Afoot : script[i] # "output" => i \in Afoot' \/ script[i] \in Marks(Kept')
      BY <1>1, <1>8, ForwardPlaces
    <2>2. GapInv'
      <3>1. Flowing' /\ Passing' => \A i \in DOMAIN said' : said'[i].how = "ok" => i \in Afoot'
        BY <1>0, <1>1, <1>3, <2>1 DEF GapInv
      <3>2. QED
        BY <1>0, <1>1, <1>3, <1>4, <2>1, <3>1, GapStep
    <2>3. AccountInv'
      <3>1. ~Broken' => Known \subseteq Known' /\ Marks(<<e>>) \subseteq Known' /\ Marks(Kept') \subseteq Known'
        BY <1>1, <1>3, <2>1 DEF Known
      <3>2. inner'.emitted \subseteq inner.emitted \cup Marks(<<e>>) /\ inner'.overflow = inner.overflow
        BY <1>8 DEF Source
      <3>3. ~Broken' => \A i \in Afoot : script[i] # "output" => i \in Afoot' \/ script[i] \in Known'
        BY <2>1, <3>1
      <3>4. ~Broken' => inner'.emitted \subseteq inner.emitted \cup Known'
        BY <3>1, <3>2
      <3>5. QED
        BY <1>0, <1>1, <2>1, <3>1, <3>2, <3>3, <3>4, AccountStep
    <2>4. QED
      BY <2>1, <2>2, <2>3
  <1>9. ASSUME ep.at \in {"reserved", "serving"}, ep' = [ep EXCEPT !.at = "done"],
               UNCHANGED <<driver, inner, stop>>,
               \/ ep.gone /\ chan' = [chan EXCEPT !.terminal = "dropped"]
               \/ \E result \in {"ok", "detail", "cancelled", "unconfirmed", "run_closed", "failed"} :
                    chan' = [chan EXCEPT !.terminal = "sent", !.rest = into_events(ep.metadata, result)]
        PROVE  OrderInv' /\ GapInv' /\ AccountInv'
    <2>1. /\ OrderInv' /\ Sent' = Sent /\ chan'.queue = chan.queue
          /\ Broken' \/ (Afoot' = Afoot /\ Marks(Kept) \subseteq Marks(Kept'))
          /\ Passing' => ~ep.gone
          /\ ~ep.gone => Afoot' = Afoot
      BY <1>1, <1>9, DonePlaces
    <2>2. GapInv'
      <3>1. Flowing' /\ Passing' => \A i \in DOMAIN said' : said'[i].how = "ok" => i \in Afoot'
        BY <1>0, <1>1, <1>3, <2>1 DEF GapInv
      <3>2. QED
        BY <1>0, <1>1, <1>3, <1>4, <2>1, <3>1, GapStep
    <2>3. AccountInv'
      <3>1. ~Broken' => Known \subseteq Known' /\ Afoot' = Afoot
        BY <1>1, <1>3, <2>1 DEF Known
      <3>2. QED
        BY <1>0, <1>1, <1>9, <2>1, <3>1, AccountStep
    <2>4. QED
      BY <2>1, <2>2, <2>3
  <1>10. QED
    BY <1>2, <1>6, <1>7, <1>8, <1>9 DEF EndpointCases

-----------------------------------------------------------------------------
(* The remote task's steps. *)

\* What is left of the terminal events is still mute and still closes the stream.
LEMMA TailKeeps ==
    ASSUME NEW S, NEW q \in Seq(S), q # <<>>, NEW ok
    PROVE  /\ Mute(q) => Mute(Tail(q))
           /\ Closes(q, ok) => Closes(Tail(q), ok)
           /\ Closes(q, ok) /\ q[1].kind \notin Kinds => Tail(q) = <<>>
  <1>1. /\ Len(q) \in Nat /\ Len(q) # 0 /\ Tail(q) \in Seq(S) /\ Len(Tail(q)) = Len(q) - 1
        /\ DOMAIN q = 1..Len(q) /\ DOMAIN Tail(q) = 1..Len(q) - 1
    OBVIOUS
  <1>2. \A n \in DOMAIN Tail(q) : /\ Tail(q)[n] = q[n + 1] /\ n + 1 \in DOMAIN q
                                  /\ n < Len(Tail(q)) => n + 1 < Len(q)
    <2>1. \A n \in 1..Len(q) - 1 : Tail(q)[n] = q[n + 1]
      OBVIOUS
    <2>2. \A n \in 1..Len(q) - 1 : n + 1 \in 1..Len(q) /\ (n < Len(q) - 1 => n + 1 < Len(q))
      BY <1>1
    <2>3. QED
      BY <1>1, <2>1, <2>2
  <1>3. Mute(q) => Mute(Tail(q))
    BY <1>2 DEF Mute
  <1>4. Closes(q, ok) => Closes(Tail(q), ok)
    BY <1>2 DEF Closes
  <1>5. ASSUME Closes(q, ok), q[1].kind \notin Kinds PROVE Tail(q) = <<>>
    <2>1. 1 \in DOMAIN q
      BY <1>1
    <2>2. ~(1 < Len(q))
      BY <1>5, <2>1 DEF Closes
    <2>3. Len(Tail(q)) = 0
      BY <1>1, <2>2
    <2> DEFINE t == Tail(q)
    <2>4. t \in Seq(S) /\ Len(t) = 0
      BY <1>1, <2>3
    <2> HIDE DEF t
    <2>5. t = <<>>
      BY <2>4
    <2>6. QED
      BY <2>5 DEF t
  <1>6. QED
    BY <1>3, <1>4, <1>5

\* The next event of the stream, with what is behind it.
LEMMA StreamPlaces ==
    ASSUME WayInv, rt.at = "reading", StreamReady, ~StreamEnds
    PROVE  /\ stream_rest \in [queue: Seq(Message), reader: BOOLEAN,
                               terminal: {"pending", "sent", "dropped"}, rest: Seq(Message \cup Ending)]
           /\ stream_rest.reader = chan.reader /\ stream_rest.terminal = chan.terminal
           /\ \/ /\ chan.queue # <<>> /\ stream_next = chan.queue[1] /\ stream_next \in Message
                 /\ stream_rest.queue = Tail(chan.queue) /\ stream_rest.rest = chan.rest
              \/ /\ chan.queue = <<>> /\ chan.terminal = "sent" /\ chan.rest # <<>>
                 /\ stream_next = chan.rest[1] /\ stream_next \in Message \cup Ending
                 /\ stream_rest.queue = chan.queue /\ stream_rest.rest = Tail(chan.rest)
  <1>0. IInv /\ Reading /\ ChanType
    BY DEF WayInv, IInv, TypeOK, Reading
  <1>1. /\ stream_next \in Message \cup Ending
        /\ stream_next \in Ending => chan.queue = <<>>
        /\ chan.queue # <<>> \/ chan.rest # <<>>
    BY <1>0, StreamNext
  <1>2. /\ stream_rest \in [queue: Seq(Message), reader: BOOLEAN,
                               terminal: {"pending", "sent", "dropped"}, rest: Seq(Message \cup Ending)]
        /\ stream_rest.terminal = chan.terminal
        /\ chan.queue # <<>> => stream_rest.rest = chan.rest
        /\ chan.queue = <<>> => stream_rest.rest = Tail(chan.rest) /\ chan.rest # <<>>
    BY <1>0, StreamRest
  <1>3. stream_rest.reader = chan.reader
    BY <1>0 DEF stream_rest, ChanType
  <1>4. chan.queue \in Seq(Message) /\ chan.rest \in Seq(Message \cup Ending)
        /\ chan.queue \in Seq(Message \cup Ending)
    <2>1. chan.queue \in Seq(Message) /\ chan.rest \in Seq(Message \cup Ending)
      BY <1>0 DEF ChanType
    <2>2. QED
      BY <2>1
  <1>5. CASE chan.queue # <<>>
    <2>1. stream_next = chan.queue[1]
      BY <1>4, <1>5, ConcatHead DEF stream_next
    <2>2. chan.queue[1] \in Message
      BY <1>4, <1>5
    <2>3. stream_rest.queue = Tail(chan.queue)
      BY <1>0, <1>5 DEF stream_rest, ChanType
    <2>4. QED
      BY <1>2, <1>3, <1>5, <2>1, <2>2, <2>3
  <1>6. CASE chan.queue = <<>>
    <2>1. chan.terminal = "sent"
      BY <1>0, <1>6 DEF StreamReady, StreamEnds, ChanType
    <2> DEFINE r == chan.rest
    <2>2. r # <<>> /\ r \in Seq(Message \cup Ending)
      BY <1>2, <1>4, <1>6
    <2> HIDE DEF r
    <2>3. <<>> \o r = r /\ Head(r) = r[1]
      BY <2>2
    <2>4. stream_next = r[1]
      BY <1>6, <2>3 DEF stream_next, r
    <2>5. stream_rest.queue = chan.queue
      BY <1>0, <1>6 DEF stream_rest, ChanType
    <2>6. QED
      BY <1>1, <1>2, <1>3, <1>6, <2>1, <2>2, <2>4, <2>5 DEF r
  <1>7. QED
    BY <1>5, <1>6

\* The remote task's end, and what it leaves of the stream.
LEMMA RemoteSignals ==
    ASSUME WayInv, RemoteStart \/ RemoteStep
    PROVE  BridgeInv' /\ CancelInv' /\ KeepInv' /\ ResultInv' /\ LedgerInv'
  <1>0. /\ TypeOK /\ EndpointInv /\ RemoteInv /\ BridgeInv /\ CancelInv /\ KeepInv /\ ResultInv /\ LedgerInv
        /\ EpType /\ ChanType /\ HostType /\ OuterType /\ OrderInv /\ RtType /\ ProxyType
    BY DEF WayInv, IInv, TypeOK
  <1>1. /\ UNCHANGED <<script, trouble, said, driver, inner, stop, dispatch, log, closer, cutter>> /\ RemoteCases
        /\ (proxy.cancel => proxy'.cancel) /\ (proxy.run_closed => proxy'.run_closed)
    BY RemoteSteps DEF capsule, callers
  <1>2. /\ host'.closed = host.closed /\ host'.loss = host.loss /\ HostType' /\ RtType' /\ EpType'
        /\ ProxyType'
    BY RemoteTypes DEF WayInv
  <1>3. rt.at # "finished" /\ ~ep.gone /\ outer.open
    <2>1. rt.at # "finished"
      BY <1>1 DEF RemoteCases, Reading
    <2>2. QED
      BY <1>0, <2>1 DEF CancelInv, BridgeInv
  <1>4. /\ ep'.gone = ep.gone /\ ep'.cancelled = ep.cancelled /\ ep'.metadata = ep.metadata
        /\ \/ ep' = ep
           \/ ep.at = "none" /\ ep'.at = "reserved" /\ rt.at = "starting" /\ rt'.at = "reading" /\ ~host.closed
              /\ chan' = chan
    <2>1. \/ ep' = ep
          \/ ep' = [ep EXCEPT !.at = "reserved"] /\ rt.at = "starting" /\ rt'.at = "reading" /\ ~host.closed
              /\ chan' = chan
      BY <1>1 DEF RemoteCases
    <2>2. rt.at = "starting" => ep.at = "none"
      BY <1>0 DEF RemoteInv
    <2>3. QED
      BY <1>0, <2>1, <2>2 DEF EpType
  <1>5. /\ host.command => host'.command
        /\ host'.command => host.command \/ (rt.at \in {"cancelling", "withdrawing"} /\ outer' = outer)
        /\ Active /\ rt.at \in {"cancelling", "withdrawing"} /\ host' # host => host'.command
    <2>1. host' = host \/ (/\ host' = [host EXCEPT !.command = host.command \/ Active]
                           /\ rt.at \in {"cancelling", "withdrawing"} /\ outer' = outer)
      BY <1>1 DEF RemoteCases
    <2>2. QED
      BY <1>0, <2>1 DEF HostType
  <1>6. ASSUME NEW result, NEW loss \in BOOLEAN, finish(result, loss)
        PROVE  /\ outer'.reader = outer.reader /\ Sided(outer', proxy'.cancel) /\ outer'.emitted = outer.emitted
               /\ ~outer'.open /\ rt'.at = "finished" /\ ~proxy'.registered
               /\ rt'.result = prefer_pending_bridge_failure(result)
    BY <1>0, <1>6, FinishKeeps DEF BridgeInv, Sided
  <1>7. ASSUME NEW e \in Message, NEW end, SendsOuter(e, end), bridged(end, e)
        PROVE  /\ outer'.reader = outer.reader /\ Sided(outer', proxy'.cancel) /\ outer'.emitted = outer.emitted
               /\ outer'.open /\ rt'.at \in {"bridging", "reading", "withdrawing"} /\ proxy' = proxy
               /\ rt'.at = "withdrawing" => proxy.cancel \/ ~outer.reader
    <2>1. /\ Outcome(outer, e, proxy.cancel, end) /\ end.q \in Bridge /\ end.how \in Hows
          /\ end.q.open = outer.open
      BY <1>7, OuterOutcome
    <2>2. /\ outer' = end.q /\ proxy' = proxy
          /\ end.how = "wait" => rt'.at = "bridging" /\ rt'.event = e
          /\ end.how \in {"ok", "cancelled"} => rt'.at = "reading"
          /\ end.how \notin {"wait", "ok", "cancelled"} => rt'.at = "withdrawing"
      BY <1>0, <1>7, BridgedKeeps
    <2>3. rt'.at = "withdrawing" => end.how \in {"closed", "overflow"}
      BY <2>1, <2>2 DEF Hows
    <2>4. QED
      BY <1>3, <2>1, <2>2, <2>3 DEF Outcome
  <1>8. /\ rt.at = "bridging" => rt.event \in Message
        /\ rt.at = "reading" /\ StreamReady /\ ~StreamEnds /\ IsMessage(stream_next) => stream_next \in Message
    <2>1. rt.at = "bridging" => rt.event \in Message
      BY DEF WayInv, IInv, InHand
    <2>2. rt.at = "reading" /\ StreamReady /\ ~StreamEnds /\ IsMessage(stream_next) => stream_next \in Message
      BY StreamNext DEF WayInv, Reading, IsMessage, Ending, Endings, Kinds
    <2>3. QED
      BY <2>1, <2>2
  <1>9. /\ outer'.reader = outer.reader /\ Sided(outer', proxy'.cancel) /\ outer'.emitted = outer.emitted
        /\ ~outer'.open <=> rt'.at = "finished"
        /\ proxy'.registered <=> rt'.at \notin {"idle", "refused", "finished"}
        /\ rt'.at = "withdrawing" => proxy'.cancel \/ ~outer'.reader
        /\ rt'.at = "cancelling" => proxy'.cancel
        /\ closer.at # "idle" => proxy'.cancel \/ rt'.at \in {"idle", "refused", "finished"}
    <2>1. CASE \E result : \E loss \in BOOLEAN : finish(result, loss)
      BY <1>6, <2>1
    <2>2. CASE /\ rt.at = "idle" /\ rt'.at \in {"refused", "starting"} /\ UNCHANGED <<ep, chan, outer, host>>
               /\ proxy'.registered <=> (proxy.registered \/ rt'.at = "starting")
               /\ proxy'.cancel = proxy.cancel /\ (rt'.at = "starting" => ~proxy.run_closed)
      BY <1>0, <1>3, <2>2 DEF BridgeInv, CancelInv
    <2>3. CASE /\ rt.at \notin {"idle", "refused", "finished"} /\ UNCHANGED <<proxy, outer>>
               /\ rt'.at \in {"reading", "cancelling", "start_cancelled"} /\ (rt'.at = "cancelling" => proxy.cancel)
      BY <1>0, <1>3, <2>3 DEF BridgeInv, CancelInv
    <2>4. CASE rt.at \in {"reading", "bridging"} /\ \E e \in Message : \E end : SendsOuter(e, end) /\ bridged(end, e)
      <3>0. PICK e \in Message : \E end : SendsOuter(e, end) /\ bridged(end, e)
        BY <2>4
      <3>1. PICK end : SendsOuter(e, end) /\ bridged(end, e)
        BY <3>0
      <3>2. /\ outer'.reader = outer.reader /\ Sided(outer', proxy'.cancel) /\ outer'.emitted = outer.emitted
            /\ outer'.open /\ rt'.at \in {"bridging", "reading", "withdrawing"} /\ proxy' = proxy
            /\ rt'.at = "withdrawing" => proxy.cancel \/ ~outer.reader
        BY <1>7, <3>1
      <3>3. proxy.registered /\ (closer.at # "idle" => proxy.cancel)
        BY <1>0, <2>4 DEF CancelInv
      <3>4. QED
        BY <3>2, <3>3
    <2>5. CASE /\ rt.at = "reading" /\ StreamReady /\ ~StreamEnds /\ IsMessage(stream_next)
               /\ \E end : SendsOuter(stream_next, end) /\ bridged(end, stream_next)
      BY <1>8, <2>4, <2>5
    <2>6. CASE rt.at = "bridging" /\ \E end : SendsOuter(rt.event, end) /\ bridged(end, rt.event)
      BY <1>8, <2>4, <2>6
    <2>7. \/ \E result : \E loss \in BOOLEAN : finish(result, loss)
          \/ /\ rt.at = "idle" /\ rt'.at \in {"refused", "starting"} /\ UNCHANGED <<ep, chan, outer, host>>
             /\ proxy'.registered <=> (proxy.registered \/ rt'.at = "starting")
             /\ proxy'.cancel = proxy.cancel /\ (rt'.at = "starting" => ~proxy.run_closed)
          \/ /\ rt.at \notin {"idle", "refused", "finished"} /\ UNCHANGED <<proxy, outer>>
             /\ rt'.at \in {"reading", "cancelling", "start_cancelled"} /\ (rt'.at = "cancelling" => proxy.cancel)
          \/ /\ rt.at = "reading" /\ StreamReady /\ ~StreamEnds /\ IsMessage(stream_next)
             /\ \E end : SendsOuter(stream_next, end) /\ bridged(end, stream_next)
          \/ rt.at = "bridging" /\ \E end : SendsOuter(rt.event, end) /\ bridged(end, rt.event)
      BY <1>1 DEF RemoteCases
    <2>8. QED
      BY <2>1, <2>2, <2>3, <2>5, <2>6, <2>7
  <1>10. /\ chan'.reader <=> ~(rt'.at = "finished" /\ ep'.at # "none")
         /\ Mute(chan'.rest) /\ Closes(chan'.rest, driver.at = "done" /\ driver.result = "ok")
         /\ rt'.at = "finished" /\ rt'.result # "lost" =>
              chan'.queue = <<>> /\ (ep'.at = "none" \/ (chan'.terminal = "sent" /\ chan'.rest = <<>>))
         /\ chan.queue = <<>> => chan'.queue = <<>>
    <2> DEFINE ok == driver.at = "done" /\ driver.result = "ok"
    <2>1. Mute(chan.rest) /\ Closes(chan.rest, ok) /\ chan.reader
      BY <1>0, <1>3 DEF KeepInv, ResultInv, CancelInv
    <2> HIDE DEF ok
    <2>2. CASE chan' = chan /\ rt'.at # "finished"
      BY <2>1, <2>2 DEF ok
    <2>3. CASE rt.at \in {"starting", "start_cancelled"} /\ UNCHANGED <<ep, chan>> /\ rt'.at = "finished"
      <3>1. ep.at = "none"
        BY <1>0, <2>3 DEF RemoteInv
      <3>2. chan.queue = <<>>
        BY <1>0, <3>1 DEF KeepInv
      <3>3. QED
        BY <2>1, <2>3, <3>1, <3>2 DEF ok
    <2>4. CASE /\ Reading /\ chan' = [chan EXCEPT !.reader = FALSE] /\ UNCHANGED <<ep, host>>
               /\ \E loss \in BOOLEAN : finish("lost", loss)
      <3>1. rt'.at = "finished" /\ rt'.result = "lost"
        BY <1>6, <2>4 DEF prefer_pending_bridge_failure
      <3>2. ep.at # "none"
        BY <1>0, <2>4 DEF RemoteInv
      <3>3. chan'.queue = chan.queue /\ chan'.rest = chan.rest /\ ~chan'.reader
        BY <1>0, <2>4 DEF ChanType
      <3>4. QED
        BY <2>1, <2>4, <3>1, <3>2, <3>3 DEF ok
    <2>5. CASE /\ rt.at = "reading" /\ StreamReady /\ ~StreamEnds
               /\ \/ ~IsMessage(stream_next) /\ chan' = [stream_rest EXCEPT !.reader = FALSE] /\ rt'.at = "finished"
                  \/ IsMessage(stream_next) /\ chan' = stream_rest /\ rt'.at # "finished"
               /\ ep' = ep
      <3>1. /\ stream_rest \in [queue: Seq(Message), reader: BOOLEAN,
                               terminal: {"pending", "sent", "dropped"}, rest: Seq(Message \cup Ending)]
            /\ stream_rest.reader = chan.reader /\ stream_rest.terminal = chan.terminal
            /\ \/ /\ chan.queue # <<>> /\ stream_next = chan.queue[1] /\ stream_next \in Message
                  /\ stream_rest.queue = Tail(chan.queue) /\ stream_rest.rest = chan.rest
               \/ /\ chan.queue = <<>> /\ chan.terminal = "sent" /\ chan.rest # <<>>
                  /\ stream_next = chan.rest[1] /\ stream_next \in Message \cup Ending
                  /\ stream_rest.queue = chan.queue /\ stream_rest.rest = Tail(chan.rest)
        BY <2>5, StreamPlaces
      <3>2. /\ chan'.queue = stream_rest.queue /\ chan'.rest = stream_rest.rest
            /\ chan'.terminal = stream_rest.terminal
            /\ chan'.reader <=> rt'.at # "finished"
        BY <2>1, <2>5, <3>1
      <3>3. ep.at # "none"
        BY <1>0, <2>5 DEF RemoteInv, Reading
      <3>4. Mute(chan'.rest) /\ Closes(chan'.rest, ok) /\ (chan.queue = <<>> => chan'.queue = <<>>)
        <4>1. CASE stream_rest.rest = chan.rest /\ chan.queue # <<>>
          BY <2>1, <3>2, <4>1
        <4>2. CASE chan.rest # <<>> /\ stream_rest.rest = Tail(chan.rest) /\ stream_rest.queue = chan.queue
          <5>1. chan.rest \in Seq(Message \cup Ending)
            BY <1>0 DEF ChanType
          <5>2. Mute(Tail(chan.rest)) /\ Closes(Tail(chan.rest), ok)
            BY <2>1, <4>2, <5>1, TailKeeps
          <5>3. QED
            BY <3>2, <4>2, <5>2
        <4>3. QED
          BY <3>1, <4>1, <4>2
      <3>5. rt'.at = "finished" => chan'.queue = <<>> /\ chan'.terminal = "sent" /\ chan'.rest = <<>>
        <4> SUFFICES ASSUME rt'.at = "finished" PROVE chan'.queue = <<>> /\ chan'.terminal = "sent" /\ chan'.rest = <<>>
          OBVIOUS
        <4>1. ~IsMessage(stream_next)
          BY <2>5
        <4>2. /\ chan.queue = <<>> /\ chan.terminal = "sent" /\ chan.rest # <<>>
              /\ stream_next = chan.rest[1]
              /\ stream_rest.queue = chan.queue /\ stream_rest.rest = Tail(chan.rest)
          BY <3>1, <4>1 DEF IsMessage, Message
        <4>3. chan.rest \in Seq(Message \cup Ending) /\ chan.rest[1].kind \notin Kinds
          BY <1>0, <4>1, <4>2 DEF ChanType, IsMessage
        <4>4. Tail(chan.rest) = <<>>
          BY <2>1, <4>2, <4>3, TailKeeps
        <4>5. QED
          BY <3>1, <3>2, <4>2, <4>4
      <3>6. QED
        BY <2>5, <3>2, <3>3, <3>4, <3>5 DEF ok
    <2>6. ASSUME NEW e \in Message, NEW end, SendsOuter(e, end), bridged(end, e)
          PROVE  rt'.at # "finished"
      BY <1>7, <2>6
    <2>7. QED
      BY <1>1, <1>6, <1>8, <2>2, <2>3, <2>4, <2>5, <2>6 DEF RemoteCases
  <1>11. BridgeInv'
    BY <1>0, <1>1, <1>9 DEF BridgeInv
  <1>12. CancelInv'
    <2>1. closer.at # "idle" => proxy'.run_closed
      BY <1>0, <1>1 DEF CancelInv
    <2>2. host'.command => proxy'.cancel \/ host'.loss \/ ~outer'.reader \/ rt'.at = "finished"
      BY <1>0, <1>1, <1>2, <1>3, <1>5, <1>9 DEF CancelInv
    <2>3. Active' /\ host'.closed => host'.command
      <3>1. CASE ep' = ep
        BY <1>0, <1>2, <1>5, <3>1 DEF CancelInv, Active
      <3>2. CASE ep' # ep
        BY <1>2, <1>4, <3>2
      <3>3. QED
        BY <3>1, <3>2
    <2>4. /\ stop'.cancel => ep'.gone \/ ep'.cancelled \/ host'.command
          /\ ep'.cancelled => ep'.gone \/ host'.command
          /\ ep'.gone => rt'.at = "finished" /\ rt'.result = "lost"
      BY <1>0, <1>1, <1>3, <1>4, <1>5 DEF CancelInv
    <2>5. cutter'.at = "runner" => host'.closed
      BY <1>0, <1>1, <1>2 DEF CancelInv
    <2>6. QED
      BY <1>1, <1>9, <1>10, <2>1, <2>2, <2>3, <2>4, <2>5 DEF CancelInv
  <1>13. KeepInv'
    BY <1>0, <1>1, <1>4, <1>10 DEF KeepInv
  <1>14. ResultInv'
    BY <1>0, <1>1, <1>10 DEF ResultInv
  <1>15. LedgerInv'
    BY <1>0, <1>1, <1>3, <1>9 DEF LedgerInv
  <1>16. QED
    BY <1>11, <1>12, <1>13, <1>14, <1>15

\* The event the remote task takes on: it was in its hand, or is the next of the stream.
Taken(e) ==
    /\ e \in Message /\ Genuine(script, Len(said), e)
    /\ Sound(script, Len(said), chan'.queue) /\ Sound(script, Len(said), Kept')
    /\ Marks(Hand) \cup Marks(chan.queue) \cup Marks(Kept) \subseteq
          Marks(<<e>>) \cup Marks(chan'.queue) \cup Marks(Kept')
    /\ \/ rt.at = "bridging" /\ Hand = <<e>> /\ chan'.queue = chan.queue /\ Kept' = Kept
       \/ /\ Hand = <<>> /\ Items(chan.queue) = Of(e) \cup Items(chan'.queue) /\ Kept' = Kept
          /\ Before(script, Of(e), Items(chan'.queue))
       \/ /\ Hand = <<>> /\ chan.queue = <<>> /\ chan'.queue = <<>> /\ e.kind # "output"
          /\ Items(Kept) = Of(e) \cup Items(Kept') /\ Before(script, Of(e), Items(Kept'))

\* What becomes of it.
Handed(e) ==
    /\ outer'.emitted = outer.emitted /\ outer'.reader = outer.reader /\ proxy' = proxy
    /\ rt'.at # "finished"
    /\ \/ /\ Queued(outer') = Append(Queued(outer), e) /\ outer'.overflow = outer.overflow /\ Hand' = <<>>
          /\ e.kind = "output" => ~proxy.cancel
       \/ /\ rt.at # "bridging" /\ Hand' = <<e>>
          /\ Queued(outer') = Queued(outer) /\ outer'.overflow = outer.overflow
       \/ /\ Hand' = <<>> /\ Queued(outer') = Queued(outer)
          /\ \/ e.kind = "output" /\ proxy.cancel /\ outer'.overflow = outer.overflow
             \/ ~outer.reader /\ outer'.overflow = outer.overflow
             \/ /\ e.kind # "output" /\ proxy.cancel
                /\ outer'.overflow = outer.overflow \cup {metadata_of(e)}

\* Handing an event over to the controller's bridge ends in one of these ways.
LEMMA Hands ==
    ASSUME WayInv, NEW e \in Message, NEW end, SendsOuter(e, end), bridged(end, e),
           rt.at = "bridging" => end.how # "wait"
    PROVE  Handed(e)
  <1>1. /\ Outcome(outer, e, proxy.cancel, end) /\ end.how \in Hows
        /\ e.kind = "output" => end.how # "overflow"
        /\ e.kind # "output" => end.how # "cancelled"
    BY OuterOutcome
  <1>2. /\ outer' = end.q /\ proxy' = proxy
        /\ end.how = "wait" => rt'.at = "bridging" /\ rt'.event = e
        /\ end.how \in {"ok", "cancelled"} => rt'.at = "reading"
        /\ end.how \notin {"wait", "ok", "cancelled"} => rt'.at = "withdrawing"
    BY BridgedKeeps DEF WayInv, IInv
  <1>3. e.kind = "output" /\ end.how = "ok" => ~proxy.cancel
    BY DEF SendsOuter, send, Ends
  <1>4. /\ outer'.emitted = outer.emitted /\ outer'.reader = outer.reader /\ rt'.at # "finished"
    BY <1>1, <1>2 DEF Outcome
  <1>5. CASE end.how = "ok"
    <2>1. Queued(outer') = Append(Queued(outer), e) /\ outer'.overflow = outer.overflow /\ Hand' = <<>>
      BY <1>1, <1>2, <1>5 DEF Outcome, Hand
    <2>2. QED
      BY <1>2, <1>3, <1>4, <1>5, <2>1 DEF Handed
  <1>6. CASE end.how = "wait"
    <2>1. Queued(outer') = Queued(outer) /\ outer'.overflow = outer.overflow /\ Hand' = <<e>>
      BY <1>1, <1>2, <1>6 DEF Outcome, Hand
    <2>2. QED
      BY <1>2, <1>4, <1>6, <2>1 DEF Handed
  <1>7. CASE end.how \in {"cancelled", "closed", "overflow"}
    <2>1. Queued(outer') = Queued(outer) /\ Hand' = <<>>
      BY <1>1, <1>2, <1>7 DEF Outcome, Hand
    <2>2. \/ e.kind = "output" /\ proxy.cancel /\ outer'.overflow = outer.overflow
          \/ ~outer.reader /\ outer'.overflow = outer.overflow
          \/ /\ e.kind # "output" /\ proxy.cancel
             /\ outer'.overflow = outer.overflow \cup {metadata_of(e)}
      BY <1>1, <1>2, <1>7 DEF Outcome
    <2>3. QED
      BY <1>2, <1>4, <2>1, <2>2 DEF Handed
  <1>8. QED
    BY <1>1, <1>5, <1>6, <1>7 DEF Hows

\* An event that is taken on moves to the controller's bridge or to the task's hand, or it is
\* lost to a cancellation or with the ledger.
LEMMA TakenPlaces ==
    ASSUME WayInv, NEW e \in Message, Taken(e), Handed(e),
           UNCHANGED <<script, said, inner, dispatch, log>>
    PROVE  /\ OrderInv' /\ Recorded' = Recorded /\ Arrived \subseteq Arrived'
           /\ dispatch = "persisting" /\ proxy.cancel => \A i \in Arrived' : script[i] = "output" => i \in Arrived
           /\ outer.reader /\ ~proxy.cancel =>
                 /\ Afoot' = Afoot /\ Sent \subseteq Sent' /\ \A i \in Sent' : script[i] = "output" => i \in Sent
           /\ outer.reader =>
                 /\ \A kind \in Kinds : kind \in Known => kind \in Known'
                 /\ \A i \in Afoot : script[i] # "output" => i \in Afoot' \/ script[i] \in Known'
  <1> DEFINE n == Len(said)
             E == Of(e)
             w == Way
             v == Way'
             q == Queued(outer)
  <1>0. /\ OrderInv /\ q \in Seq(Message)
    BY QueuedType DEF WayInv, IInv, TypeOK, OuterType
  <1>1. /\ Genuine(script, n, e) /\ Sound(script, n, chan'.queue) /\ Sound(script, n, Kept')
        /\ Marks(Hand) \cup Marks(chan.queue) \cup Marks(Kept) \subseteq
              Marks(<<e>>) \cup Marks(chan'.queue) \cup Marks(Kept')
    BY DEF Taken
  <1>2. /\ w[1] = Items(log) /\ w[2] = Items(q) /\ w[3] = Items(Hand)
        /\ w[4] = Items(chan.queue) /\ w[5] = Items(Kept) /\ w[6] = Items(Queued(inner))
    BY WayPlaces
  <1>3. /\ v[1] = w[1] /\ v[2] = Items(Queued(outer')) /\ v[3] = Items(Hand')
        /\ v[4] = Items(chan'.queue) /\ v[5] = Items(Kept') /\ v[6] = w[6]
    BY <1>2 DEF Way
  <1>4. Sorted(script, w) /\ Sound(script, n, q)
    BY <1>0 DEF OrderInv
  <1>5. ASSUME Sorted(script, v), Sound(script, n, Queued(outer')), Sound(script, n, Hand')
        PROVE  OrderInv'
    BY <1>0, <1>1, <1>5 DEF OrderInv
  <1>6. /\ Afoot = w[1] \cup w[2] \cup w[3] \cup w[4] \cup w[5] \cup w[6]
        /\ Sent = w[1] \cup w[2] \cup w[3] \cup w[4] /\ Arrived = w[1] \cup w[2] /\ Recorded = w[1]
    BY <1>2 DEF Afoot, Sent, Arrived, Recorded
  <1>7. /\ Afoot' = v[1] \cup v[2] \cup v[3] \cup v[4] \cup v[5] \cup v[6]
        /\ Sent' = v[1] \cup v[2] \cup v[3] \cup v[4] /\ Arrived' = v[1] \cup v[2] /\ Recorded' = v[1]
    <2>1. v[1] = Items(log') /\ v[6] = Items(Queued(inner'))
      BY DEF Way
    <2>2. QED
      BY <1>3, <2>1 DEF Afoot, Sent, Arrived, Recorded
  <1>8. /\ Items(<<>>) = {} /\ Marks(<<>>) = {} /\ Sound(script, n, <<>>)
        /\ Items(<<e>>) = E /\ Sound(script, n, <<e>>)
        /\ Marks(<<e>>) = (IF e.of = {} THEN {e.kind} ELSE {})
    BY <1>1, NothingSaid, OneEvent DEF Sound
  <1>9. \A T : Before(script, {}, T) /\ Before(script, T, {})
    BY DEF Before
  <1>10. \A i \in E : script[i] = e.kind
    BY <1>1 DEF Genuine
  <1>11. \E b \in 3..5 :
            /\ w[b] = E \cup (IF b = 3 THEN {} ELSE v[b])
            /\ b # 3 => Before(script, E, v[b])
            /\ \A i \in 3..5 : i # b => (i < b /\ w[i] = {} /\ (i # 3 => v[i] = {})) \/ (b < i /\ v[i] = w[i])
            /\ b = 5 => e.kind # "output"
            /\ b = 3 <=> rt.at = "bridging"
    <2>0. \A i \in 3..5 : i = 3 \/ i = 4 \/ i = 5
      OBVIOUS
    <2>1. CASE rt.at = "bridging" /\ Hand = <<e>> /\ chan'.queue = chan.queue /\ Kept' = Kept
      <3>1. w[3] = E /\ v[4] = w[4] /\ v[5] = w[5]
        BY <1>2, <1>3, <1>8, <2>1
      <3> HIDE DEF w, v, E
      <3>2. 3 \in 3..5 /\ \A i \in 3..5 : i # 3 => 3 < i /\ v[i] = w[i]
        BY <2>0, <3>1
      <3>3. QED
        BY <2>1, <3>1, <3>2
    <2>2. CASE /\ Hand = <<>> /\ Items(chan.queue) = Of(e) \cup Items(chan'.queue) /\ Kept' = Kept
               /\ Before(script, Of(e), Items(chan'.queue))
      <3>1. w[3] = {} /\ w[4] = E \cup v[4] /\ v[5] = w[5] /\ Before(script, E, v[4])
        BY <1>2, <1>3, <1>8, <2>2
      <3>2. rt.at # "bridging"
        BY <2>2 DEF Hand
      <3> HIDE DEF w, v, E
      <3>3. 4 \in 3..5 /\ \A i \in 3..5 : i # 4 => (i < 4 /\ w[i] = {} /\ i = 3) \/ (4 < i /\ v[i] = w[i])
        BY <2>0, <3>1
      <3>4. QED
        BY <3>1, <3>2, <3>3
    <2>3. CASE /\ Hand = <<>> /\ chan.queue = <<>> /\ chan'.queue = <<>> /\ e.kind # "output"
               /\ Items(Kept) = Of(e) \cup Items(Kept') /\ Before(script, Of(e), Items(Kept'))
      <3>1. w[3] = {} /\ w[4] = {} /\ v[4] = {} /\ w[5] = E \cup v[5] /\ Before(script, E, v[5])
        BY <1>2, <1>3, <1>8, <2>3
      <3>2. rt.at # "bridging"
        BY <2>3 DEF Hand
      <3> HIDE DEF w, v, E
      <3>3. 5 \in 3..5 /\ \A i \in 3..5 : i # 5 => i < 5 /\ w[i] = {} /\ (i # 3 => v[i] = {})
        BY <2>0, <3>1
      <3>4. QED
        BY <2>3, <3>1, <3>2, <3>3
    <2>4. QED
      BY <2>1, <2>2, <2>3 DEF Taken
  <1>12. outer'.reader = outer.reader /\ (\A kind \in Marks(<<e>>) : kind = e.kind /\ e.of = {})
    BY <1>8 DEF Handed
  <1>13. Marks(log') = Marks(log)
    OBVIOUS
  <1> HIDE DEF w, v, E, n
  <1>14. PICK b \in 3..5 :
            /\ w[b] = E \cup (IF b = 3 THEN {} ELSE v[b])
            /\ b # 3 => Before(script, E, v[b])
            /\ \A i \in 3..5 : i # b => (i < b /\ w[i] = {} /\ (i # 3 => v[i] = {})) \/ (b < i /\ v[i] = w[i])
            /\ b = 5 => e.kind # "output"
            /\ b = 3 <=> rt.at = "bridging"
    BY <1>11
  <1>15. Before(script, w[2], E)
    <2>1. Before(script, w[2], w[b])
      BY <1>4 DEF Sorted
    <2>2. QED
      BY <1>14, <2>1 DEF Before
  <1>16. /\ w[3] \cup w[4] \cup w[5] = E \cup (IF b = 3 THEN {} ELSE v[b]) \cup (IF b < 4 THEN v[4] ELSE {})
                                        \cup (IF b < 5 THEN v[5] ELSE {})
         /\ b # 3 => w[3] = {}
         /\ v[4] \subseteq w[4] /\ v[5] \subseteq w[5]
    <2>1. b = 3 \/ b = 4 \/ b = 5
      OBVIOUS
    <2>2. CASE b = 3
      BY <1>14, <2>2
    <2>3. CASE b = 4
      BY <1>14, <2>3
    <2>4. CASE b = 5
      BY <1>14, <2>4
    <2>5. QED
      BY <2>1, <2>2, <2>3, <2>4
  <1>17. w[3] \cup w[4] \cup w[5] = E \cup v[4] \cup v[5] /\ (b # 5 => w[3] \cup w[4] = E \cup v[4])
    <2>1. b = 3 \/ b = 4 \/ b = 5
      OBVIOUS
    <2>2. CASE b = 3
      BY <1>14, <2>2
    <2>3. CASE b = 4
      BY <1>14, <2>3
    <2>4. CASE b = 5
      BY <1>14, <2>4
    <2>5. QED
      BY <2>1, <2>2, <2>3, <2>4
  <1>18. CASE /\ Queued(outer') = Append(q, e) /\ outer'.overflow = outer.overflow /\ Hand' = <<>>
              /\ e.kind = "output" => ~proxy.cancel
    <2>1. /\ v[2] = w[2] \cup E /\ Sound(script, n, Queued(outer'))
          /\ Marks(Queued(outer')) = Marks(q) \cup Marks(<<e>>)
      <3>1. q \in Seq(Message) /\ Sound(script, n, q) /\ Before(script, Items(q), Of(e)) /\ w[2] = Items(q)
        BY <1>0, <1>2, <1>4, <1>15 DEF E
      <3> HIDE DEF q
      <3>2. /\ Items(Append(q, e)) = Items(q) \cup Of(e)
            /\ Marks(Append(q, e)) = Marks(q) \cup (IF e.of = {} THEN {e.kind} ELSE {})
            /\ Sound(script, n, Append(q, e)) <=> /\ Sound(script, n, q) /\ Genuine(script, n, e)
                                                  /\ Before(script, Items(q), Of(e))
        BY <3>1, AppendSays
      <3>3. QED
        BY <1>1, <1>3, <1>8, <1>18, <3>1, <3>2 DEF E
    <2>2. v[3] = {} /\ Sound(script, n, Hand') /\ Marks(Hand') = {}
      BY <1>3, <1>8, <1>18
    <2>3. Sorted(script, v)
      <3>1. v[2] \cup v[b] \subseteq w[2] \cup w[b]
        BY <1>14, <2>1, <2>2
      <3>2. Before(script, v[2], v[b])
        <4>1. Before(script, w[2], w[b])
          BY <1>4 DEF Sorted
        <4>2. CASE b = 3
          BY <1>9, <2>2, <4>2
        <4>3. CASE b # 3
          <5>1. Before(script, E, v[b]) /\ v[b] \subseteq w[b]
            BY <1>14, <4>3
          <5>2. QED
            BY <2>1, <4>1, <5>1 DEF Before
        <4>4. QED
          BY <4>2, <4>3
      <3>3. \A i \in 1..6 : i # 2 /\ i # b => v[i] \subseteq w[i]
        <4>1. \A i \in 1..6 : i # 2 /\ i # b => i = 1 \/ i = 6 \/ (i \in 3..5 /\ i # b)
          OBVIOUS
        <4>2. \A i \in 3..5 : i = 3 \/ i = 4 \/ i = 5
          OBVIOUS
        <4>3. \A i \in 3..5 : i # b => v[i] \subseteq w[i]
          BY <1>16, <2>2, <4>2
        <4>4. QED
          BY <1>3, <4>1, <4>3
      <3>4. \A i \in 1..6 : 2 < i /\ i < b => w[i] = {}
        <4>1. \A i \in 1..6 : 2 < i /\ i < b => i \in 3..5 /\ i # b /\ ~(b < i)
          OBVIOUS
        <4>2. QED
          BY <1>14, <4>1
      <3>5. 2 \in 1..6 /\ b \in 1..6 /\ 2 < b
        OBVIOUS
      <3>6. QED
        BY <1>4, <3>1, <3>2, <3>3, <3>4, <3>5, Moves
    <2>4. OrderInv'
      BY <1>5, <2>1, <2>2, <2>3
    <2>5. Recorded' = Recorded /\ Arrived' = Arrived \cup E
      BY <1>3, <1>6, <1>7, <2>1
    <2>6. Afoot' = Afoot
      BY <1>3, <1>6, <1>7, <1>17, <2>1, <2>2
    <2>7. Sent \subseteq Sent' /\ \A i \in Sent' : script[i] = "output" => i \in Sent
      <3>1. Sent' = w[1] \cup w[2] \cup E \cup v[4]
        BY <1>3, <1>7, <2>1, <2>2
      <3>2. CASE b # 5
        BY <1>6, <1>17, <3>1, <3>2
      <3>3. CASE b = 5
        <4>1. w[3] = {} /\ w[4] = {} /\ v[4] = {} /\ e.kind # "output"
          BY <1>14, <3>3
        <4>2. QED
          BY <1>6, <1>10, <3>1, <4>1 DEF E
      <3>4. QED
        BY <3>2, <3>3
    <2>8. Known \subseteq Known'
      BY <1>1, <1>13, <1>18, <2>1 DEF Known
    <2>9. dispatch = "persisting" /\ proxy.cancel => \A i \in Arrived' : script[i] = "output" => i \in Arrived
      BY <1>10, <1>18, <2>5 DEF E
    <2>10. QED
      BY <2>4, <2>5, <2>6, <2>7, <2>8, <2>9
  <1>19. CASE /\ rt.at # "bridging" /\ Hand' = <<e>>
              /\ Queued(outer') = q /\ outer'.overflow = outer.overflow
    <2>1. v[2] = w[2] /\ v[3] = E /\ Sound(script, n, Hand') /\ Marks(Hand') = Marks(<<e>>) /\ b # 3 /\ w[3] = {}
      BY <1>2, <1>3, <1>8, <1>14, <1>16, <1>19 DEF E
    <2>2. Sorted(script, v)
      <3>1. v[3] \cup v[b] \subseteq w[3] \cup w[b]
        BY <1>14, <2>1
      <3>2. Before(script, v[3], v[b])
        BY <1>14, <2>1
      <3>3. \A i \in 1..6 : i # 3 /\ i # b => v[i] \subseteq w[i]
        <4>1. \A i \in 1..6 : i = 1 \/ i = 2 \/ i = 3 \/ i = 4 \/ i = 5 \/ i = 6
          OBVIOUS
        <4>2. QED
          BY <1>3, <1>16, <2>1, <4>1
      <3>4. \A i \in 1..6 : 3 < i /\ i < b => w[i] = {}
        <4>1. \A i \in 1..6 : 3 < i /\ i < b => i \in 3..5 /\ i # b /\ ~(b < i)
          OBVIOUS
        <4>2. QED
          BY <1>14, <4>1
      <3>5. 3 \in 1..6 /\ b \in 1..6 /\ 3 < b
        BY <2>1
      <3>6. QED
        BY <1>4, <3>1, <3>2, <3>3, <3>4, <3>5, Moves
    <2>3. OrderInv'
      BY <1>4, <1>5, <1>19, <2>1, <2>2
    <2>4. Recorded' = Recorded /\ Arrived' = Arrived
      BY <1>3, <1>6, <1>7, <2>1
    <2>5. Afoot' = Afoot
      BY <1>3, <1>6, <1>7, <1>17, <2>1
    <2>6. Sent \subseteq Sent' /\ \A i \in Sent' : script[i] = "output" => i \in Sent
      <3>1. Sent' = w[1] \cup w[2] \cup E \cup v[4]
        BY <1>3, <1>7, <2>1
      <3>2. CASE b # 5
        BY <1>6, <1>17, <3>1, <3>2
      <3>3. CASE b = 5
        <4>1. w[3] = {} /\ w[4] = {} /\ v[4] = {} /\ e.kind # "output"
          BY <1>14, <3>3
        <4>2. QED
          BY <1>6, <1>10, <3>1, <4>1 DEF E
      <3>4. QED
        BY <3>2, <3>3
    <2>7. Known \subseteq Known'
      BY <1>1, <1>13, <1>19, <2>1 DEF Known
    <2>8. QED
      BY <2>3, <2>4, <2>5, <2>6, <2>7
  <1>20. CASE /\ Hand' = <<>> /\ Queued(outer') = q
              /\ \/ e.kind = "output" /\ proxy.cancel /\ outer'.overflow = outer.overflow
                 \/ ~outer.reader /\ outer'.overflow = outer.overflow
                 \/ /\ e.kind # "output" /\ proxy.cancel
                    /\ outer'.overflow = outer.overflow \cup {metadata_of(e)}
    <2>1. v[2] = w[2] /\ v[3] = {} /\ Sound(script, n, Hand') /\ Marks(Hand') = {}
      BY <1>2, <1>3, <1>8, <1>20
    <2>2. Sorted(script, v)
      <3>1. \A i \in 1..6 : i = 1 \/ i = 2 \/ i = 3 \/ i = 4 \/ i = 5 \/ i = 6
        OBVIOUS
      <3>2. \A i \in 1..6 : v[i] \subseteq w[i]
        BY <1>3, <1>16, <2>1, <3>1
      <3>3. QED
        BY <1>4, <3>2, Thins
    <2>3. OrderInv'
      BY <1>4, <1>5, <1>20, <2>1, <2>2
    <2>4. Recorded' = Recorded /\ Arrived' = Arrived
      BY <1>3, <1>6, <1>7, <2>1
    <2>5. outer.reader => proxy.cancel /\ Marks(<<e>>) \subseteq outer'.overflow
                          /\ (e.kind # "output" => e.kind \in outer'.overflow)
                          /\ outer.overflow \subseteq outer'.overflow
      <3>1. e.kind = "output" => Marks(<<e>>) = {}
        BY <1>1, <1>8 DEF Genuine
      <3>2. e.kind # "output" => metadata_of(e) = e.kind /\ Marks(<<e>>) \subseteq {e.kind}
        <4>1. e.kind \in Kinds
          BY DEF Message
        <4>2. QED
          BY <1>8, <4>1 DEF metadata_of, Kinds
      <3>3. QED
        BY <1>20, <3>1, <3>2
    <2>6. outer.reader => Known \subseteq Known' /\ outer'.overflow \subseteq Known'
      BY <1>1, <1>13, <1>20, <2>5 DEF Known
    <2>7. Afoot = Afoot' \cup E
      BY <1>3, <1>6, <1>7, <1>17, <2>1
    <2>8. outer.reader => \A i \in Afoot : script[i] # "output" => i \in Afoot' \/ script[i] \in Known'
      BY <1>10, <2>5, <2>6, <2>7 DEF E
    <2>9. QED
      BY <2>3, <2>4, <2>5, <2>6, <2>8
  <1>21. QED
    BY <1>18, <1>19, <1>20 DEF Handed

\* The next event of the stream leaves the queue, or is the first of the terminal events.
LEMMA StreamTaken ==
    ASSUME WayInv, rt.at = "reading", StreamReady, ~StreamEnds, IsMessage(stream_next),
           chan' = stream_rest, ep' = ep
    PROVE  stream_next \in Message /\ Taken(stream_next)
  <1> DEFINE e == stream_next
             n == Len(said)
  <1>0. /\ OrderInv /\ KeepInv /\ EndpointInv /\ ChanType
    BY DEF WayInv, IInv, TypeOK
  <1>1. e \in Message
    BY StreamNext DEF WayInv, Reading, IsMessage, Ending, Endings, Kinds
  <1>2. Hand = <<>> /\ Marks(<<>>) = {} /\ Items(<<>>) = {}
    BY NothingSaid DEF Hand
  <1>3. Sound(script, n, chan.queue) /\ Sound(script, n, Kept)
    BY <1>0 DEF OrderInv
  <1>4. /\ chan'.terminal = chan.terminal
        /\ \/ /\ chan.queue # <<>> /\ e = chan.queue[1]
              /\ chan'.queue = Tail(chan.queue) /\ chan'.rest = chan.rest
           \/ /\ chan.queue = <<>> /\ chan.terminal = "sent" /\ chan.rest # <<>>
              /\ e = chan.rest[1]
              /\ chan'.queue = chan.queue /\ chan'.rest = Tail(chan.rest)
    BY StreamPlaces
  <1> HIDE DEF e, n
  <1>5. Marks(<<e>>) = (IF e.of = {} THEN {e.kind} ELSE {})
    BY OneEvent
  <1>6. CASE chan.queue # <<>> /\ e = chan.queue[1] /\ chan'.queue = Tail(chan.queue) /\ chan'.rest = chan.rest
    <2> DEFINE q == chan.queue
    <2>1. q \in Seq(Message) /\ q # <<>> /\ e = q[1] /\ chan'.queue = Tail(q) /\ Sound(script, n, q)
      BY <1>0, <1>3, <1>6 DEF ChanType
    <2> HIDE DEF q
    <2>2. /\ Items(q) = Of(q[1]) \cup Items(Tail(q))
          /\ Marks(q) = (IF q[1].of = {} THEN {q[1].kind} ELSE {}) \cup Marks(Tail(q))
          /\ Sound(script, n, q) <=> /\ Genuine(script, n, q[1]) /\ Sound(script, n, Tail(q))
                                     /\ Before(script, Of(q[1]), Items(Tail(q)))
      BY <2>1, HeadSays
    <2>3. Kept' = Kept
      BY <1>4, <1>6 DEF Kept, Held
    <2>4. /\ Items(chan.queue) = Of(e) \cup Items(chan'.queue)
          /\ Marks(chan.queue) = Marks(<<e>>) \cup Marks(chan'.queue)
          /\ Genuine(script, n, e) /\ Sound(script, n, chan'.queue) /\ Before(script, Of(e), Items(chan'.queue))
      BY <1>5, <2>1, <2>2 DEF q
    <2>5. QED
      BY <1>1, <1>2, <1>3, <2>3, <2>4 DEF Taken, n, e
  <1>7. CASE /\ chan.queue = <<>> /\ chan.terminal = "sent" /\ chan.rest # <<>> /\ e = chan.rest[1]
             /\ chan'.queue = chan.queue /\ chan'.rest = Tail(chan.rest)
    <2> DEFINE q == chan.rest
    <2>1. Kept = q /\ Kept' = Tail(q)
      BY <1>4, <1>7 DEF Kept
    <2>2. q \in Seq(Message \cup Ending) /\ q # <<>> /\ e = q[1] /\ Sound(script, n, q) /\ Mute(q)
      BY <1>0, <1>3, <1>7, <2>1 DEF ChanType, KeepInv
    <2> HIDE DEF q
    <2>3. /\ Items(q) = Of(q[1]) \cup Items(Tail(q))
          /\ Marks(q) = (IF q[1].of = {} THEN {q[1].kind} ELSE {}) \cup Marks(Tail(q))
          /\ Sound(script, n, q) <=> /\ Genuine(script, n, q[1]) /\ Sound(script, n, Tail(q))
                                     /\ Before(script, Of(q[1]), Items(Tail(q)))
      BY <2>2, HeadSays
    <2>4. e.kind # "output"
      <3>1. 1 \in DOMAIN q
        BY <2>2
      <3>2. QED
        BY <2>2, <3>1 DEF Mute
    <2>5. /\ Items(Kept) = Of(e) \cup Items(Kept') /\ Marks(Kept) = Marks(<<e>>) \cup Marks(Kept')
          /\ Genuine(script, n, e) /\ Sound(script, n, Kept') /\ Before(script, Of(e), Items(Kept'))
      BY <1>5, <2>1, <2>2, <2>3
    <2>6. QED
      BY <1>1, <1>2, <1>3, <1>7, <2>4, <2>5 DEF Taken, n, e
  <1>8. QED
    BY <1>4, <1>6, <1>7

\* So does the event in the task's hand.
LEMMA HandTaken ==
    ASSUME WayInv, rt.at = "bridging", UNCHANGED <<chan, ep>>
    PROVE  rt.event \in Message /\ Taken(rt.event)
  <1> DEFINE e == rt.event
             n == Len(said)
  <1>0. /\ OrderInv /\ e \in Message
    BY DEF WayInv, IInv, InHand
  <1>1. Hand = <<e>> /\ Kept' = Kept
    BY DEF Hand, Kept, Held
  <1>2. Sound(script, n, chan.queue) /\ Sound(script, n, Kept) /\ Sound(script, n, Hand)
    BY <1>0 DEF OrderInv
  <1> HIDE DEF e, n
  <1>3. Genuine(script, n, e)
    <2>1. Valid(script, n, <<e>>) <=> Genuine(script, n, e)
      BY OneEvent
    <2>2. QED
      BY <1>1, <1>2, <2>1 DEF Sound
  <1>4. QED
    BY <1>0, <1>1, <1>2, <1>3 DEF Taken, e, n

\* Events the remote task takes on leave no gap, and are not lost unknown.
LEMMA TakenEvents ==
    ASSUME WayInv, Onward, TypeOK', CancelInv', BridgeInv', NEW e \in Message, Taken(e), Handed(e),
           UNCHANGED <<script, said, inner, driver, stop, dispatch, log>>
    PROVE  OrderInv' /\ GapInv' /\ AccountInv'
  <1>0. /\ OrderInv /\ GapInv /\ BridgeInv /\ TypeOK /\ DispatchType
    BY DEF WayInv, IInv, TypeOK
  <1>1. /\ OrderInv' /\ Recorded' = Recorded /\ Arrived \subseteq Arrived'
        /\ dispatch = "persisting" /\ proxy.cancel => \A i \in Arrived' : script[i] = "output" => i \in Arrived
        /\ outer.reader /\ ~proxy.cancel =>
              /\ Afoot' = Afoot /\ Sent \subseteq Sent' /\ \A i \in Sent' : script[i] = "output" => i \in Sent
        /\ outer.reader =>
              /\ \A kind \in Kinds : kind \in Known => kind \in Known'
              /\ \A i \in Afoot : script[i] # "output" => i \in Afoot' \/ script[i] \in Known'
    BY TakenPlaces
  <1>2. /\ rt'.at # "finished" /\ outer'.reader = outer.reader /\ proxy' = proxy
    BY DEF Handed
  <1>3. Flowing' => Flowing /\ outer.reader /\ ~proxy.cancel
    BY <1>2, SignalsOnward DEF Flowing
  <1>4. dispatch' = "persisting" /\ ~Flowing' => dispatch = "persisting" /\ proxy.cancel
    BY <1>0, <1>2 DEF Flowing, BridgeInv
  <1>5. ~Broken' => outer.reader
    BY <1>0 DEF Broken, BridgeInv
  <1>6. GapInv'
    <2>1. Flowing' /\ Passing' => \A i \in DOMAIN said' : said'[i].how = "ok" => i \in Afoot'
      BY <1>0, <1>1, <1>3, SignalsOnward DEF GapInv
    <2>2. dispatch' = "persisting" /\ ~Flowing' =>
              Arrived \subseteq Arrived' /\ \A i \in Arrived' : script[i] = "output" => i \in Arrived
      BY <1>1, <1>4
    <2>3. Flowing' /\ ~Passing' =>
              Sent \subseteq Sent' /\ \A i \in Sent' : script[i] = "output" => i \in Sent
      BY <1>1, <1>3
    <2>4. QED
      BY <1>1, <1>2, <2>1, <2>2, <2>3, GapStep
  <1>7. AccountInv'
    BY <1>1, <1>5, AccountStep
  <1>8. QED
    BY <1>1, <1>6, <1>7

\* The terminal event tells of a success only when all of it has arrived.
LEMMA EndingEvents ==
    ASSUME WayInv, Onward, TypeOK', CancelInv', ResultInv',
           rt.at = "reading", StreamReady, ~StreamEnds, ~IsMessage(stream_next),
           finish(stream_next.kind, FALSE), chan' = [stream_rest EXCEPT !.reader = FALSE],
           UNCHANGED <<ep, host, script, said, inner, driver, stop, dispatch, log>>
    PROVE  OrderInv' /\ GapInv' /\ AccountInv'
  <1>0. /\ OrderInv /\ GapInv /\ CancelInv /\ ResultInv /\ KeepInv /\ LedgerInv /\ EndpointInv /\ TypeOK
        /\ ChanType /\ DispatchType /\ BridgeInv
    BY DEF WayInv, IInv, TypeOK
  <1> DEFINE e == stream_next
             q == chan.rest
             n == Len(said)
  <1>1. /\ chan.queue = <<>> /\ chan.terminal = "sent" /\ q # <<>> /\ e = q[1] /\ e \in Message \cup Ending
        /\ stream_rest.queue = chan.queue /\ stream_rest.rest = Tail(q) /\ stream_rest.terminal = chan.terminal
        /\ stream_rest \in [queue: Seq(Message), reader: BOOLEAN,
                               terminal: {"pending", "sent", "dropped"}, rest: Seq(Message \cup Ending)]
    BY StreamPlaces DEF IsMessage, Message
  <1>2. e.kind \notin Kinds /\ e \in Ending
    BY <1>1 DEF IsMessage, Message
  <1>3. q \in Seq(Message \cup Ending) /\ Closes(q, driver.at = "done" /\ driver.result = "ok")
    BY <1>0 DEF ChanType, ResultInv
  <1>4. /\ Queued(outer') = Queued(outer) /\ outer'.overflow = outer.overflow
        /\ rt'.at = "finished" /\ rt'.result = prefer_pending_bridge_failure(e.kind)
        /\ proxy'.cancel = proxy.cancel
    BY <1>0, FinishKeeps
  <1>5. /\ chan'.queue = <<>> /\ chan'.rest = Tail(q) /\ chan'.terminal = "sent"
    BY <1>1
  <1> HIDE DEF q, e, n
  <1>6. Tail(q) = <<>>
    BY <1>1, <1>2, <1>3, TailKeeps
  <1>7. Hand = <<>> /\ Hand' = <<>> /\ Kept = q /\ Kept' = <<>>
    BY <1>1, <1>4, <1>5, <1>6 DEF Hand, Kept, q
  <1>8. Items(<<>>) = {} /\ Marks(<<>>) = {} /\ Sound(script, n, <<>>)
    BY NothingSaid
  <1>9. Items(q) = {} /\ Marks(q) \subseteq {e.kind}
    <2>1. /\ Items(q) = Of(q[1]) \cup Items(Tail(q))
          /\ Marks(q) = (IF q[1].of = {} THEN {q[1].kind} ELSE {}) \cup Marks(Tail(q))
      BY <1>1, <1>3, HeadSays
    <2>2. Of(e) = {}
      BY <1>2 DEF Of, Ending
    <2>3. QED
      BY <1>1, <1>6, <1>8, <2>1, <2>2
  <1>10. Way' = Way
    BY <1>1, <1>4, <1>5, <1>7, <1>8, <1>9 DEF Way
  <1>11. OrderInv'
    BY <1>0, <1>4, <1>5, <1>7, <1>8, <1>10 DEF OrderInv, n
  <1>12. Recorded' = Recorded /\ Arrived' = Arrived /\ Sent' = Sent /\ Afoot' = Afoot
    BY <1>1, <1>4, <1>5, <1>7, <1>8, <1>9 DEF Recorded, Arrived, Sent, Afoot
  <1>13. GapInv'
    <2>1. ~Flowing'
      BY <1>4 DEF Flowing
    <2>2. ASSUME rt'.result = "ok", ~proxy'.cancel, ~host'.loss, dispatch' # "failed"
          PROVE  driver'.at = "done" /\ driver'.result = "ok" /\ \A i \in DOMAIN said' : i \in Arrived'
      <3>1. e.kind = "ok"
        BY <1>4, <2>2 DEF prefer_pending_bridge_failure
      <3>2. driver.at = "done" /\ driver.result = "ok"
        <4>1. 1 \in DOMAIN q
          BY <1>1, <1>3
        <4>2. QED
          BY <1>1, <1>3, <3>1, <4>1 DEF Closes
      <3>3. dispatch = "persisting" /\ outer.reader
        BY <1>0, <2>2 DEF LedgerInv, BridgeInv, DispatchType
      <3>4. Flowing
        BY <1>4, <2>2, <3>3 DEF Flowing
      <3>5. Passing
        BY <1>0, <1>4, <2>2, <3>3 DEF Passing, CancelInv
      <3>6. \A i \in DOMAIN said : i \in Afoot
        BY <1>0, <3>2, <3>4, <3>5 DEF GapInv, ResultInv
      <3>7. Queued(inner) = <<>>
        BY <1>0, <1>1 DEF EndpointInv, KeepInv
      <3>8. Afoot = Arrived
        BY <1>1, <1>7, <1>8, <1>9, <3>7 DEF Afoot, Sent
      <3>9. QED
        BY <1>12, <3>2, <3>6, <3>8
    <2>3. QED
      BY <1>11, <1>12, <2>1, <2>2, GapStep
  <1>14. AccountInv'
    <2>1. \A kind \in Kinds : kind \in Known => kind \in Known'
      BY <1>1, <1>2, <1>4, <1>5, <1>7, <1>8, <1>9 DEF Known
    <2>2. QED
      BY <1>11, <1>12, <2>1, AccountStep
  <1>15. QED
    BY <1>11, <1>13, <1>14

\* A step of the remote task leaves no gap, and loses nothing unknown.
LEMMA RemoteEvents ==
    ASSUME WayInv, RemoteStart \/ RemoteStep, IInv', BridgeInv', CancelInv', ResultInv'
    PROVE  OrderInv' /\ GapInv' /\ AccountInv'
  <1>0. /\ TypeOK /\ TypeOK' /\ RemoteInv /\ ChanType /\ EpType /\ Onward
    BY RemoteOnward DEF WayInv, IInv, TypeOK
  <1>1. /\ UNCHANGED <<script, trouble, said, driver, inner, stop, dispatch, log, closer, cutter>> /\ RemoteCases
    BY RemoteSteps DEF capsule, callers
  <1>2. ASSUME Hand' = Hand \/ (Hand' = <<>> /\ Broken'), chan'.queue = chan.queue, Kept' = Kept,
               Queued(outer') = Queued(outer), outer'.overflow = outer.overflow, outer'.emitted = outer.emitted,
               rt'.at = "finished" => rt'.result # "ok"
        PROVE  OrderInv' /\ GapInv' /\ AccountInv'
    <2>1. Quiet
      BY <1>1, <1>2 DEF Quiet
    <2>2. QED
      BY <1>0, <1>1, <1>2, <2>1, QuietKeeps
  <1>3. ASSUME NEW result, NEW loss \in BOOLEAN, finish(result, loss), result # "ok"
        PROVE  /\ Queued(outer') = Queued(outer) /\ outer'.overflow = outer.overflow
               /\ outer'.emitted = outer.emitted /\ rt'.at = "finished" /\ rt'.result # "ok"
               /\ (result = "lost" => rt'.result = "lost") /\ Hand' = <<>>
    <2>1. /\ Queued(outer') = Queued(outer) /\ outer'.overflow = outer.overflow
          /\ outer'.emitted = outer.emitted /\ rt'.at = "finished"
          /\ rt'.result = prefer_pending_bridge_failure(result)
      BY <1>0, <1>3, FinishKeeps
    <2>2. QED
      BY <1>3, <2>1 DEF prefer_pending_bridge_failure, Hand
  <1>4. CASE /\ rt.at \notin {"bridging", "finished"} /\ rt'.at \notin {"bridging", "finished"}
             /\ UNCHANGED <<chan, outer>>
             /\ ep' = ep \/ (ep' = [ep EXCEPT !.at = "reserved"] /\ rt.at = "starting")
    <2>1. Hand' = Hand
      BY <1>4 DEF Hand
    <2>2. Kept' = Kept
      <3>1. CASE ep' = ep
        BY <1>4, <3>1 DEF Kept, Held
      <3>2. CASE ep' = [ep EXCEPT !.at = "reserved"] /\ rt.at = "starting"
        <4>1. ep.at = "none" /\ ep'.at = "reserved" /\ ep'.metadata = ep.metadata
          BY <1>0, <3>2 DEF RemoteInv, EpType
        <4>2. QED
          BY <1>4, <4>1 DEF Kept, Held
      <3>3. QED
        BY <1>4, <3>1, <3>2
    <2>3. QED
      BY <1>2, <1>4, <2>1, <2>2
  <1>5. CASE /\ rt.at \in {"starting", "start_cancelled"} /\ UNCHANGED <<ep, chan, host>>
             /\ \E result \in {"lost", "run_closed", "cancelled"}, loss \in BOOLEAN : finish(result, loss)
    <2>1. Hand = <<>> /\ Kept' = Kept
      BY <1>5 DEF Hand, Kept, Held
    <2>2. QED
      BY <1>2, <1>3, <1>5, <2>1
  <1>6. CASE /\ Reading /\ chan' = [chan EXCEPT !.reader = FALSE] /\ UNCHANGED <<ep, host>>
             /\ \E loss \in BOOLEAN : finish("lost", loss)
    <2>1. chan'.queue = chan.queue /\ chan'.rest = chan.rest /\ chan'.terminal = chan.terminal
      BY <1>0, <1>6 DEF ChanType
    <2>2. Kept' = Kept
      BY <1>6, <2>1 DEF Kept, Held
    <2>3. /\ Queued(outer') = Queued(outer) /\ outer'.overflow = outer.overflow
          /\ outer'.emitted = outer.emitted /\ rt'.at = "finished" /\ rt'.result = "lost" /\ Hand' = <<>>
      BY <1>3, <1>6
    <2>4. Broken'
      BY <2>3 DEF Broken
    <2>5. QED
      BY <1>2, <2>1, <2>2, <2>3, <2>4
  <1>7. CASE /\ rt.at = "reading" /\ StreamReady /\ ~StreamEnds /\ ~IsMessage(stream_next)
             /\ finish(stream_next.kind, FALSE) /\ chan' = [stream_rest EXCEPT !.reader = FALSE]
             /\ UNCHANGED <<ep, host>>
    BY <1>0, <1>1, <1>7, EndingEvents
  <1>8. CASE /\ rt.at = "reading" /\ StreamReady /\ ~StreamEnds /\ IsMessage(stream_next)
             /\ chan' = stream_rest /\ UNCHANGED <<ep, host>>
             /\ \E end : SendsOuter(stream_next, end) /\ bridged(end, stream_next)
    <2>1. stream_next \in Message /\ Taken(stream_next)
      BY <1>8, StreamTaken
    <2>2. Handed(stream_next)
      BY <1>8, <2>1, Hands
    <2>3. QED
      BY <1>0, <1>1, <2>1, <2>2, TakenEvents
  <1>9. CASE /\ rt.at = "bridging" /\ UNCHANGED <<ep, chan, host>>
             /\ \E end : SendsOuter(rt.event, end) /\ end.how # "wait" /\ bridged(end, rt.event)
    <2>1. rt.event \in Message /\ Taken(rt.event)
      BY <1>9, HandTaken
    <2>2. Handed(rt.event)
      BY <1>9, <2>1, Hands
    <2>3. QED
      BY <1>0, <1>1, <2>1, <2>2, TakenEvents
  <1>10. QED
    BY <1>1, <1>4, <1>5, <1>6, <1>7, <1>8, <1>9 DEF RemoteCases

-----------------------------------------------------------------------------
(* The steps of the dispatch and of the calls. *)

\* Only the dispatch touches what is on its way.
LEMMA CallerSteps ==
    ASSUME WayInv, CallerStep
    PROVE  /\ UNCHANGED <<script, trouble, said, driver, inner, ep, chan, rt>>
           /\ proxy'.registered = proxy.registered
           /\ \/ UNCHANGED <<outer, dispatch, log>>
              \/ /\ Persist /\ UNCHANGED <<proxy, host, stop, closer, cutter>>
              \/ /\ PersistFails /\ UNCHANGED <<log, host, stop, closer, cutter>>
                 /\ proxy' = [proxy EXCEPT !.cancel = @ \/ proxy.registered]
  <1>1. UNCHANGED <<script, trouble, said, driver, inner, ep, chan, rt>>
    BY CallerTypes DEF WayInv
  <1>2. ProxyType
    BY DEF WayInv, IInv, TypeOK
  <1>3. proxy'.registered = proxy.registered
    BY <1>2 DEF CallerStep, ForwardLoss, DispatchStep, Interrupt, Persist, PersistFails, BeginClose,
       CloserStep, CloseCall, CompleteClose, WaitRun, Disconnect, DisconnectCloses, ProxyType
  <1>4. \/ UNCHANGED <<outer, dispatch, log>>
        \/ /\ Persist /\ UNCHANGED <<proxy, host, stop, closer, cutter>>
        \/ /\ PersistFails /\ UNCHANGED <<log, host, stop, closer, cutter>>
           /\ proxy' = [proxy EXCEPT !.cancel = @ \/ proxy.registered]
    <2>1. CASE Persist
      BY <2>1 DEF Persist, capsule, callers
    <2>2. CASE PersistFails
      BY <2>2 DEF PersistFails, capsule, callers
    <2>3. CASE ~Persist /\ ~PersistFails
      BY <2>3 DEF CallerStep, ForwardLoss, DispatchStep, Interrupt, BeginClose,
         CloserStep, CloseCall, CompleteClose, WaitRun, Disconnect, DisconnectCloses
    <2>4. QED
      BY <2>1, <2>2, <2>3
  <1>5. QED
    BY <1>1, <1>3, <1>4

\* What the dispatch takes, and what it leaves.
LEMMA Takes ==
    ASSUME WayInv
    PROVE  LET got == received(outer, Batch)
               r == recv_many(outer, Batch)
           IN  /\ got \in Seq(Message) /\ r \in Bridge /\ r.open = outer.open
               /\ Items(Queued(outer)) = Items(got) \cup Items(Queued(r))
               /\ Marks(Queued(outer)) \subseteq Marks(got) \cup Marks(Queued(r))
               /\ Sound(script, Len(said), got) /\ Sound(script, Len(said), Queued(r))
               /\ Before(script, Items(got), Items(Queued(r)))
               /\ r.overflow = outer.overflow /\ r.side_active = outer.side_active
               /\ r.reader = outer.reader /\ r.emitted = outer.emitted \cup Marks(got)
               /\ r.side # <<>> => outer.side # <<>>
               /\ got = <<>> => /\ Queued(outer) = <<>> /\ Queued(r) = <<>>
                                /\ outer.overflow \subseteq outer.emitted
  <1>1. outer \in Bridge /\ Sound(script, Len(said), Queued(outer)) /\ Batch \in Nat \ {0}
    BY StreamAssumption DEF WayInv, IInv, TypeOK, OuterType, OrderInv
  <1>2. QED
    BY <1>1, Receives, ReceiveType

\* A caller's step keeps the signals in order.
LEMMA CallerSignals ==
    ASSUME WayInv, CallerStep
    PROVE  BridgeInv' /\ CancelInv' /\ KeepInv' /\ ResultInv' /\ LedgerInv'
  <1> DEFINE got == received(outer, Batch)
             r == recv_many(outer, Batch)
  <1>0. /\ BridgeInv /\ CancelInv /\ KeepInv /\ ResultInv /\ LedgerInv /\ Onward
        /\ EndpointInv /\ RemoteInv /\ CloseInv /\ DisconnectInv
        /\ HostType /\ StopType /\ ProxyType /\ DispatchType /\ EpType /\ CloserType /\ CutterType
    BY CallerOnward DEF WayInv, IInv, TypeOK
  <1>1. /\ UNCHANGED <<script, trouble, said, driver, inner, ep, chan, rt>>
        /\ proxy'.registered = proxy.registered
        /\ \/ UNCHANGED <<outer, dispatch, log>>
           \/ /\ Persist /\ UNCHANGED <<proxy, host, stop, closer, cutter>>
           \/ /\ PersistFails /\ UNCHANGED <<log, host, stop, closer, cutter>>
              /\ proxy' = [proxy EXCEPT !.cancel = @ \/ proxy.registered]
    BY CallerSteps
  <1>2. /\ got \in Seq(Message) /\ r \in Bridge /\ r.open = outer.open
        /\ r.overflow = outer.overflow /\ r.side_active = outer.side_active
        /\ r.reader = outer.reader /\ r.emitted = outer.emitted \cup Marks(got)
        /\ r.side # <<>> => outer.side # <<>>
        /\ got = <<>> => /\ Queued(outer) = <<>> /\ Queued(r) = <<>>
                         /\ outer.overflow \subseteq outer.emitted
    BY Takes
  <1>3. /\ Persist => /\ outer' = r /\ log' = log \o got /\ dispatch = "persisting"
                      /\ dispatch' = (IF got = <<>> THEN "persisted" ELSE "persisting") /\ Ready(outer)
        /\ PersistFails => /\ outer' = [r EXCEPT !.reader = FALSE] /\ dispatch' = "failed"
    BY DEF Persist, PersistFails
  <1> HIDE DEF got, r
  <1>4. BridgeInv'
    <2>1. inner'.reader /\ Sided(inner', stop'.cancel)
      BY <1>0, <1>1 DEF BridgeInv, Sided, Onward
    <2>2. CASE UNCHANGED <<outer, dispatch, log>>
      BY <1>0, <1>1, <2>1, <2>2 DEF BridgeInv, Sided, Onward
    <2>3. CASE Persist
      <3>1. /\ outer'.side_active = outer.side_active /\ outer'.reader = outer.reader /\ outer'.open = outer.open
            /\ outer'.side # <<>> => outer.side # <<>>
        BY <1>2, <1>3, <2>3
      <3>2. dispatch' # "failed" /\ dispatch # "failed"
        BY <1>3, <2>3
      <3>3. QED
        BY <1>0, <1>1, <2>1, <3>1, <3>2 DEF BridgeInv, Sided, Onward
    <2>4. CASE PersistFails
      <3>1. /\ outer'.side_active = outer.side_active /\ ~outer'.reader /\ outer'.open = outer.open
            /\ outer'.side # <<>> => outer.side # <<>>
        BY <1>2, <1>3, <2>4 DEF Bridge
      <3>2. dispatch' = "failed"
        BY <1>3, <2>4
      <3>3. QED
        BY <1>0, <1>1, <2>1, <3>1, <3>2 DEF BridgeInv, Sided, Onward
    <2>5. QED
      BY <1>1, <2>2, <2>3, <2>4
  <1>5. CancelInv'
    <2> DEFINE Told == /\ host'.command => host.command \/ (Active /\ (closer.at = "call" \/ cutter.at = "lock"))
                       /\ host'.closed => host.closed \/ (Active => host'.command)
                       /\ host.closed => host'.closed
               Cut == cutter'.at = "runner" => host'.closed \/ cutter.at = "runner"
               Stopped == stop'.cancel =>
                            stop.cancel \/ (Driving /\ (closer.at = "runner" \/ cutter.at = "runner"))
    <2>1. Told /\ Cut /\ Stopped
      <3>1. CASE UNCHANGED <<host, stop, cutter>>
        BY <3>1
      <3>2. CASE CloseCall
        <4>1. UNCHANGED <<host, stop>> \/ (closer.at = "call" /\ local_close_begins /\ UNCHANGED stop)
              \/ (closer.at = "runner" /\ local_close_runner /\ UNCHANGED host)
          BY <3>2 DEF CloseCall
        <4>2. UNCHANGED cutter
          BY <3>2 DEF CloseCall
        <4>3. Told
          BY <1>0, <4>1 DEF local_close_begins, HostType
        <4>4. Stopped
          BY <1>0, <4>1 DEF local_close_runner, StopType
        <4>5. QED
          BY <4>2, <4>3, <4>4
      <3>3. CASE Disconnect
        <4>1. host'.command = host.command /\ host'.closed = host.closed /\ cutter'.at = "lock" /\ stop' = stop
          BY <1>0, <3>3 DEF Disconnect, HostType, CutterType, capsule
        <4>2. QED
          BY <4>1
      <3>4. CASE DisconnectCloses
        <4>1. \/ UNCHANGED <<host, stop>> /\ cutter' = [cutter EXCEPT !.at = "returned"]
              \/ /\ cutter.at = "lock" /\ local_close_begins /\ UNCHANGED stop
                 /\ cutter' = [cutter EXCEPT !.at = "runner", !.waits = TRUE]
              \/ /\ cutter.at = "runner" /\ local_close_runner /\ UNCHANGED host
                 /\ cutter' = [cutter EXCEPT !.at = "wait"]
          BY <3>4 DEF DisconnectCloses
        <4>2. Told
          BY <1>0, <4>1 DEF local_close_begins, HostType
        <4>3. Stopped
          BY <1>0, <4>1 DEF local_close_runner, StopType
        <4>4. Cut
          BY <1>0, <4>1 DEF local_close_begins, HostType, CutterType
        <4>5. QED
          BY <4>2, <4>3, <4>4
      <3>5. QED
        BY <3>1, <3>2, <3>3, <3>4 DEF CallerStep, ForwardLoss, DispatchStep, Interrupt, Persist, PersistFails,
           BeginClose, CloserStep, CompleteClose, WaitRun, capsule, callers
    <2>2. /\ closer'.at # "idle" => closer.at # "idle" \/ (proxy'.run_closed /\ (proxy.registered => proxy'.cancel))
          /\ proxy.run_closed => proxy'.run_closed
      BY <1>0 DEF CallerStep, ForwardLoss, DispatchStep, Interrupt, Persist, PersistFails, BeginClose,
         CloserStep, CloseCall, CompleteClose, WaitRun, Disconnect, DisconnectCloses, ProxyType,
         CloserType, capsule, callers
    <2>3. Active' = Active /\ (Driving => Active)
      BY <1>0, <1>1 DEF Active, Driving, EndpointInv, EpType
    <2>4. closer'.at # "idle" => proxy'.run_closed /\ (proxy'.cancel \/ rt'.at \in {"idle", "refused", "finished"})
      BY <1>0, <1>1, <2>2 DEF CancelInv, Onward
    <2>5. host'.command => proxy'.cancel \/ host'.loss \/ ~outer'.reader \/ rt'.at = "finished"
      <3>1. CASE host.command
        BY <1>0, <1>1, <3>1 DEF CancelInv, Onward
      <3>2. CASE Active /\ closer.at = "call"
        <4>1. rt.at \notin {"idle", "refused"}
          BY <1>0, <3>2 DEF RemoteInv, Active
        <4>2. QED
          BY <1>0, <1>1, <3>2, <4>1 DEF CancelInv, Onward
      <3>3. CASE cutter.at = "lock"
        BY <1>0, <3>3 DEF DisconnectInv, Onward
      <3>4. QED
        BY <2>1, <3>1, <3>2, <3>3
    <2>6. Active' /\ host'.closed => host'.command
      BY <1>0, <2>1, <2>3 DEF CancelInv, Onward
    <2>7. cutter'.at = "runner" => host'.closed
      BY <1>0, <2>1 DEF CancelInv
    <2>8. stop'.cancel => ep'.gone \/ ep'.cancelled \/ host'.command
      <3>1. CASE stop.cancel
        BY <1>0, <3>1 DEF CancelInv, Onward
      <3>2. CASE Driving /\ (closer.at = "runner" \/ cutter.at = "runner")
        BY <1>0, <2>3, <3>2 DEF CancelInv, CloseInv, Onward
      <3>3. QED
        BY <2>1, <3>1, <3>2
    <2>9. QED
      BY <1>0, <1>1, <2>4, <2>5, <2>6, <2>7, <2>8 DEF CancelInv, Onward
  <1>6. KeepInv' /\ ResultInv'
    BY <1>0, <1>1 DEF KeepInv, ResultInv
  <1>7. LedgerInv'
    <2>1. CASE UNCHANGED <<outer, dispatch, log>>
      BY <1>0, <1>1, <2>1 DEF LedgerInv
    <2>2. CASE Persist
      <3>1. log \in Seq(Message)
        BY <1>0 DEF DispatchType
      <3>2. Marks(log') = Marks(log) \cup Marks(got)
        <4>1. /\ log \o got \in Seq(Message)
              /\ Items(log \o got) = Items(log) \cup Items(got)
              /\ Marks(log \o got) = Marks(log) \cup Marks(got)
              /\ Sound(script, Len(said), log \o got) <=>
                   Sound(script, Len(said), log) /\ Sound(script, Len(said), got) /\ Before(script, Items(log), Items(got))
              /\ Mute(log \o got) <=> Mute(log) /\ Mute(got)
          BY <1>2, <3>1, RowSays
        <4>2. QED
          BY <1>3, <2>2, <4>1
      <3>3. outer'.emitted \subseteq Marks(log')
        BY <1>0, <1>2, <1>3, <2>2, <3>2 DEF LedgerInv
      <3>4. ASSUME dispatch' = "persisted"
            PROVE  rt'.at = "finished" /\ Queued(outer') = <<>> /\ outer'.overflow \subseteq outer'.emitted
        <4>1. got = <<>>
          BY <1>3, <2>2, <3>4
        <4>2. ~outer.open
          BY <1>2, <1>3, <2>2, <4>1 DEF Ready
        <4>3. QED
          BY <1>0, <1>1, <1>2, <1>3, <2>2, <4>1, <4>2 DEF BridgeInv
      <3>5. QED
        BY <3>3, <3>4 DEF LedgerInv
    <2>3. CASE PersistFails
      BY <1>3, <2>3 DEF LedgerInv
    <2>4. QED
      BY <1>1, <2>1, <2>2, <2>3
  <1>8. QED
    BY <1>4, <1>5, <1>6, <1>7

\* A caller's step leaves no gap, and loses nothing unknown.
LEMMA CallerEvents ==
    ASSUME WayInv, CallerStep, TypeOK', CancelInv', LedgerInv'
    PROVE  OrderInv' /\ GapInv' /\ AccountInv'
  <1> DEFINE got == received(outer, Batch)
             r == recv_many(outer, Batch)
             n == Len(said)
             w == Way
             v == Way'
  <1>0. /\ OrderInv /\ GapInv /\ LedgerInv /\ Onward /\ DispatchType
    BY CallerOnward DEF WayInv, IInv, TypeOK
  <1>1. /\ UNCHANGED <<script, trouble, said, driver, inner, ep, chan, rt>>
        /\ \/ UNCHANGED <<outer, dispatch, log>>
           \/ /\ Persist /\ UNCHANGED <<proxy, host, stop, closer, cutter>>
           \/ /\ PersistFails /\ UNCHANGED <<log, host, stop, closer, cutter>>
    BY CallerSteps
  <1>2. /\ got \in Seq(Message) /\ r \in Bridge
        /\ Items(Queued(outer)) = Items(got) \cup Items(Queued(r))
        /\ Marks(Queued(outer)) \subseteq Marks(got) \cup Marks(Queued(r))
        /\ Sound(script, n, got) /\ Sound(script, n, Queued(r))
        /\ Before(script, Items(got), Items(Queued(r)))
        /\ r.overflow = outer.overflow
        /\ got = <<>> => Queued(outer) = <<>> /\ Queued(r) = <<>>
    BY Takes
  <1>3. /\ Persist => /\ outer' = r /\ log' = log \o got /\ dispatch = "persisting"
                      /\ dispatch' = (IF got = <<>> THEN "persisted" ELSE "persisting")
        /\ PersistFails => /\ outer' = [r EXCEPT !.reader = FALSE] /\ dispatch' = "failed"
    BY DEF Persist, PersistFails
  <1> HIDE DEF got, r
  <1>4. Hand' = Hand /\ Kept' = Kept /\ log \in Seq(Message)
    BY <1>0, <1>1 DEF Hand, Kept, Held, DispatchType
  <1>5. /\ w[1] = Items(log) /\ w[2] = Items(Queued(outer)) /\ w[3] = Items(Hand)
        /\ w[4] = Items(chan.queue) /\ w[5] = Items(Kept) /\ w[6] = Items(Queued(inner))
    BY WayPlaces
  <1>6. /\ v[1] = Items(log') /\ v[2] = Items(Queued(outer')) /\ v[3] = Items(Hand')
        /\ v[4] = Items(chan'.queue) /\ v[5] = Items(Kept') /\ v[6] = Items(Queued(inner'))
    BY DEF Way
  <1>7. Sorted(script, w)
    BY <1>0 DEF OrderInv
  <1>8. CASE UNCHANGED <<outer, dispatch, log>>
    <2>1. Quiet
      BY <1>1, <1>4, <1>8 DEF Quiet
    <2>2. QED
      BY <1>0, <1>1, <1>8, <2>1, QuietKeeps
  <1>9. CASE Persist
    <2>1. /\ Items(log') = Items(log) \cup Items(got) /\ Marks(log') = Marks(log) \cup Marks(got)
          /\ Sound(script, n, log') <=> /\ Sound(script, n, log) /\ Sound(script, n, got)
                                        /\ Before(script, Items(log), Items(got))
      <3>1. /\ log \o got \in Seq(Message)
            /\ Items(log \o got) = Items(log) \cup Items(got)
            /\ Marks(log \o got) = Marks(log) \cup Marks(got)
            /\ Sound(script, Len(said), log \o got) <=>
                 Sound(script, Len(said), log) /\ Sound(script, Len(said), got) /\ Before(script, Items(log), Items(got))
            /\ Mute(log \o got) <=> Mute(log) /\ Mute(got)
        BY <1>2, <1>4, RowSays
      <3>2. QED
        BY <1>3, <1>9, <3>1
    <2>2. Before(script, Items(log), Items(Queued(outer)))
      <3> HIDE DEF w
      <3>1. QED
        BY <1>5, <1>7 DEF Sorted
    <2>3. Before(script, Items(log), Items(got)) /\ Before(script, Items(log'), Items(Queued(r)))
      BY <1>2, <2>1, <2>2 DEF Before
    <2>4. Sorted(script, v)
      <3> HIDE DEF w, v
      <3>1. v[1] \cup v[2] \subseteq w[1] \cup w[2] /\ Before(script, v[1], v[2])
        BY <1>2, <1>3, <1>5, <1>6, <1>9, <2>1, <2>3
      <3>2. \A i \in 1..6 : i # 1 /\ i # 2 => v[i] \subseteq w[i]
        BY <1>1, <1>4, <1>5, <1>6
      <3>3. \A i \in 1..6 : 1 < i /\ i < 2 => w[i] = {}
        OBVIOUS
      <3>4. 1 \in 1..6 /\ 2 \in 1..6 /\ 1 < 2
        OBVIOUS
      <3>5. QED
        BY <1>7, <3>1, <3>2, <3>3, <3>4, Moves
    <2>5. OrderInv'
      BY <1>0, <1>1, <1>2, <1>3, <1>4, <1>9, <2>1, <2>3, <2>4 DEF OrderInv
    <2>6. Arrived' = Arrived
      BY <1>2, <1>3, <1>9, <2>1 DEF Arrived
    <2>7. Sent' = Sent /\ Afoot' = Afoot
      BY <1>1, <1>4, <2>6 DEF Sent, Afoot
    <2>8. Recorded' = Recorded \/ dispatch' = "persisting"
      BY <1>3, <1>9, <2>1, NothingSaid DEF Recorded
    <2>9. Flowing' => Flowing
      BY SignalsOnward, <1>0
    <2>10. GapInv'
      <3>1. Passing' => Passing
        BY SignalsOnward, <1>0
      <3>2. Flowing' /\ Passing' => \A i \in DOMAIN said' : said'[i].how = "ok" => i \in Afoot'
        BY <1>0, <1>1, <2>7, <2>9, <3>1 DEF GapInv
      <3>3. rt'.at = "finished" /\ rt'.result = "ok" /\ ~proxy'.cancel /\ ~host'.loss /\ dispatch' # "failed" =>
              driver'.at = "done" /\ driver'.result = "ok" /\ \A i \in DOMAIN said' : i \in Arrived'
        <4>1. dispatch # "failed"
          BY <1>3, <1>9
        <4>2. QED
          BY <1>0, <1>1, <1>9, <2>6, <4>1 DEF GapInv, Onward
      <3>4. QED
        BY <1>0, <1>1, <2>5, <2>6, <2>7, <2>8, <3>2, <3>3, GapStep
    <2>11. AccountInv'
      <3>1. Known \subseteq Known'
        BY <1>1, <1>2, <1>3, <1>4, <1>9, <2>1 DEF Known
      <3>2. QED
        BY <1>0, <1>1, <2>5, <2>7, <3>1, AccountStep
    <2>12. QED
      BY <2>5, <2>10, <2>11
  <1>10. CASE PersistFails
    <2>1. Queued(outer') = Queued(r) /\ log' = log /\ dispatch' = "failed"
      BY <1>1, <1>2, <1>3, <1>10 DEF Queued, Bridge, Persist
    <2>2. Sorted(script, v)
      <3> HIDE DEF w, v
      <3>1. \A i \in 1..6 : v[i] \subseteq w[i]
        BY <1>1, <1>2, <1>4, <1>5, <1>6, <2>1
      <3>2. QED
        BY <1>7, <3>1, Thins
    <2>3. OrderInv'
      BY <1>0, <1>1, <1>2, <1>4, <2>1, <2>2 DEF OrderInv
    <2>4. Broken' /\ ~Flowing' /\ Recorded' = Recorded
      BY <2>1 DEF Broken, Flowing, Recorded
    <2>5. GapInv'
      BY <1>0, <1>1, <2>1, <2>3, <2>4, GapStep
    <2>6. AccountInv'
      BY <1>0, <1>1, <2>3, <2>4, AccountStep
    <2>7. QED
      BY <2>3, <2>5, <2>6
  <1>11. QED
    BY <1>1, <1>8, <1>9, <1>10

-----------------------------------------------------------------------------
(* The theorems. *)

\* Nothing is on its way at first, and nothing is cancelled.
LEMMA WayInit == Init => WayInv
  <1> SUFFICES ASSUME Init
               PROVE  WayInv
    OBVIOUS
  <1> DEFINE n == Len(said)
  <1>0. IInv
    BY InitInv
  <1>1. /\ said = <<>> /\ log = <<>> /\ chan.queue = <<>> /\ chan.rest = <<>> /\ chan.terminal = "pending"
        /\ ep.at = "none" /\ rt.at = "idle" /\ ep.metadata = NoMetadata /\ ~ep.gone /\ ~ep.cancelled
        /\ chan.reader /\ driver.at = "off"
    BY DEF Init
  <1>2. /\ Queued(outer) = <<>> /\ Queued(inner) = <<>> /\ outer.overflow = {} /\ inner.overflow = {}
        /\ outer.emitted = {} /\ inner.emitted = {} /\ outer.open /\ outer.reader /\ inner.reader
        /\ outer.side = <<>> /\ inner.side = <<>> /\ ~outer.side_active /\ ~inner.side_active
    <2>1. inner = durable_event_channel /\ outer = durable_event_channel
      BY DEF Init
    <2>2. <<>> \o <<>> = <<>>
      OBVIOUS
    <2>3. QED
      BY <2>1, <2>2 DEF durable_event_channel, Queued
  <1>3. Items(<<>>) = {} /\ Marks(<<>>) = {} /\ Sound(script, n, <<>>)
    BY NothingSaid
  <1>4. Hand = <<>> /\ Items(Kept) = {} /\ Sound(script, n, Kept)
    <2>1. Held = <<>> /\ Hand = <<>>
      BY <1>1 DEF Held, Hand
    <2>2. Items(Retained(NoMetadata)) = {} /\ Sound(script, n, Retained(NoMetadata))
      BY NoneRetained
    <2>3. Before(script, {}, {})
      BY DEF Before
    <2>4. TypeOK /\ InHand
      BY <1>0 DEF IInv
    <2>5. QED
      BY <1>1, <1>3, <2>1, <2>2, <2>3, <2>4, KeptSays
  <1>5. Len(said) = 0 /\ DOMAIN said = {} /\ 1..0 = {}
    BY <1>1
  <1>6. OrderInv
    <2>1. Sorted(script, Way)
      <3>1. \A i \in 1..6 : Way[i] = {}
        BY <1>1, <1>2, <1>3, <1>4, WayPlaces
      <3>2. QED
        BY <3>1 DEF Sorted, Before
    <2>2. Len(said) <= Len(script)
      <3>1. Len(script) \in Nat
        BY <1>0 DEF IInv, TypeOK, ScriptType
      <3>2. QED
        BY <1>5, <3>1
    <2>3. QED
      BY <1>1, <1>2, <1>3, <1>4, <2>1, <2>2 DEF OrderInv
  <1>7. BridgeInv
    BY <1>1, <1>2 DEF BridgeInv, Sided, Init
  <1>8. CancelInv
    BY <1>1 DEF CancelInv, Init, Active
  <1>9. KeepInv
    BY <1>1, <1>2 DEF KeepInv, Mute, NoMetadata
  <1>10. ResultInv
    BY <1>1 DEF ResultInv, Closes
  <1>11. GapInv
    BY <1>1, <1>5 DEF GapInv, NoGap
  <1>12. AccountInv
    BY <1>2, <1>5 DEF AccountInv
  <1>13. LedgerInv
    BY <1>2 DEF LedgerInv, Init
  <1>14. QED
    BY <1>0, <1>6, <1>7, <1>8, <1>9, <1>10, <1>11, <1>12, <1>13 DEF WayInv

\* Every step keeps what is said of the way.
LEMMA WayStep ==
    ASSUME WayInv, [Next]_vars
    PROVE  WayInv'
  <1>1. IInv'
    BY Inductive DEF WayInv
  <1>2. TypeOK'
    BY <1>1 DEF IInv
  <1>3. CASE DriverStep
    <2>1. BridgeInv' /\ CancelInv' /\ KeepInv' /\ ResultInv' /\ LedgerInv'
      BY <1>3, DriverSignals
    <2>2. OrderInv' /\ GapInv' /\ AccountInv'
      BY <1>2, <1>3, <2>1, DriverEvents
    <2>3. QED
      BY <1>1, <2>1, <2>2 DEF WayInv
  <1>4. CASE EndpointStep
    <2>1. BridgeInv' /\ CancelInv' /\ KeepInv' /\ ResultInv' /\ LedgerInv'
      BY <1>4, EndpointSignals
    <2>2. OrderInv' /\ GapInv' /\ AccountInv'
      BY <1>1, <1>4, <2>1, EndpointEvents
    <2>3. QED
      BY <1>1, <2>1, <2>2 DEF WayInv
  <1>5. CASE RemoteStart \/ RemoteStep
    <2>1. BridgeInv' /\ CancelInv' /\ KeepInv' /\ ResultInv' /\ LedgerInv'
      BY <1>5, RemoteSignals
    <2>2. OrderInv' /\ GapInv' /\ AccountInv'
      BY <1>1, <1>5, <2>1, RemoteEvents
    <2>3. QED
      BY <1>1, <2>1, <2>2 DEF WayInv
  <1>6. CASE CallerStep
    <2>1. BridgeInv' /\ CancelInv' /\ KeepInv' /\ ResultInv' /\ LedgerInv'
      BY <1>6, CallerSignals
    <2>2. OrderInv' /\ GapInv' /\ AccountInv'
      BY <1>2, <1>6, <2>1, CallerEvents
    <2>3. QED
      BY <1>1, <2>1, <2>2 DEF WayInv
  <1>7. CASE UNCHANGED vars
    <2>1. Hand' = Hand /\ Kept' = Kept /\ Way' = Way
      BY <1>7 DEF vars, Hand, Held, Kept, Way
    <2>2. /\ Recorded' = Recorded /\ Arrived' = Arrived /\ Sent' = Sent /\ Afoot' = Afoot /\ Known' = Known
          /\ Flowing' = Flowing /\ Passing' = Passing /\ Broken' = Broken /\ Active' = Active
      BY <1>7, <2>1 DEF vars, Recorded, Arrived, Sent, Afoot, Known, Flowing, Passing, Broken, Active
    <2>3. OrderInv'
      BY <1>7, <2>1 DEF WayInv, vars, OrderInv
    <2>4. BridgeInv' /\ CancelInv'
      BY <1>7, <2>2 DEF WayInv, vars, BridgeInv, CancelInv
    <2>5. KeepInv' /\ ResultInv' /\ LedgerInv'
      BY <1>7 DEF WayInv, vars, KeepInv, ResultInv, LedgerInv
    <2>6. GapInv'
      BY <1>7, <2>2 DEF WayInv, vars, GapInv
    <2>7. AccountInv'
      BY <1>7, <2>2 DEF WayInv, vars, AccountInv
    <2>8. QED
      BY <1>1, <2>3, <2>4, <2>5, <2>6, <2>7 DEF WayInv
  <1>8. QED
    BY <1>3, <1>4, <1>5, <1>6, <1>7, Steps

\* In every behaviour what the driver said is on its way in order, the output that got past a
\* place is the beginning of it, and metadata that is nowhere on its way is known to be missing.
THEOREM WayInvariant == Spec => []WayInv
  <1>1. WayInv /\ [Next]_vars => WayInv'
    BY WayStep
  <1>2. QED
    BY <1>1, WayInit, PTL DEF Spec

\* The log reports an item in at most one event, and only usage with another item.
LEMMA LogReports ==
    ASSUME WayInv
    PROVE  /\ \A i \in DOMAIN said : Logged(i) # {} <=> i \in Items(log)
           /\ \A i, j \in DOMAIN said : \A n \in Logged(i), m \in Logged(j) :
                 /\ m < n => Less(script, j, i)
                 /\ m = n /\ script[i] # "usage" => i = j
                 /\ m \in Nat /\ n \in Nat
  <1>0. OrderInv /\ SaidType /\ log \in Seq(Message)
    BY DEF WayInv, IInv, TypeOK, DispatchType
  <1>1. \A i \in DOMAIN said : i # 0
    BY <1>0 DEF SaidType
  <1>2. \A i \in DOMAIN said : \A n \in DOMAIN log : n \in Logged(i) <=> i \in Of(log[n])
    BY <1>1 DEF Logged, Of
  <1>3. \A i \in DOMAIN said : Logged(i) \subseteq DOMAIN log
    BY DEF Logged
  <1>4. Ordered(script, log) /\ Valid(script, Len(said), log)
    BY <1>0 DEF OrderInv, Sound
  <1>5. \A i \in DOMAIN said : Logged(i) # {} <=> i \in Items(log)
    BY <1>2, <1>3 DEF Items
  <1>6. DOMAIN log \subseteq Nat
    BY <1>0
  <1>7. ASSUME NEW i \in DOMAIN said, NEW j \in DOMAIN said, NEW n \in Logged(i), NEW m \in Logged(j)
        PROVE  /\ m < n => Less(script, j, i)
               /\ m = n /\ script[i] # "usage" => i = j
               /\ m \in Nat /\ n \in Nat
    <2>1. n \in DOMAIN log /\ m \in DOMAIN log /\ i \in Of(log[n]) /\ j \in Of(log[m])
      BY <1>2, <1>3
    <2>2. m < n => Less(script, j, i)
      BY <1>4, <2>1 DEF Ordered, Before
    <2>3. m = n /\ script[i] # "usage" => i = j
      BY <1>4, <2>1 DEF Valid, Genuine
    <2>4. QED
      BY <1>6, <2>1, <2>2, <2>3
  <1>8. QED
    BY <1>5, <1>7

\* Once all is delivered every item is in the log, or nowhere.
LEMMA AllDelivered ==
    ASSUME WayInv, Delivered
    PROVE  /\ Arrived = Items(log) /\ Known = Marks(log) /\ ~Broken
           /\ said # <<>> => Afoot = Items(log) /\ inner.overflow \subseteq inner.emitted
  <1>0. /\ KeepInv /\ ResultInv /\ LedgerInv /\ EndpointInv /\ RemoteInv /\ InHand
    BY DEF WayInv, IInv
  <1>1. rt.at = "finished" /\ dispatch = "persisted" /\ rt.result # "lost"
    BY DEF Delivered, Settled
  <1>2. Queued(outer) = <<>> /\ outer.overflow \subseteq Marks(log) /\ Hand = <<>> /\ chan.queue = <<>>
    BY <1>0, <1>1 DEF LedgerInv, Hand, ResultInv
  <1>3. Items(<<>>) = {} /\ Marks(<<>>) = {}
    BY NothingSaid
  <1>4. ~Broken
    BY <1>1 DEF Broken
  <1>5. Arrived = Items(log)
    BY <1>2, <1>3 DEF Arrived
  <1>6. Items(Kept) = {} /\ Marks(Kept) = {}
    <2>1. CASE ep.at = "none"
      <3>1. Items(Retained(NoMetadata)) = {} /\ Marks(Retained(NoMetadata)) = {}
        BY NoneRetained
      <3>2. chan.terminal = "pending" /\ ep.metadata = NoMetadata /\ Held = <<>>
        BY <1>0, <2>1 DEF EndpointInv, KeepInv, Held
      <3>3. TypeOK /\ InHand
        BY DEF WayInv, IInv
      <3>4. QED
        BY <1>3, <3>1, <3>2, <3>3, KeptSays
    <2>2. CASE ep.at # "none"
      BY <1>0, <1>1, <1>3, <2>2 DEF ResultInv, Kept
    <2>3. QED
      BY <2>1, <2>2
  <1>7. Known = Marks(log)
    BY <1>2, <1>3, <1>6 DEF Known
  <1>8. ASSUME said # <<>>
        PROVE  Afoot = Items(log) /\ inner.overflow \subseteq inner.emitted
    <2>1. ep.at # "none"
      BY <1>0, <1>8 DEF KeepInv, EndpointInv
    <2>2. ep.at = "done"
      BY <1>0, <1>1, <2>1 DEF ResultInv, EndpointInv
    <2>3. Queued(inner) = <<>> /\ inner.overflow \subseteq inner.emitted
      BY <1>0, <2>2 DEF KeepInv
    <2>4. QED
      BY <1>2, <1>3, <1>5, <1>6, <2>3 DEF Afoot, Sent
  <1>9. QED
    BY <1>4, <1>5, <1>7, <1>8

\* The log has the beginning of the driver's output, and its errors, in order; a success that was
\* neither cancelled nor cut off has all of it.
THEOREM OutputIsWhole == Spec => []OutputHasNoGaps
  <1>1. ASSUME WayInv PROVE OutputHasNoGaps
    <2>0. GapInv /\ SaidType /\ ScriptType
      BY <1>1 DEF WayInv, IInv, TypeOK
    <2>1. /\ \A i \in DOMAIN said : Logged(i) # {} <=> i \in Items(log)
          /\ \A i, j \in DOMAIN said : \A n \in Logged(i), m \in Logged(j) :
                /\ m < n => Less(script, j, i)
                /\ m = n /\ script[i] # "usage" => i = j
                /\ m \in Nat /\ n \in Nat
      BY <1>1, LogReports
    <2>2. DOMAIN said = 1..Len(said) /\ Len(said) \in Nat
      BY <2>0 DEF SaidType
    <2>3. ASSUME NEW i \in DOMAIN said, NEW j \in DOMAIN said, i < j, script[i] = script[j],
                 script[i] # "usage"
          PROVE  /\ script[j] = "output" /\ Logged(j) # {} => Logged(i) # {}
                 /\ \A n \in Logged(i), m \in Logged(j) : n < m
      <3>1. script[j] = "output" /\ Logged(j) # {} => Logged(i) # {}
        BY <2>0, <2>1, <2>2, <2>3 DEF GapInv, NoGap, Recorded
      <3>2. ASSUME NEW n \in Logged(i), NEW m \in Logged(j)
            PROVE  n < m
        <4>1. /\ m < n => Less(script, j, i)
              /\ m = n => i = j
              /\ m \in Nat /\ n \in Nat
          BY <2>1, <2>3
        <4>2. i # j /\ ~(j < i)
          BY <2>2, <2>3
        <4>3. m < n => j < i
          BY <2>3, <4>1 DEF Less
        <4>4. ~(m < n) /\ m # n
          BY <4>1, <4>2, <4>3
        <4>5. QED
          BY <4>1, <4>4
      <3>3. QED
        BY <3>1, <3>2
    <2>4. ASSUME Delivered, rt.result = "ok", ~proxy.cancel, ~host.loss
          PROVE  driver.result = "ok" /\ \A i \in DOMAIN said : Logged(i) # {}
      <3>1. rt.at = "finished" /\ dispatch = "persisted"
        BY <2>4 DEF Delivered, Settled
      <3>2. driver.result = "ok" /\ \A i \in DOMAIN said : i \in Arrived
        BY <2>0, <2>4, <3>1 DEF GapInv
      <3>3. Arrived = Items(log)
        BY <1>1, <2>4, AllDelivered
      <3>4. QED
        BY <2>1, <3>2, <3>3
    <2>5. QED
      BY <2>3, <2>4 DEF OutputHasNoGaps
  <1>2. QED
    BY <1>1, WayInvariant, PTL

\* Every usage report and every error a driver had is in the log once, or the log says that some
\* are missing.
THEOREM MetadataHasAccount == Spec => []MetadataIsAccounted
  <1>1. ASSUME WayInv PROVE MetadataIsAccounted
    <2>0. AccountInv /\ SaidType /\ ScriptType /\ OrderInv /\ log \in Seq(Message) /\ LedgerInv
      BY <1>1 DEF WayInv, IInv, TypeOK, DispatchType
    <2>1. /\ \A i \in DOMAIN said : Logged(i) # {} <=> i \in Items(log)
          /\ \A i, j \in DOMAIN said : \A n \in Logged(i), m \in Logged(j) :
                /\ m < n => Less(script, j, i)
                /\ m = n /\ script[i] # "usage" => i = j
                /\ m \in Nat /\ n \in Nat
      BY <1>1, LogReports
    <2>2. ASSUME NEW i \in DOMAIN said
          PROVE  Cardinality(Logged(i)) <= 1
      <3>1. ASSUME NEW n \in Logged(i), NEW m \in Logged(i)
            PROVE  n = m
        <4>1. n \in Nat /\ m \in Nat /\ (m < n => Less(script, i, i)) /\ (n < m => Less(script, i, i))
          BY <2>1
        <4>2. ~(m < n) /\ ~(n < m)
          BY <4>1 DEF Less
        <4>3. QED
          BY <4>1, <4>2
      <3>2. CASE Logged(i) = {}
        <4>1. Cardinality(Logged(i)) = 0
          BY <3>2, FS_EmptySet
        <4>2. QED
          BY <4>1
      <3>3. CASE Logged(i) # {}
        <4>1. PICK n : n \in Logged(i)
          BY <3>3
        <4>2. Logged(i) = {n}
          BY <3>1, <4>1
        <4>3. Cardinality({n}) = 1
          BY FS_Singleton
        <4>4. QED
          BY <4>2, <4>3
      <3>4. QED
        BY <3>2, <3>3
    <2>3. ASSUME Delivered, NEW i \in DOMAIN said, script[i] # "output"
          PROVE  Logged(i) # {} \/ Marked(script[i])
      <3>1. said # <<>>
        BY <2>3
      <3>2. /\ Known = Marks(log) /\ ~Broken /\ Afoot = Items(log) /\ inner.overflow \subseteq inner.emitted
        BY <1>1, <2>3, <3>1, AllDelivered
      <3>3. i \in Items(log) \/ script[i] \in Marks(log)
        BY <2>0, <2>3, <3>2 DEF AccountInv
      <3>4. ASSUME NEW kind \in Marks(log) PROVE Marked(kind)
        <4>1. PICK n \in DOMAIN log : log[n].of = {} /\ log[n].kind = kind
          BY <3>4 DEF Marks
        <4>2. log[n] \in Message
          BY <2>0
        <4>3. log[n] = [kind |-> log[n].kind, of |-> log[n].of]
          BY <4>2 DEF Message
        <4>4. log[n] = Incomplete(kind)
          BY <4>1, <4>3 DEF Incomplete, Event
        <4>5. QED
          BY <4>4 DEF Marked
      <3>5. QED
        BY <2>1, <3>3, <3>4
    <2>4. QED
      BY <2>2, <2>3 DEF MetadataIsAccounted
  <1>2. QED
    BY <1>1, WayInvariant, PTL
=============================================================================
