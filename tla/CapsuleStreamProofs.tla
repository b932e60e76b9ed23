------------------------ MODULE CapsuleStreamProofs ------------------------
(***************************************************************************)
(* Proofs about CapsuleStream for every script, every capacity and every   *)
(* disturbance: who may still be driving once an execution was given up,   *)
(* closed or disconnected.                                                 *)
(***************************************************************************)
EXTENDS CapsuleStream, TLAPS

-----------------------------------------------------------------------------
(* The values the variables take. *)

Message == [kind: Kinds, of: SUBSET Nat]
Endings == {"ok", "failed", "cancelled", "run_closed", "unconfirmed"}
Ending == [kind: Endings, of: {{}}]

Bridge == [main: Seq(Message), side: Seq(Message), side_active: BOOLEAN,
           overflow: SUBSET {"usage", "error"}, emitted: SUBSET Kinds,
           open: BOOLEAN, reader: BOOLEAN]
Hows == {"ok", "cancelled", "closed", "overflow", "wait"}
Metadata == [usage: SUBSET Nat, errors: Seq(Message), incomplete: BOOLEAN, overflowed: BOOLEAN,
             usage_overflowed: BOOLEAN, diagnostics_incomplete: BOOLEAN]

ScriptType == script \in Seq(Kinds) /\ trouble \subseteq Disturbances
SaidType == said \in Seq([how: Hows, final: BOOLEAN])
DriverType == driver \in [at: {"off", "on", "waiting", "done"}, final: BOOLEAN,
                          result: {"none", "ok", "detail", "cancelled", "unconfirmed"}]
InnerType == inner \in Bridge
StopType == stop \in [cancel: BOOLEAN, closed: BOOLEAN]
EpType == ep \in [at: {"none", "reserved", "serving", "forwarding", "done"}, gone: BOOLEAN,
                  cancelled: BOOLEAN, event: Message \cup {NoEvent}, metadata: Metadata]
HostType == host \in [closed: BOOLEAN, command: BOOLEAN, loss: BOOLEAN]
ChanType == chan \in [queue: Seq(Message), reader: BOOLEAN,
                      terminal: {"pending", "sent", "dropped"}, rest: Seq(Message \cup Ending)]
RtType == rt \in [at: {"idle", "refused", "starting", "start_cancelled", "reading", "bridging",
                       "cancelling", "withdrawing", "finished"},
                  closing: BOOLEAN, cancellation_handled: BOOLEAN, pending: BOOLEAN,
                  event: Message \cup {NoEvent}, result: Endings \cup {"none", "lost"}]
ProxyType == proxy \in [registered: BOOLEAN, run_closed: BOOLEAN, cancel: BOOLEAN,
                        closing: BOOLEAN, closed: BOOLEAN, loss: BOOLEAN]
OuterType == outer \in Bridge
DispatchType == dispatch \in {"persisting", "persisted", "failed"} /\ log \in Seq(Message)
CloserType == closer \in [at: {"idle", "call", "runner", "wait", "closed", "failed", "settling",
                               "returned"}, ok: BOOLEAN, waits: BOOLEAN]
CutterType == cutter \in [at: {"idle", "lock", "runner", "wait", "returned"}, waits: BOOLEAN]

TypeOK ==
    /\ ScriptType /\ SaidType /\ DriverType /\ InnerType /\ StopType /\ EpType /\ HostType
    /\ ChanType /\ RtType /\ ProxyType /\ OuterType /\ DispatchType /\ CloserType /\ CutterType

-----------------------------------------------------------------------------
(* The inductive invariant. *)

Reading == rt.at \in {"reading", "bridging", "cancelling", "withdrawing"}

\* What the endpoint's task, the driver, the bridge between them and the stream say of each other.
EndpointInv ==
    /\ ep.at \in {"none", "reserved"} => driver.at = "off"
    /\ ep.at \in {"serving", "forwarding"} => driver.at # "off"
    /\ ep.at = "done" => driver.at \in {"off", "done"}
    /\ ~inner.open => driver.at = "done"
    /\ driver.at = "done" => driver.result # "none"
    /\ chan.terminal = "pending" <=> ep.at # "done"
    /\ chan.terminal # "sent" => chan.rest = <<>>

\* Nothing is reserved before the remote task was answered, and what it reads was reserved.
RemoteInv ==
    /\ rt.at \in {"idle", "refused", "starting", "start_cancelled"} => ep.at = "none"
    /\ Reading => ep.at # "none"

\* An event in hand is one; a script's item that waits exists.
InHand ==
    /\ ep.at = "forwarding" => ep.event \in Message
    /\ rt.at = "bridging" => rt.event \in Message
    /\ driver.at = "waiting" => Item <= Len(script)

\* A stream that was ended is read to its terminal event, and that event tells of an
\* unconfirmed cleanup.
EndingInv ==
    /\ chan.terminal = "sent" /\ Reading =>
         chan.rest # <<>> /\ chan.rest[Len(chan.rest)].kind \notin Kinds
    /\ driver.at = "done" /\ driver.result = "unconfirmed" =>
         \A i \in DOMAIN chan.rest : chan.rest[i].kind \in Kinds \cup {"unconfirmed"}

\* A close that was confirmed, and what it is confirmed from.
CloseInv ==
    /\ proxy.closed => Lost \/ closer.ok
    /\ closer.at \in {"runner", "wait"} => host.closed /\ (Active => closer.waits)
    /\ closer.ok => host.closed /\ ~Active

DisconnectInv ==
    /\ cutter.at # "idle" => host.loss
    /\ cutter.at \in {"runner", "wait"} => cutter.waits
    /\ cutter.at = "returned" => ~Active

IInv == TypeOK /\ EndpointInv /\ RemoteInv /\ InHand /\ EndingInv /\ CloseInv /\ DisconnectInv
        /\ OwnsUntilCleanedUp

-----------------------------------------------------------------------------
(* What the calls of the bridge return. *)

\* The smaller of two lengths.
LEMMA MinOfTwo ==
    ASSUME NEW a \in Nat, NEW b \in Nat
    PROVE  Min({a, b}) \in Nat /\ Min({a, b}) <= a /\ Min({a, b}) <= b
           /\ Min({a, b}) \in {a, b}
  <1>1. \E x \in {a, b} : \A y \in {a, b} : x <= y
    <2>1. CASE a <= b
      BY <2>1
    <2>2. CASE b <= a
      BY <2>2
    <2>3. QED
      BY <2>1, <2>2
  <1>2. Min({a, b}) \in {a, b} /\ \A y \in {a, b} : Min({a, b}) <= y
    BY <1>1 DEF Min
  <1>3. QED
    BY <1>2

\* A piece of a sequence of messages is one.
LEMMA SubSeqType ==
    ASSUME NEW S, NEW s \in Seq(S), NEW m \in Nat, NEW n \in Nat, 1 <= m, n <= Len(s)
    PROVE  SubSeq(s, m, n) \in Seq(S)
  OBVIOUS

\* Two sequences in a row.
LEMMA ConcatType ==
    ASSUME NEW S, NEW a \in Seq(S), NEW b \in Seq(S)
    PROVE  a \o b \in Seq(S) /\ Len(a \o b) = Len(a) + Len(b) /\ Len(a \o b) \in Nat
  <1>1. Len(a) \in Nat /\ Len(b) \in Nat
    OBVIOUS
  <1>2. a \o b \in Seq(S)
    OBVIOUS
  <1>3. Len(a \o b) = Len(a) + Len(b)
    OBVIOUS
  <1>4. QED
    BY <1>1, <1>2, <1>3

\* The first element of two sequences in a row.
LEMMA ConcatHead ==
    ASSUME NEW S, NEW a \in Seq(S), NEW b \in Seq(S), a # <<>>
    PROVE  Head(a \o b) = a[1] /\ a[1] \in S
  <1>1. Len(a) \in Nat /\ Len(a) # 0
    OBVIOUS
  <1>2. (a \o b)[1] = a[1] /\ a \o b \in Seq(S) /\ a \o b # <<>>
    BY <1>1
  <1>3. QED
    BY <1>1, <1>2

\* The last element survives the removal of another one.
LEMMA TailLast ==
    ASSUME NEW S, NEW s \in Seq(S), s # <<>>, Len(s) # 1
    PROVE  Tail(s) # <<>> /\ Tail(s)[Len(Tail(s))] = s[Len(s)]
  <1>1. Len(s) \in Nat /\ Len(s) # 0
    OBVIOUS
  <1>2. Tail(s) \in Seq(S) /\ Len(Tail(s)) = Len(s) - 1
    OBVIOUS
  <1>a. \A n \in Nat : n # 0 /\ n # 1 => n - 1 \in 1..n - 1 /\ n - 1 # 0 /\ n - 1 + 1 = n
    OBVIOUS
  <1>3. Len(s) - 1 \in 1..Len(s) - 1 /\ Len(s) - 1 # 0
    BY <1>1, <1>a
  <1>4. \A i \in 1..Len(s) - 1 : Tail(s)[i] = s[i + 1]
    OBVIOUS
  <1>5. Tail(s)[Len(s) - 1] = s[Len(s) - 1 + 1] /\ Len(s) - 1 + 1 = Len(s)
    BY <1>1, <1>a, <1>3, <1>4
  <1>6. Tail(s) # <<>>
    <2>1. Len(Tail(s)) # 0
      BY <1>2, <1>3
    <2>2. Len(<<>>) = 0
      OBVIOUS
    <2>3. QED
      BY <2>1, <2>2, Zenon
  <1>7. QED
    BY <1>2, <1>5, <1>6

\* Sending leaves a bridge, and never closes it.
LEMMA SendType ==
    ASSUME NEW q \in Bridge, NEW e \in Message, NEW c \in BOOLEAN, NEW end,
           end \in {send(q, e, c), send_terminal(q, e, c), reserve_terminal(q, e, c)}
    PROVE  end.q \in Bridge /\ end.how \in Hows /\ end.q.open = q.open
  <1>1. enqueue(q, e).q \in Bridge /\ enqueue(q, e).how = "ok" /\ enqueue(q, e).q.open = q.open
    <2>1. Append(q.main, e) \in Seq(Message)
      BY DEF Bridge
    <2>2. QED
      BY <2>1 DEF enqueue, Ends, Bridge
  <1>2. ASSUME NEW p \in Bridge, p.open = q.open
        PROVE  /\ try_send_cancelled_terminal(p, e).q \in Bridge
               /\ try_send_cancelled_terminal(p, e).how \in Hows
               /\ try_send_cancelled_terminal(p, e).q.open = q.open
    <2>1. Append(p.side, e) \in Seq(Message)
      BY DEF Bridge
    <2>2. metadata_of(e) \in {"usage", "error"}
      BY DEF metadata_of
    <2>3. [p EXCEPT !.side = Append(p.side, e)] \in Bridge
      BY <2>1 DEF Bridge
    <2>4. [p EXCEPT !.overflow = p.overflow \cup {metadata_of(e)}] \in Bridge
      BY <2>2 DEF Bridge
    <2>5. CASE ~p.reader
      BY <1>2, <2>5 DEF try_send_cancelled_terminal, Ends, Hows
    <2>6. CASE p.reader /\ Len(p.side) < Capacity
      BY <1>2, <2>3, <2>6 DEF try_send_cancelled_terminal, Ends, Hows, Bridge
    <2>7. CASE p.reader /\ ~(Len(p.side) < Capacity)
      BY <1>2, <2>4, <2>7 DEF try_send_cancelled_terminal, Ends, Hows, Bridge
    <2>8. QED
      BY <2>5, <2>6, <2>7
  <1>3. [q EXCEPT !.side_active = TRUE] \in Bridge /\ [q EXCEPT !.side_active = TRUE].open = q.open
    BY DEF Bridge
  <1>4. \A h \in Hows : Ends(h, q).q = q /\ Ends(h, q).how = h
    BY DEF Ends
  <1>5. /\ send(q, e, c).q \in Bridge /\ send(q, e, c).how \in Hows /\ send(q, e, c).q.open = q.open
    BY <1>1, <1>4 DEF send, Hows
  <1>6. /\ reserve_terminal(q, e, c).q \in Bridge /\ reserve_terminal(q, e, c).how \in Hows
        /\ reserve_terminal(q, e, c).q.open = q.open
    BY <1>1, <1>2, <1>3, <1>4 DEF reserve_terminal, Hows
  <1>7. /\ send_terminal(q, e, c).q \in Bridge /\ send_terminal(q, e, c).how \in Hows
        /\ send_terminal(q, e, c).q.open = q.open
    BY <1>1, <1>2, <1>4, <1>6 DEF send_terminal, Hows
  <1>8. QED
    BY <1>5, <1>6, <1>7

\* The marker of a kind is a message, and the queue's content a sequence of them.
LEMMA QueuedType ==
    ASSUME NEW q \in Bridge
    PROVE  /\ Queued(q) \in Seq(Message) /\ overflow_marker(q) \in Seq(Message)
           /\ Len(Queued(q)) \in Nat
           /\ Len(Queued(q)) = Len(q.main) + Len(q.side)
  <1>1. Incomplete("usage") \in Message /\ Incomplete("error") \in Message
    BY DEF Incomplete, Event, Message, Kinds
  <1>2. overflow_marker(q) \in {<<Incomplete("usage")>>, <<Incomplete("error")>>, <<>>}
    BY DEF overflow_marker
  <1>3. overflow_marker(q) \in Seq(Message)
    <2>1. /\ <<Incomplete("usage")>> \in Seq(Message) /\ <<Incomplete("error")>> \in Seq(Message)
          /\ <<>> \in Seq(Message)
      BY <1>1
    <2>2. QED
      BY <1>2, <2>1
  <1>4. q.main \in Seq(Message) /\ q.side \in Seq(Message)
    BY DEF Bridge
  <1>5. /\ q.main \o q.side \in Seq(Message) /\ Len(q.main \o q.side) = Len(q.main) + Len(q.side)
        /\ Len(q.main \o q.side) \in Nat
    BY <1>4, ConcatType
  <1>6. QED
    BY <1>3, <1>5 DEF Queued

\* Receiving takes messages off the queues, at least one when there are any, and leaves a bridge.
LEMMA ReceiveType ==
    ASSUME NEW q \in Bridge, NEW limit \in Nat \ {0}
    PROVE  /\ received(q, limit) \in Seq(Message)
           /\ recv_many(q, limit) \in Bridge
           /\ recv_many(q, limit).open = q.open
           /\ Queued(q) # <<>> => received(q, limit) # <<>>
  <1> DEFINE all == Queued(q)
             got == received(q, limit)
             n == IF Queued(q) = <<>> THEN 0 ELSE Len(got)
             k == Min({n, Len(q.main)})
  <1>a. q.main \in Seq(Message) /\ q.side \in Seq(Message)
    BY DEF Bridge
  <1>b. Len(q.main) \in Nat /\ Len(q.side) \in Nat
    BY <1>a
  <1>c. all \in Seq(Message) /\ Len(all) = Len(q.main) + Len(q.side)
    BY QueuedType
  <1>d. all \in Seq(Message)
    BY <1>c
  <1>1. Len(all) \in Nat
    BY QueuedType
  <1>2. all = <<>> => got \in Seq(Message)
    BY QueuedType DEF received
  <1>3. ASSUME all # <<>>
        PROVE  got \in Seq(Message) /\ got # <<>> /\ Len(got) <= Len(all) /\ Len(got) \in Nat
    <2> HIDE DEF got, all
    <2>1. Len(all) # 0
      BY <1>d, <1>3
    <2> USE DEF got, all
    <2> DEFINE m == Min({limit, Len(all)})
    <2>2. m \in Nat /\ 1 <= m /\ m <= Len(all)
      <3> HIDE DEF all
      <3>1. QED
        BY <1>1, <2>1, MinOfTwo
    <2>3. got = SubSeq(all, 1, m)
      BY <1>3 DEF received
    <2> HIDE DEF m, got, all
    <2>4. SubSeq(all, 1, m) \in Seq(Message) /\ Len(SubSeq(all, 1, m)) = m
      BY <1>d, <2>2
    <2>5. QED
      BY <2>2, <2>3, <2>4
  <1>4. got \in Seq(Message)
    BY <1>2, <1>3
  <1> HIDE DEF got
  <1>5. n \in Nat /\ n <= Len(all)
    BY <1>1, <1>3
  <1> HIDE DEF n, all
  <1>6. k \in Nat /\ k <= n /\ k <= Len(q.main) /\ k \in {n, Len(q.main)}
    BY <1>b, <1>5, MinOfTwo
  <1>7. n - k \in Nat /\ n - k <= Len(q.side)
    <2>1. ASSUME NEW a \in Nat, NEW b \in Nat, NEW i \in Nat, NEW j \in Nat,
                 i <= a + b, j <= i, j \in {i, a}
          PROVE  i - j \in Nat /\ i - j <= b
      BY <2>1
    <2> HIDE DEF k
    <2>2. n <= Len(q.main) + Len(q.side)
      BY <1>c, <1>5
    <2>3. QED
      BY <1>b, <1>5, <1>6, <2>1, <2>2
  <1> HIDE DEF k
  <1>8. SubSeq(q.main, k + 1, Len(q.main)) \in Seq(Message)
    BY <1>a, <1>b, <1>6, SubSeqType
  <1>9. SubSeq(q.side, n - k + 1, Len(q.side)) \in Seq(Message)
    <2>1. n - k + 1 \in Nat /\ 1 <= n - k + 1
      BY <1>7
    <2>2. QED
      BY <1>a, <1>b, <2>1, SubSeqType
  <1> DEFINE p == [q EXCEPT !.main = SubSeq(q.main, k + 1, Len(q.main)),
                            !.side = SubSeq(q.side, n - k + 1, Len(q.side))]
             kinds == {got[i].kind : i \in {j \in DOMAIN got : got[j].of = {}}}
  <1>10. recv_many(q, limit) = [p EXCEPT !.emitted = p.emitted \cup kinds]
    BY DEF recv_many, observe, got, n, k, p
  <1>11. p \in Bridge /\ p.open = q.open
    BY <1>8, <1>9 DEF Bridge
  <1>12. kinds \subseteq Kinds
    <2>1. \A i \in DOMAIN got : got[i] \in Message
      BY <1>4
    <2>2. \A e \in Message : e.kind \in Kinds
      BY DEF Message
    <2>3. QED
      BY <2>1, <2>2
  <1> HIDE DEF p, kinds
  <1>13. recv_many(q, limit) \in Bridge /\ recv_many(q, limit).open = q.open
    BY <1>10, <1>11, <1>12 DEF Bridge
  <1>14. QED
    BY <1>3, <1>4, <1>13 DEF got, all

\* The bridge a run starts with, and one whose sender is gone.
LEMMA BridgeEnds ==
    /\ durable_event_channel \in Bridge /\ durable_event_channel.open
    /\ \A q \in Bridge : /\ sender_dropped(q) \in Bridge
                         /\ ~sender_dropped(q).open
                         /\ mark_diagnostics_incomplete(q) \in Bridge
  <1>1. durable_event_channel \in Bridge /\ durable_event_channel.open
    BY DEF durable_event_channel, Bridge
  <1>2. ASSUME NEW q \in Bridge
        PROVE  /\ sender_dropped(q) \in Bridge /\ ~sender_dropped(q).open
               /\ mark_diagnostics_incomplete(q) \in Bridge
    BY DEF sender_dropped, mark_diagnostics_incomplete, Bridge
  <1>3. QED
    BY <1>1, <1>2

\* A stream that ended has nothing in it and no sender.
LEMMA DrainedType ==
    ASSUME NEW q \in Bridge, Ready(q), received(q, 1) = <<>>
    PROVE  ~q.open
  BY ReceiveType DEF Ready

-----------------------------------------------------------------------------
(* What the endpoint keeps back and sends at the end. *)

\* Whatever is retained, the metadata is well formed.
LEMMA RetainType ==
    ASSUME NEW m \in Metadata, NEW e \in Message
    PROVE  retain(m, e) \in Metadata
  <1>1. e.kind \in Kinds /\ e.of \in SUBSET Nat
    BY DEF Message
  <1>2. CASE e.kind = "usage"
    <2>1. retain(m, e) = retain_usage(m, e.of)
      BY <1>2 DEF retain
    <2>2. /\ [m EXCEPT !.incomplete = TRUE] \in Metadata
          /\ [m EXCEPT !.incomplete = TRUE, !.usage_overflowed = TRUE, !.overflowed = TRUE] \in Metadata
          /\ [m EXCEPT !.usage = m.usage \cup e.of] \in Metadata
      BY <1>1 DEF Metadata
    <2>3. retain_usage(m, e.of) \in {m, [m EXCEPT !.incomplete = TRUE],
               [m EXCEPT !.incomplete = TRUE, !.usage_overflowed = TRUE, !.overflowed = TRUE],
               [m EXCEPT !.usage = m.usage \cup e.of]}
      BY DEF retain_usage
    <2>4. QED
      BY <2>1, <2>2, <2>3
  <1>3. CASE e.kind = "error"
    <2>1. Append(m.errors, e) \in Seq(Message)
      BY DEF Metadata
    <2>2. /\ [m EXCEPT !.errors = Append(m.errors, e)] \in Metadata
          /\ [m EXCEPT !.diagnostics_incomplete = TRUE, !.overflowed = TRUE] \in Metadata
      BY <2>1 DEF Metadata
    <2>3. Len(m.errors) \in Nat /\ Capacity \in Nat
      BY CapacityAssumption DEF Metadata
    <2>4. retain(m, e) \in {[m EXCEPT !.errors = Append(m.errors, e)],
                            [m EXCEPT !.diagnostics_incomplete = TRUE, !.overflowed = TRUE]}
      BY <1>3, <2>3 DEF retain
    <2>5. QED
      BY <2>2, <2>4
  <1>4. CASE e.kind = "output"
    BY <1>4 DEF retain
  <1>5. QED
    BY <1>1, <1>2, <1>3, <1>4 DEF Kinds

\* The terminal events: messages, and one ending behind them that names an unconfirmed cleanup.
LEMMA EndingType ==
    ASSUME NEW m \in Metadata, NEW result \in {"ok", "detail", "cancelled", "unconfirmed",
                                               "run_closed", "failed"}
    PROVE  LET events == into_events(m, result) IN
           /\ events \in Seq(Message \cup Ending)
           /\ events # <<>>
           /\ events[Len(events)].kind \notin Kinds
           /\ result = "unconfirmed" =>
                \A i \in DOMAIN events : events[i].kind \in Kinds \cup {"unconfirmed"}
  <1> DEFINE last == terminal_event(m, result)
             S == Message \cup Ending
             s1 == m.errors
             s2 == Only(m.usage # {}, <<Event("usage", m.usage)>>)
             s3 == Only(m.incomplete, <<Incomplete("usage")>>)
             s4 == Only(m.diagnostics_incomplete, <<Incomplete("error")>>)
             s5 == Only(result = "detail", <<Event("error", {0})>>)
  <1>1. last \in Ending /\ (result = "unconfirmed" => last.kind = "unconfirmed")
    <2>1. m.overflowed \in BOOLEAN
      BY DEF Metadata
    <2>2. CASE result = "unconfirmed"
      BY <2>2 DEF terminal_event, Event, Ending, Endings
    <2>3. CASE result # "unconfirmed" /\ m.overflowed
      BY <2>3 DEF terminal_event, Event, Ending, Endings
    <2>4. CASE result = "detail" /\ ~m.overflowed
      BY <2>4 DEF terminal_event, Event, Ending, Endings
    <2>5. CASE result \in {"ok", "cancelled", "run_closed", "failed"} /\ ~m.overflowed
      BY <2>5 DEF terminal_event, Event, Ending, Endings
    <2>6. QED
      BY <2>1, <2>2, <2>3, <2>4, <2>5
  <1>2. /\ Event("usage", m.usage) \in Message /\ Incomplete("usage") \in Message
        /\ Incomplete("error") \in Message /\ Event("error", {0}) \in Message
    BY DEF Event, Incomplete, Message, Kinds, Metadata
  <1>3. /\ s1 \in Seq(Message) /\ s2 \in Seq(Message) /\ s3 \in Seq(Message)
        /\ s4 \in Seq(Message) /\ s5 \in Seq(Message)
    BY <1>2 DEF Only, Metadata
  <1> DEFINE all == s1 \o s2 \o s3 \o s4 \o s5
  <1>4. into_events(m, result) = all \o <<last>>
    BY DEF into_events
  <1> HIDE DEF s1, s2, s3, s4, s5, last
  <1>5. all \in Seq(Message)
    BY <1>3
  <1> HIDE DEF all
  <1> DEFINE events == all \o <<last>>
  <1>6. Len(events) = Len(all) + 1 /\ events[Len(events)] = last /\ Len(all) \in Nat
    BY <1>5
  <1>7. \A i \in 1..Len(all) : events[i] = all[i] /\ all[i] \in Message
    BY <1>5
  <1>8. events \in Seq(S)
    BY <1>1, <1>5
  <1>9. last.kind \in Endings /\ last.kind \notin Kinds
    BY <1>1 DEF Ending, Endings, Kinds
  <1>10. \A i \in DOMAIN events : i \in 1..Len(all) \/ i = Len(events)
    BY <1>6, <1>8
  <1>11. \A x \in Message : x.kind \in Kinds
    BY DEF Message
  <1> HIDE DEF events
  <1>12. result = "unconfirmed" =>
                \A i \in DOMAIN events : events[i].kind \in Kinds \cup {"unconfirmed"}
    BY <1>1, <1>6, <1>7, <1>10, <1>11
  <1>13. events # <<>>
    BY <1>6
  <1>14. QED
    BY <1>4, <1>6, <1>8, <1>9, <1>12, <1>13 DEF events

-----------------------------------------------------------------------------
(* Type correctness. *)

\* The driver's steps keep the types.
LEMMA DriverTypes ==
    ASSUME IInv, DriverStep
    PROVE  SaidType' /\ DriverType' /\ InnerType' /\ inner'.open = (driver'.at # "done" /\ inner.open)
           /\ UNCHANGED <<script, trouble, stop, ep, host, chan, rt, proxy, outer, dispatch, log,
                          callers>>
  <1>1. /\ script \in Seq(Kinds) /\ said \in Seq([how: Hows, final: BOOLEAN])
        /\ inner \in Bridge /\ stop.cancel \in BOOLEAN /\ driver.final \in BOOLEAN
    BY DEF IInv, TypeOK, ScriptType, SaidType, InnerType, StopType, DriverType
  <1>2. driver \in [at: {"off", "on", "waiting", "done"}, final: BOOLEAN,
                    result: {"none", "ok", "detail", "cancelled", "unconfirmed"}]
    BY DEF IInv, TypeOK, DriverType
  <1>3. Item \in Nat \ {0}
    BY <1>1 DEF Item
  <1>4. ASSUME Item <= Len(script) PROVE Saying \in Message
    <2>1. script[Item] \in Kinds
      BY <1>1, <1>3, <1>4
    <2>2. QED
      BY <1>3, <2>1 DEF Saying, Event, Message
  <1>5. ASSUME NEW end, goes_on(end), end.q \in Bridge, end.how \in Hows, end.q.open = inner.open
        PROVE  SaidType' /\ DriverType' /\ InnerType' /\ inner'.open = (driver'.at # "done" /\ inner.open)
    <2>1. inner' = end.q /\ inner'.open \in BOOLEAN
      BY <1>5 DEF goes_on, Bridge
    <2>2. DriverType' /\ driver'.at # "done"
      BY <1>2, <1>5 DEF goes_on, DriverType
    <2>3. SaidType'
      <3>1. [how |-> end.how, final |-> Terminal] \in [how: Hows, final: BOOLEAN]
        BY <1>1, <1>5 DEF Terminal
      <3>2. said' \in {said, Append(said, [how |-> end.how, final |-> Terminal])}
        BY <1>5 DEF goes_on
      <3>3. Append(said, [how |-> end.how, final |-> Terminal]) \in Seq([how: Hows, final: BOOLEAN])
        BY <1>1, <3>1
      <3>4. QED
        BY <1>1, <3>2, <3>3 DEF SaidType
    <2>4. QED
      BY <1>5, <2>1, <2>2, <2>3 DEF InnerType
  <1>6. CASE Emit
    <2>1. Item <= Len(script) /\ Saying \in Message
      BY <1>4, <1>6 DEF Emit
    <2> DEFINE end == IF Terminal THEN send_terminal(inner, Saying, stop.cancel)
                      ELSE send(inner, Saying, stop.cancel)
    <2>2. end.q \in Bridge /\ end.how \in Hows /\ end.q.open = inner.open
      BY <1>1, <2>1, SendType
    <2>3. goes_on(end)
      BY <1>6 DEF Emit
    <2> HIDE DEF end
    <2>4. QED
      BY <1>5, <1>6, <2>2, <2>3 DEF Emit
  <1>7. CASE EmitWaits
    <2>1. Item <= Len(script) /\ Saying \in Message
      BY <1>4, <1>7 DEF EmitWaits, IInv, InHand
    <2> DEFINE end == IF Terminal THEN reserve_terminal(inner, Saying, stop.cancel)
                      ELSE send(inner, Saying, stop.cancel)
    <2>2. end.q \in Bridge /\ end.how \in Hows /\ end.q.open = inner.open
      BY <1>1, <2>1, SendType
    <2>3. goes_on(end)
      BY <1>7 DEF EmitWaits
    <2> HIDE DEF end
    <2>4. QED
      BY <1>5, <1>7, <2>2, <2>3 DEF EmitWaits
  <1>8. CASE ReportGivesUp
    <2>1. /\ said' = Append(said, [how |-> "overflow", final |-> FALSE])
          /\ inner' = sender_dropped(mark_diagnostics_incomplete(inner))
          /\ driver' = [driver EXCEPT !.at = "done", !.result = "unconfirmed"]
      BY <1>8 DEF ReportGivesUp
    <2>2. SaidType'
      BY <1>1, <2>1 DEF SaidType, Hows
    <2>3. InnerType' /\ inner'.open = FALSE
      BY <1>1, <2>1, BridgeEnds DEF InnerType, Bridge
    <2>4. DriverType' /\ driver'.at = "done"
      BY <1>2, <2>1 DEF DriverType
    <2>5. QED
      BY <1>8, <2>2, <2>3, <2>4 DEF ReportGivesUp
  <1>9. CASE DriverReturns
    <2>1. inner' = sender_dropped(inner) /\ said' = said
      BY <1>9 DEF DriverReturns
    <2>2. SaidType'
      BY <1>1, <2>1 DEF SaidType
    <2>3. InnerType' /\ inner'.open = FALSE
      BY <1>1, <2>1, BridgeEnds DEF InnerType, Bridge
    <2>4. DriverType' /\ driver'.at = "done"
      BY <1>2, <1>9 DEF DriverReturns, DriverType
    <2>5. QED
      BY <1>9, <2>2, <2>3, <2>4 DEF DriverReturns
  <1>10. QED
    BY <1>6, <1>7, <1>8, <1>9 DEF DriverStep

\* Forwarding an event keeps the types of the endpoint's task, the stream and the stop signal.
LEMMA ForwardTypes ==
    ASSUME IInv, NEW e \in Message, ep.at \in {"serving", "forwarding"}, forward(e)
    PROVE  /\ EpType' /\ ChanType' /\ StopType'
           /\ ep'.at \in {"serving", "forwarding"}
           /\ ep'.at = "forwarding" => ep'.event \in Message
           /\ chan'.terminal = chan.terminal /\ chan'.rest = chan.rest
  <1>1. EpType /\ ChanType /\ StopType
    BY DEF IInv, TypeOK
  <1>2. retain(ep.metadata, e) \in Metadata
    BY <1>1, RetainType DEF EpType
  <1>3. NoEvent \in Message \cup {NoEvent} /\ e \in Message \cup {NoEvent}
    OBVIOUS
  <1>4. Append(chan.queue, e) \in Seq(Message)
    BY <1>1 DEF ChanType
  <1>a. \/ chan' = chan
        \/ chan' = [chan EXCEPT !.queue = Append(chan.queue, e)]
    BY DEF forward
  <1>b. ChanType' /\ chan'.terminal = chan.terminal /\ chan'.rest = chan.rest
    <2>1. CASE chan' = chan
      BY <1>1, <2>1 DEF ChanType
    <2>2. CASE chan' = [chan EXCEPT !.queue = Append(chan.queue, e)]
      BY <1>1, <1>4, <2>2 DEF ChanType
    <2>3. QED
      BY <1>a, <2>1, <2>2
  <1>c. StopType'
    BY <1>1 DEF forward, StopType
  <1>5. \/ ep' = [ep EXCEPT !.at = "serving"]
        \/ ep' = [ep EXCEPT !.at = "serving", !.cancelled = TRUE, !.event = NoEvent,
                            !.metadata = retain(ep.metadata, e)]
        \/ ep' = [ep EXCEPT !.at = "serving", !.gone = TRUE, !.event = NoEvent]
        \/ ep' = [ep EXCEPT !.at = "serving", !.event = NoEvent]
        \/ ep' = [ep EXCEPT !.at = "forwarding", !.event = e]
    BY DEF forward
  <1>6. /\ EpType' /\ ep'.at \in {"serving", "forwarding"}
        /\ ep'.at = "forwarding" => ep'.event \in Message
    <2>1. CASE ep' = [ep EXCEPT !.at = "serving"]
      BY <1>1, <2>1 DEF EpType
    <2>2. CASE ep' = [ep EXCEPT !.at = "serving", !.cancelled = TRUE, !.event = NoEvent,
                                !.metadata = retain(ep.metadata, e)]
      BY <1>1, <1>2, <1>3, <2>2 DEF EpType
    <2>3. CASE ep' = [ep EXCEPT !.at = "serving", !.gone = TRUE, !.event = NoEvent]
      BY <1>1, <1>2, <1>3, <2>3 DEF EpType
    <2>4. CASE ep' = [ep EXCEPT !.at = "serving", !.event = NoEvent]
      BY <1>1, <1>2, <1>3, <2>4 DEF EpType
    <2>5. CASE ep' = [ep EXCEPT !.at = "forwarding", !.event = e]
      BY <1>1, <1>2, <1>3, <2>5 DEF EpType
    <2>6. QED
      BY <1>5, <2>1, <2>2, <2>3, <2>4, <2>5
  <1>7. QED
    BY <1>b, <1>c, <1>6

\* The endpoint's steps keep the types.
LEMMA EndpointTypes ==
    ASSUME IInv, EndpointStep
    PROVE  /\ DriverType' /\ InnerType' /\ StopType' /\ EpType' /\ ChanType'
           /\ inner'.open = inner.open
           /\ UNCHANGED <<script, trouble, said, host, rt, proxy, outer, dispatch, log, callers>>
  <1>1. /\ DriverType /\ InnerType /\ StopType /\ EpType /\ ChanType
    BY DEF IInv, TypeOK
  <1>2. NoMetadata \in Metadata
    BY DEF NoMetadata, Metadata
  <1>3. CASE StartReserved
    <2>1. DriverType' /\ EpType'
      BY <1>1, <1>3 DEF StartReserved, DriverType, EpType
    <2>2. ChanType'
      <3>1. CASE chan' = chan
        BY <1>1, <3>1 DEF ChanType
      <3>2. ASSUME NEW result \in {"cancelled", "run_closed", "failed"},
                   chan' = [chan EXCEPT !.terminal = "sent", !.rest = into_events(NoMetadata, result)]
            PROVE  ChanType'
        <4>1. into_events(NoMetadata, result) \in Seq(Message \cup Ending)
          BY <1>2, EndingType
        <4>2. QED
          BY <1>1, <3>2, <4>1 DEF ChanType
      <3>3. QED
        BY <1>3, <3>1, <3>2 DEF StartReserved
    <2>3. QED
      BY <1>1, <1>3, <2>1, <2>2 DEF StartReserved, InnerType, StopType
  <1>4. CASE LocalOutput
    <2>1. /\ inner' = recv_many(inner, 1) /\ forward(received(inner, 1)[1])
          /\ ep.at = "serving" /\ received(inner, 1) # <<>>
      BY <1>4 DEF LocalOutput
    <2>2. received(inner, 1) \in Seq(Message) /\ recv_many(inner, 1) \in Bridge
          /\ recv_many(inner, 1).open = inner.open
      BY <1>1, ReceiveType DEF InnerType
    <2>3. received(inner, 1)[1] \in Message
      BY <2>1, <2>2
    <2>4. EpType' /\ ChanType' /\ StopType'
      BY <2>1, <2>3, ForwardTypes
    <2>5. QED
      BY <1>1, <1>4, <2>1, <2>2, <2>4 DEF LocalOutput, InnerType, DriverType
  <1>5. CASE LocalForward
    <2>1. ep.at = "forwarding" /\ forward(ep.event) /\ ep.event \in Message
      BY <1>5 DEF LocalForward, IInv, InHand
    <2>2. EpType' /\ ChanType' /\ StopType'
      BY <2>1, ForwardTypes
    <2>3. QED
      BY <1>1, <1>5, <2>2 DEF LocalForward, InnerType, DriverType
  <1>6. CASE LocalCancel
    <2>1. EpType' /\ StopType'
      BY <1>1, <1>6 DEF LocalCancel, EpType, StopType
    <2>2. QED
      BY <1>1, <1>6, <2>1 DEF LocalCancel, ChanType, InnerType, DriverType
  <1>7. CASE LocalDone
    <2>1. ep.at = "serving" /\ ~inner.open /\ driver.at = "done"
      BY <1>1, <1>7, DrainedType DEF LocalDone, InnerType, IInv, EndpointInv
    <2>2. chan' = ends_stream
      BY <1>7 DEF LocalDone
    <2>3. ChanType'
      <3>1. CASE ep.gone
        BY <1>1, <2>2, <3>1 DEF ends_stream, ChanType
      <3>2. CASE ~ep.gone /\ driver.result # "none"
        <4>1. into_events(ep.metadata, driver.result) \in Seq(Message \cup Ending)
          BY <1>1, <3>2, EndingType DEF EpType, DriverType
        <4>2. QED
          BY <1>1, <2>2, <3>2, <4>1 DEF ends_stream, ChanType
      <3>3. driver.result # "none"
        BY <2>1 DEF IInv, EndpointInv
      <3>4. QED
        BY <3>1, <3>2, <3>3
    <2>4. EpType'
      BY <1>1, <1>7 DEF LocalDone, EpType
    <2>5. QED
      BY <1>1, <1>7, <2>3, <2>4 DEF LocalDone, capsule, InnerType, DriverType, StopType
  <1>8. QED
    BY <1>3, <1>4, <1>5, <1>6, <1>7 DEF EndpointStep

\* The end of the remote task keeps the types.
LEMMA FinishTypes ==
    ASSUME IInv, NEW result \in Endings \cup {"lost"}, NEW loss \in BOOLEAN, finish(result, loss)
    PROVE  /\ RtType' /\ OuterType' /\ ProxyType'
           /\ rt'.at = "finished" /\ rt'.result = prefer_pending_bridge_failure(result)
           /\ proxy'.closed = proxy.closed /\ (proxy.loss => proxy'.loss)
  <1>1. RtType /\ OuterType /\ ProxyType
    BY DEF IInv, TypeOK
  <1>2. prefer_pending_bridge_failure(result) \in Endings \cup {"lost"}
    BY DEF prefer_pending_bridge_failure, Endings
  <1>3. RtType' /\ rt'.at = "finished" /\ rt'.result = prefer_pending_bridge_failure(result)
    BY <1>1, <1>2 DEF finish, RtType
  <1>4. OuterType'
    BY <1>1, BridgeEnds DEF finish, OuterType
  <1>5. ProxyType' /\ proxy'.closed = proxy.closed /\ (proxy.loss => proxy'.loss)
    BY <1>1 DEF finish, ProxyType
  <1>6. QED
    BY <1>3, <1>4, <1>5

\* So does handing an event to the outer bridge.
LEMMA BridgedTypes ==
    ASSUME IInv, NEW e \in Message, NEW end, end.q \in Bridge, end.how \in Hows, bridged(end, e)
    PROVE  /\ RtType' /\ OuterType' /\ ProxyType'
           /\ rt'.at \in {"reading", "bridging", "withdrawing"}
           /\ rt'.at = "bridging" => rt'.event \in Message
           /\ proxy' = proxy
  <1>1. RtType /\ OuterType /\ ProxyType
    BY DEF IInv, TypeOK
  <1>2. \/ rt' = [rt EXCEPT !.at = "bridging", !.event = e]
        \/ rt' = [rt EXCEPT !.at = "reading", !.event = NoEvent]
        \/ rt' = [rt EXCEPT !.at = "withdrawing", !.event = NoEvent]
    BY DEF bridged, reads
  <1>3. /\ RtType' /\ rt'.at \in {"reading", "bridging", "withdrawing"}
        /\ rt'.at = "bridging" => rt'.event \in Message
    BY <1>1, <1>2 DEF RtType
  <1>4. OuterType' /\ ProxyType' /\ proxy' = proxy
    BY <1>1 DEF bridged, OuterType, ProxyType
  <1>5. QED
    BY <1>3, <1>4

\* What the stream yields next: a message, or an ending that sits in the rest.
LEMMA StreamNext ==
    ASSUME IInv, StreamReady, ~StreamEnds, Reading
    PROVE  /\ stream_next \in Message \cup Ending
           /\ stream_next \in Ending =>
                /\ chan.queue = <<>> /\ chan.terminal = "sent"
                /\ 1 \in DOMAIN chan.rest /\ chan.rest[1] = stream_next
           /\ ChanType /\ [chan EXCEPT !.queue = Tail(@)] = [chan EXCEPT !.queue = Tail(chan.queue)]
           /\ chan.queue # <<>> \/ chan.rest # <<>>
  <1>1. ChanType
    BY DEF IInv, TypeOK
  <1>2. chan.queue \in Seq(Message) /\ chan.rest \in Seq(Message \cup Ending)
    BY <1>1 DEF ChanType
  <1>3. \A e \in Message : e \notin Ending
    BY DEF Message, Ending, Kinds, Endings
  <1>4. CASE chan.queue # <<>>
    <2>a. chan.queue \in Seq(Message \cup Ending)
      BY <1>2
    <2>1. stream_next = chan.queue[1] /\ chan.queue[1] \in Message
      BY <1>2, <1>4, <2>a, ConcatHead DEF stream_next
    <2>2. QED
      BY <1>1, <1>3, <1>4, <2>1
  <1>5. CASE chan.queue = <<>>
    <2>1. chan.terminal = "sent"
      BY <1>1, <1>5 DEF StreamReady, StreamEnds, ChanType
    <2>2. chan.rest # <<>>
      BY <2>1 DEF IInv, EndingInv
    <2>3. chan.queue \o chan.rest = chan.rest
      BY <1>2, <1>5
    <2>4. stream_next = chan.rest[1] /\ chan.rest[1] \in Message \cup Ending /\ 1 \in DOMAIN chan.rest
      BY <1>2, <2>2, <2>3 DEF stream_next
    <2>5. QED
      BY <1>1, <1>5, <2>1, <2>2, <2>4
  <1>6. QED
    BY <1>4, <1>5

\* Taking it off keeps the stream's type.
LEMMA StreamRest ==
    ASSUME IInv, StreamReady, ~StreamEnds, Reading
    PROVE  /\ stream_rest \in [queue: Seq(Message), reader: BOOLEAN,
                               terminal: {"pending", "sent", "dropped"}, rest: Seq(Message \cup Ending)]
           /\ stream_rest.terminal = chan.terminal
           /\ chan.queue # <<>> => stream_rest.rest = chan.rest
           /\ chan.queue = <<>> => stream_rest.rest = Tail(chan.rest) /\ chan.rest # <<>>
  <1>1. chan.queue # <<>> \/ chan.rest # <<>>
    BY StreamNext
  <1>2. ChanType
    BY DEF IInv, TypeOK
  <1>3. CASE chan.queue # <<>>
    <2>1. Tail(chan.queue) \in Seq(Message)
      BY <1>2, <1>3 DEF ChanType
    <2>2. QED
      BY <1>2, <1>3, <2>1 DEF stream_rest, ChanType
  <1>4. CASE chan.queue = <<>>
    <2>1. Tail(chan.rest) \in Seq(Message \cup Ending)
      BY <1>1, <1>2, <1>4 DEF ChanType
    <2>2. QED
      BY <1>1, <1>2, <1>4, <2>1 DEF stream_rest, ChanType
  <1>5. QED
    BY <1>3, <1>4

\* The remote task's steps keep the types.
LEMMA RemoteTypes ==
    ASSUME IInv, RemoteStart \/ RemoteStep
    PROVE  /\ EpType' /\ HostType' /\ ChanType' /\ RtType' /\ ProxyType' /\ OuterType'
           /\ UNCHANGED <<capsule, dispatch, log, callers>>
           /\ rt'.at = "bridging" => rt'.event \in Message
           /\ proxy'.closed = proxy.closed /\ (proxy.loss => proxy'.loss)
           /\ host'.closed = host.closed /\ host'.loss = host.loss
  <1>1. /\ EpType /\ HostType /\ ChanType /\ RtType /\ ProxyType /\ OuterType
    BY DEF IInv, TypeOK
  <1>2. chan' = [chan EXCEPT !.reader = FALSE] => ChanType'
    BY <1>1 DEF ChanType
  <1>3. chan' = chan => ChanType'
    BY <1>1 DEF ChanType
  <1>4. host' = host => HostType' /\ host'.closed = host.closed /\ host'.loss = host.loss
    BY <1>1 DEF HostType
  <1>5. ep' = ep => EpType'
    BY <1>1 DEF EpType
  <1>6. outer' = outer => OuterType'
    BY <1>1 DEF OuterType
  <1>7. proxy' = proxy => ProxyType' /\ proxy'.closed = proxy.closed /\ (proxy.loss => proxy'.loss)
    BY <1>1 DEF ProxyType
  <1>8. ASSUME NEW result \in Endings \cup {"lost"}, NEW loss \in BOOLEAN, finish(result, loss)
        PROVE  /\ RtType' /\ ProxyType' /\ OuterType' /\ rt'.at = "finished"
               /\ proxy'.closed = proxy.closed /\ (proxy.loss => proxy'.loss)
    BY <1>8, FinishTypes
  <1>9. CASE RemoteStart
    <2>1. RtType' /\ rt'.at # "bridging"
      <3>1. rt' = [rt EXCEPT !.at = "starting"]
            \/ \E r \in {"lost", "run_closed"} : rt' = [rt EXCEPT !.at = "refused", !.result = r]
        BY <1>9 DEF RemoteStart
      <3>2. QED
        BY <1>1, <3>1 DEF RtType, Endings
    <2>2. ProxyType' /\ proxy'.closed = proxy.closed /\ (proxy.loss => proxy'.loss)
      BY <1>1, <1>9 DEF RemoteStart, ProxyType
    <2>3. QED
      BY <1>3, <1>4, <1>5, <1>6, <1>9, <2>1, <2>2 DEF RemoteStart, capsule, callers
  <1>10. CASE AwaitRemoteStart
    <2>0. UNCHANGED <<capsule, host, dispatch, log, callers>>
      BY <1>10 DEF AwaitRemoteStart
    <2>1. CASE UNCHANGED <<ep, chan>> /\ \E result \in {"lost", "run_closed"}, loss \in BOOLEAN : finish(result, loss)
      BY <1>3, <1>4, <1>5, <1>8, <2>0, <2>1 DEF Endings
    <2>2. CASE /\ rt' = [rt EXCEPT !.at = "reading"]
               /\ ep' = [ep EXCEPT !.at = "reserved"]
               /\ UNCHANGED <<chan, proxy, outer>>
      <3>1. RtType' /\ rt'.at = "reading"
        BY <1>1, <2>2 DEF RtType
      <3>2. EpType'
        BY <1>1, <2>2 DEF EpType
      <3>3. QED
        BY <1>3, <1>4, <1>6, <1>7, <2>0, <2>2, <3>1, <3>2
    <2>3. CASE /\ rt' = [rt EXCEPT !.at = "start_cancelled"]
               /\ UNCHANGED <<ep, chan, proxy, outer>>
      <3>1. RtType' /\ rt'.at = "start_cancelled"
        BY <1>1, <2>3 DEF RtType
      <3>2. QED
        BY <1>3, <1>4, <1>5, <1>6, <1>7, <2>0, <2>3, <3>1
    <2>4. host.loss \in BOOLEAN
      BY <1>1 DEF HostType
    <2>5. QED
      BY <1>10, <2>1, <2>2, <2>3, <2>4 DEF AwaitRemoteStart
  <1>11. CASE PendingStartCancelled
    <2>1. UNCHANGED <<capsule, ep, host, chan, dispatch, log, callers>>
          /\ \E result \in {"lost", "cancelled"} : finish(result, FALSE)
      BY <1>11 DEF PendingStartCancelled
    <2>2. QED
      BY <1>3, <1>4, <1>5, <1>8, <2>1 DEF Endings
  <1>12. CASE RemoteEvent
    <2>0. UNCHANGED <<capsule, ep, host, dispatch, log, callers>> /\ Reading /\ StreamReady
      BY <1>12 DEF RemoteEvent, Reading
    <2>1. CASE StreamEnds
      <3>1. finish("lost", TRUE) /\ chan' = [chan EXCEPT !.reader = FALSE]
        BY <1>12, <2>1 DEF RemoteEvent
      <3>2. QED
        BY <1>2, <1>4, <1>5, <1>8, <2>0, <3>1
    <2>2. CASE ~StreamEnds
      <3> DEFINE e == stream_next
      <3>1. e \in Message \cup Ending
        BY <2>0, <2>2, StreamNext
      <3>2. CASE IsMessage(e)
        <4>1. e \in Message
          BY <3>1, <3>2 DEF IsMessage, Ending, Kinds, Endings
        <4> DEFINE end == IF e.kind = "output" THEN send(outer, e, proxy.cancel)
                          ELSE send_terminal(outer, e, proxy.cancel)
        <4>2. end.q \in Bridge /\ end.how \in Hows
          BY <1>1, <4>1, SendType DEF OuterType, ProxyType
        <4>3. bridged(end, e) /\ chan' = stream_rest
          BY <1>12, <2>2, <3>2 DEF RemoteEvent
        <4>4. ChanType'
          BY <2>0, <2>2, <4>3, StreamRest DEF ChanType
        <4> HIDE DEF e, end
        <4>5. QED
          BY <1>4, <1>5, <1>7, <2>0, <4>1, <4>2, <4>3, <4>4, BridgedTypes
      <3>3. CASE ~IsMessage(e)
        <4>1. e.kind \in Endings
          BY <3>1, <3>3 DEF IsMessage, Message, Ending
        <4>2. finish(e.kind, FALSE) /\ chan' = [stream_rest EXCEPT !.reader = FALSE]
          BY <1>12, <2>2, <3>3 DEF RemoteEvent
        <4>3. ChanType'
          BY <2>0, <2>2, <4>2, StreamRest DEF ChanType
        <4> HIDE DEF e
        <4>4. QED
          BY <1>4, <1>5, <1>8, <2>0, <4>1, <4>2, <4>3
      <3>4. QED
        BY <3>2, <3>3
    <2>3. QED
      BY <2>1, <2>2
  <1>13. CASE RemoteBridge
    <2>0. UNCHANGED <<capsule, ep, host, dispatch, log, callers>> /\ rt.event \in Message
      BY <1>13 DEF RemoteBridge, IInv, InHand
    <2>1. CASE Lost
      <3>1. finish("lost", FALSE) /\ chan' = [chan EXCEPT !.reader = FALSE]
        BY <1>13, <2>1 DEF RemoteBridge
      <3>2. QED
        BY <1>2, <1>4, <1>5, <1>8, <2>0, <3>1
    <2>2. CASE ~Lost
      <3> DEFINE e == rt.event
                 end == IF e.kind = "output" THEN send(outer, e, proxy.cancel)
                        ELSE reserve_terminal(outer, e, proxy.cancel)
      <3>1. end.q \in Bridge /\ end.how \in Hows
        BY <1>1, <2>0, SendType DEF OuterType, ProxyType
      <3>2. bridged(end, e) /\ chan' = chan
        BY <1>13, <2>2 DEF RemoteBridge
      <3> HIDE DEF end
      <3>3. QED
        BY <1>3, <1>4, <1>5, <1>7, <2>0, <3>1, <3>2, BridgedTypes
    <2>3. QED
      BY <2>1, <2>2
  <1>14. CASE RemoteSignal
    <2>0. UNCHANGED <<capsule, ep, host, dispatch, log, callers>> /\ rt.at = "reading"
      BY <1>14 DEF RemoteSignal
    <2>1. CASE /\ chan' = [chan EXCEPT !.reader = FALSE]
               /\ \E result \in {"lost", "cancelled"} : finish(result, FALSE)
      BY <1>2, <1>4, <1>5, <1>8, <2>0, <2>1 DEF Endings
    <2>2. CASE /\ \/ rt' = [rt EXCEPT !.closing = TRUE, !.cancellation_handled = TRUE]
                  \/ rt' = [rt EXCEPT !.at = "cancelling", !.cancellation_handled = TRUE]
               /\ UNCHANGED <<chan, proxy, outer>>
      <3>1. RtType' /\ rt'.at # "bridging"
        BY <1>1, <2>0, <2>2 DEF RtType
      <3>2. QED
        BY <1>3, <1>4, <1>5, <1>6, <1>7, <2>0, <2>2, <3>1
    <2>3. QED
      BY <1>14, <2>1, <2>2 DEF RemoteSignal
  <1>15. CASE ForwardCancel
    <2>0. UNCHANGED <<capsule, ep, dispatch, log, callers>>
      BY <1>15 DEF ForwardCancel
    <2>1. CASE forward_lost
      <3>1. finish("lost", TRUE) /\ chan' = [chan EXCEPT !.reader = FALSE] /\ host' = host
        BY <2>1 DEF forward_lost
      <3>2. QED
        BY <1>2, <1>4, <1>5, <1>8, <2>0, <3>1
    <2>2. ASSUME NEW c \in BOOLEAN, forwarded(c),
                 host' = host \/ host' = [host EXCEPT !.command = host.command \/ Active]
          PROVE  /\ HostType' /\ ChanType' /\ RtType' /\ ProxyType' /\ OuterType'
                 /\ rt'.at = "reading" /\ proxy' = proxy
                 /\ host'.closed = host.closed /\ host'.loss = host.loss
      <3>1. rt' = [rt EXCEPT !.at = "reading", !.event = NoEvent,
                             !.pending = rt.pending \/ rt.at = "withdrawing",
                             !.closing = rt.closing \/ (c /\ rt.at = "cancelling")]
        BY <1>1, <2>2 DEF forwarded, reads, RtType
      <3>2. RtType' /\ rt'.at = "reading"
        BY <1>1, <3>1 DEF RtType
      <3>3. HostType' /\ host'.closed = host.closed /\ host'.loss = host.loss
        BY <1>1, <2>2 DEF HostType, Active
      <3>4. chan' = chan /\ proxy' = proxy /\ outer' = outer
        BY <2>2 DEF forwarded
      <3>5. QED
        BY <1>3, <1>6, <1>7, <3>2, <3>3, <3>4
    <2>3. \/ forward_lost
          \/ \E c \in BOOLEAN : /\ forwarded(c)
                                /\ \/ host' = host
                                   \/ host' = [host EXCEPT !.command = host.command \/ Active]
      BY <1>15 DEF ForwardCancel
    <2>4. QED
      BY <1>5, <1>7, <2>0, <2>1, <2>2, <2>3
  <1>16. QED
    BY <1>9, <1>10, <1>11, <1>12, <1>13, <1>14, <1>15 DEF RemoteStep

\* The steps of the dispatch, of the connection's loss, of close_run and of disconnect.
CallerStep == ForwardLoss \/ DispatchStep \/ BeginClose \/ CloserStep \/ Disconnect \/ DisconnectCloses

\* They keep the types.
LEMMA CallerTypes ==
    ASSUME IInv, CallerStep
    PROVE  /\ StopType' /\ HostType' /\ ProxyType' /\ OuterType' /\ DispatchType'
           /\ CloserType' /\ CutterType'
           /\ UNCHANGED <<script, trouble, said, driver, inner, ep, chan, rt>>
           /\ (host.closed => host'.closed) /\ (host.loss => host'.loss)
  <1>1. /\ StopType /\ HostType /\ ProxyType /\ OuterType /\ DispatchType /\ CloserType /\ CutterType
    BY DEF IInv, TypeOK
  <1>2. stop' = stop => StopType'
    BY <1>1 DEF StopType
  <1>3. host' = host => HostType' /\ (host.closed => host'.closed) /\ (host.loss => host'.loss)
    BY <1>1 DEF HostType
  <1>4. proxy' = proxy => ProxyType'
    BY <1>1 DEF ProxyType
  <1>5. outer' = outer => OuterType'
    BY <1>1 DEF OuterType
  <1>6. dispatch' = dispatch /\ log' = log => DispatchType'
    BY <1>1 DEF DispatchType
  <1>7. closer' = closer => CloserType'
    BY <1>1 DEF CloserType
  <1>8. cutter' = cutter => CutterType'
    BY <1>1 DEF CutterType
  <1>9. /\ local_close_begins => HostType' /\ (host.closed => host'.closed) /\ (host.loss => host'.loss)
        /\ local_close_runner => StopType'
    <2>1. Active \in BOOLEAN /\ Driving \in BOOLEAN
      BY DEF Active, Driving
    <2>2. local_close_begins => HostType' /\ (host.closed => host'.closed) /\ (host.loss => host'.loss)
      BY <1>1, <2>1 DEF local_close_begins, HostType
    <2>3. local_close_runner => StopType'
      BY <1>1, <2>1 DEF local_close_runner, StopType
    <2>4. QED
      BY <2>2, <2>3
  <1> USE DEF capsule, callers
  <1>10. CASE ForwardLoss
    <2>1. ProxyType'
      BY <1>1, <1>10 DEF ForwardLoss, ProxyType
    <2>2. QED
      BY <1>2, <1>3, <1>5, <1>6, <1>7, <1>8, <1>10, <2>1 DEF ForwardLoss
  <1>11. CASE Interrupt
    <2>1. ProxyType'
      BY <1>1, <1>11 DEF Interrupt, ProxyType
    <2>2. QED
      BY <1>2, <1>3, <1>5, <1>6, <1>7, <1>8, <1>11, <2>1 DEF Interrupt
  <1>12. /\ received(outer, Batch) \in Seq(Message) /\ recv_many(outer, Batch) \in Bridge
    BY <1>1, ReceiveType, StreamAssumption DEF OuterType
  <1>13. CASE Persist
    <2>1. outer' = recv_many(outer, Batch) /\ log' = log \o received(outer, Batch)
          /\ dispatch' \in {"persisting", "persisted"}
      BY <1>13 DEF Persist
    <2>2. log \o received(outer, Batch) \in Seq(Message)
      BY <1>1, <1>12, ConcatType DEF DispatchType
    <2>3. OuterType' /\ DispatchType'
      BY <1>12, <2>1, <2>2 DEF OuterType, DispatchType
    <2>4. QED
      BY <1>2, <1>3, <1>4, <1>7, <1>8, <1>13, <2>3 DEF Persist
  <1>14. CASE PersistFails
    <2>1. OuterType'
      BY <1>12, <1>14 DEF PersistFails, OuterType, Bridge
    <2>2. DispatchType'
      BY <1>1, <1>14 DEF PersistFails, DispatchType
    <2>3. ProxyType'
      BY <1>1, <1>14 DEF PersistFails, ProxyType
    <2>4. QED
      BY <1>2, <1>3, <1>7, <1>8, <1>14, <2>1, <2>2, <2>3 DEF PersistFails
  <1>15. CASE BeginClose
    <2>1. ProxyType'
      BY <1>1, <1>15 DEF BeginClose, ProxyType
    <2>2. CloserType'
      BY <1>1, <1>15 DEF BeginClose, CloserType
    <2>3. QED
      BY <1>2, <1>3, <1>5, <1>6, <1>8, <1>15, <2>1, <2>2 DEF BeginClose
  <1>16. CASE CloseCall
    <2>1. CloserType'
      <3>1. Active \in BOOLEAN
        BY DEF Active
      <3>2. \/ closer' = [closer EXCEPT !.at = "failed"]
            \/ closer' = [closer EXCEPT !.at = "runner", !.waits = Active]
            \/ closer' = [closer EXCEPT !.at = "wait"]
            \/ closer' = [closer EXCEPT !.at = "closed", !.ok = TRUE]
        BY <1>16 DEF CloseCall
      <3>3. QED
        BY <1>1, <3>1, <3>2 DEF CloserType
    <2>2. HostType' /\ (host.closed => host'.closed) /\ (host.loss => host'.loss)
      BY <1>3, <1>9, <1>16 DEF CloseCall
    <2>3. StopType'
      BY <1>2, <1>9, <1>16 DEF CloseCall
    <2>4. QED
      BY <1>4, <1>5, <1>6, <1>8, <1>16, <2>1, <2>2, <2>3 DEF CloseCall
  <1>17. CASE CompleteClose
    <2>1. ProxyType'
      BY <1>1, <1>17 DEF CompleteClose, ProxyType, CloserType
    <2>2. CloserType'
      BY <1>1, <1>17 DEF CompleteClose, CloserType
    <2>3. QED
      BY <1>2, <1>3, <1>5, <1>6, <1>8, <1>17, <2>1, <2>2 DEF CompleteClose
  <1>18. CASE WaitRun
    <2>1. CloserType'
      BY <1>1, <1>18 DEF WaitRun, CloserType
    <2>2. QED
      BY <1>2, <1>3, <1>4, <1>5, <1>6, <1>8, <1>18, <2>1 DEF WaitRun
  <1>19. CASE Disconnect
    <2>1. CutterType'
      BY <1>1, <1>19 DEF Disconnect, CutterType
    <2>2. HostType' /\ (host.closed => host'.closed) /\ (host.loss => host'.loss)
      BY <1>1, <1>19 DEF Disconnect, HostType
    <2>3. QED
      BY <1>2, <1>4, <1>5, <1>6, <1>7, <1>19, <2>1, <2>2 DEF Disconnect
  <1>20. CASE DisconnectCloses
    <2>1. CutterType'
      BY <1>1, <1>20 DEF DisconnectCloses, CutterType
    <2>2. HostType' /\ (host.closed => host'.closed) /\ (host.loss => host'.loss)
      BY <1>3, <1>9, <1>20 DEF DisconnectCloses
    <2>3. StopType'
      BY <1>2, <1>9, <1>20 DEF DisconnectCloses
    <2>4. QED
      BY <1>4, <1>5, <1>6, <1>7, <1>20, <2>1, <2>2, <2>3 DEF DisconnectCloses
  <1>21. QED
    BY <1>10, <1>11, <1>13, <1>14, <1>15, <1>16, <1>17, <1>18, <1>19, <1>20
       DEF CallerStep, DispatchStep, CloserStep

\* Every step is one of these.
LEMMA Steps ==
    Next => DriverStep \/ EndpointStep \/ (RemoteStart \/ RemoteStep) \/ CallerStep
  BY DEF Next, CallerStep

\* The types are kept.
LEMMA TypeStep ==
    ASSUME IInv, Next
    PROVE  TypeOK'
  <1>0. TypeOK
    BY DEF IInv
  <1> USE DEF TypeOK, ScriptType, capsule, callers
  <1>1. CASE DriverStep
    BY <1>0, <1>1, DriverTypes DEF StopType, EpType, HostType, ChanType, RtType, ProxyType, OuterType,
       DispatchType, CloserType, CutterType
  <1>2. CASE EndpointStep
    BY <1>0, <1>2, EndpointTypes DEF SaidType, HostType, RtType, ProxyType, OuterType,
       DispatchType, CloserType, CutterType
  <1>3. CASE RemoteStart \/ RemoteStep
    BY <1>0, <1>3, RemoteTypes DEF SaidType, DriverType, InnerType, StopType,
       DispatchType, CloserType, CutterType
  <1>4. CASE CallerStep
    BY <1>0, <1>4, CallerTypes DEF SaidType, DriverType, InnerType, EpType, ChanType, RtType
  <1>5. QED
    BY <1>1, <1>2, <1>3, <1>4, Steps

-----------------------------------------------------------------------------
(* The invariant is inductive. *)

\* A driver only runs while the endpoint's task serves it: nothing was sent at the end yet.
LEMMA DriverInv ==
    ASSUME IInv, DriverStep
    PROVE  EndpointInv' /\ RemoteInv' /\ InHand' /\ EndingInv' /\ CloseInv' /\ DisconnectInv'
           /\ OwnsUntilCleanedUp'
  <1>0. TypeOK /\ SaidType' /\ DriverType' /\ InnerType'
        /\ inner'.open = (driver'.at # "done" /\ inner.open)
        /\ UNCHANGED <<script, trouble, stop, ep, host, chan, rt, proxy, outer, dispatch, log, callers>>
    BY DriverTypes DEF IInv
  <1>a. closer' = closer /\ cutter' = cutter
    BY <1>0 DEF callers
  <1>1. driver.at \in {"on", "waiting"}
    BY DEF DriverStep, Emit, EmitWaits, ReportGivesUp, DriverReturns
  <1>2. driver'.at \in {"on", "waiting", "done"} /\ (driver'.at = "done" => driver'.result # "none")
    <2>1. driver \in [at: {"off", "on", "waiting", "done"}, final: BOOLEAN,
                      result: {"none", "ok", "detail", "cancelled", "unconfirmed"}]
      BY <1>0 DEF TypeOK, DriverType
    <2>2. ASSUME NEW end, goes_on(end) PROVE driver'.at \in {"on", "waiting"}
      BY <2>1, <2>2 DEF goes_on
    <2>3. CASE Emit \/ EmitWaits
      BY <2>2, <2>3 DEF Emit, EmitWaits
    <2>4. CASE ReportGivesUp
      BY <2>1, <2>4 DEF ReportGivesUp
    <2>5. CASE DriverReturns
      BY <2>1, <2>5 DEF DriverReturns
    <2>6. QED
      BY <2>3, <2>4, <2>5 DEF DriverStep
  <1>3. ep.at \in {"serving", "forwarding"}
    BY <1>0, <1>1 DEF IInv, EndpointInv, TypeOK, EpType
  <1>4. Active /\ chan.terminal = "pending" /\ chan.rest = <<>>
    BY <1>3 DEF Active, IInv, EndpointInv
  <1>5. EndpointInv'
    <2>1. ~inner'.open => driver'.at = "done"
      BY <1>0, <1>1 DEF IInv, EndpointInv, TypeOK, InnerType, Bridge
    <2>2. QED
      BY <1>0, <1>2, <1>3, <1>4, <2>1 DEF EndpointInv, IInv
  <1>6. RemoteInv' /\ CloseInv' /\ DisconnectInv'
    BY <1>0, <1>a DEF IInv, RemoteInv, CloseInv, DisconnectInv, Reading, Active, Lost
  <1>7. InHand'
    <2>1. ASSUME driver'.at = "waiting" PROVE Item <= Len(script) /\ said' = said
      <3>0. driver \in [at: {"off", "on", "waiting", "done"}, final: BOOLEAN,
                        result: {"none", "ok", "detail", "cancelled", "unconfirmed"}]
        BY <1>0 DEF TypeOK, DriverType
      <3>1. ASSUME NEW end, goes_on(end) PROVE said' = said
        BY <2>1, <3>0, <3>1 DEF goes_on
      <3>2. CASE Emit
        BY <3>1, <3>2 DEF Emit
      <3>3. CASE EmitWaits
        BY <3>1, <3>3 DEF EmitWaits, IInv, InHand
      <3>4. CASE ReportGivesUp \/ DriverReturns
        BY <2>1, <3>0, <3>4 DEF ReportGivesUp, DriverReturns
      <3>5. QED
        BY <3>2, <3>3, <3>4 DEF DriverStep
    <2>2. QED
      BY <1>0, <2>1 DEF InHand, IInv, Item
  <1>8. EndingInv'
    BY <1>0, <1>4 DEF EndingInv
  <1>9. OwnsUntilCleanedUp'
    BY <1>0, <1>4 DEF OwnsUntilCleanedUp, IInv, Active
  <1>10. QED
    BY <1>5, <1>6, <1>7, <1>8, <1>9

\* The endpoint's task serves until the driver is done, then sends the end and what it knows.
LEMMA EndpointKeepsInv ==
    ASSUME IInv, EndpointStep
    PROVE  EndpointInv' /\ RemoteInv' /\ InHand' /\ EndingInv' /\ CloseInv' /\ DisconnectInv'
           /\ OwnsUntilCleanedUp'
  <1>0. TypeOK /\ DriverType' /\ InnerType' /\ StopType' /\ EpType' /\ ChanType'
        /\ inner'.open = inner.open
        /\ UNCHANGED <<script, trouble, said, host, rt, proxy, outer, dispatch, log, callers>>
    BY EndpointTypes DEF IInv
  <1>a. closer' = closer /\ cutter' = cutter
    BY <1>0 DEF callers
  <1>b. DriverType /\ EpType /\ ChanType /\ InnerType
    BY <1>0 DEF TypeOK
  <1>1. Active /\ ep.at # "none" /\ ep.at # "done" /\ chan.terminal = "pending" /\ chan.rest = <<>>
    BY DEF EndpointStep, StartReserved, LocalOutput, LocalForward, LocalCancel, LocalDone, Active,
           IInv, EndpointInv
  <1>2. ep'.at \notin {"none", "reserved"}
        /\ (ep'.at = "forwarding" => ep'.event \in Message)
        /\ (ep'.at # "done" => driver'.at # "off" /\ chan'.terminal = "pending" /\ chan'.rest = <<>>
                               /\ (driver' = driver \/ driver'.at = "on"))
        /\ (ep'.at = "done" => /\ driver' = driver /\ driver'.at \in {"off", "done"}
                               /\ chan'.terminal # "pending"
                               /\ chan'.terminal # "sent" => chan'.rest = <<>>
                               /\ chan'.terminal = "sent" =>
                                    /\ chan'.rest # <<>>
                                    /\ chan'.rest[Len(chan'.rest)].kind \notin Kinds
                                    /\ driver'.at = "done" /\ driver'.result = "unconfirmed" =>
                                         \A k \in DOMAIN chan'.rest :
                                            chan'.rest[k].kind \in Kinds \cup {"unconfirmed"})
    <2>1. CASE StartReserved
      <3>0. ep.at = "reserved" /\ driver.at = "off"
        BY <2>1 DEF StartReserved, IInv, EndpointInv
      <3>1. CASE /\ driver' = [driver EXCEPT !.at = "on"]
                 /\ ep' = [ep EXCEPT !.at = "serving"]
                 /\ UNCHANGED chan
        BY <1>b, <1>1, <3>1 DEF DriverType, EpType
      <3>2. ASSUME NEW result \in {"cancelled", "run_closed", "failed"},
                   chan' = [chan EXCEPT !.terminal = "sent", !.rest = into_events(NoMetadata, result)],
                   ep' = [ep EXCEPT !.at = "done"], UNCHANGED driver
            PROVE  /\ ep'.at = "done" /\ driver' = driver /\ driver'.at = "off"
                   /\ chan'.terminal = "sent" /\ chan'.rest # <<>>
                   /\ chan'.rest[Len(chan'.rest)].kind \notin Kinds
        <4>1. NoMetadata \in Metadata
          BY DEF NoMetadata, Metadata
        <4>2. chan'.rest = into_events(NoMetadata, result) /\ chan'.terminal = "sent"
          BY <1>b, <3>2 DEF ChanType
        <4>3. ep'.at = "done"
          BY <1>b, <3>2 DEF EpType
        <4>4. QED
          BY <3>0, <3>2, <4>1, <4>2, <4>3, EndingType
      <3>3. QED
        BY <2>1, <3>1, <3>2 DEF StartReserved
    <2>2. ASSUME ep.at \in {"serving", "forwarding"}, NEW e \in Message, forward(e), driver' = driver
          PROVE  /\ ep'.at \in {"serving", "forwarding"}
                 /\ ep'.at = "forwarding" => ep'.event \in Message
                 /\ driver'.at # "off" /\ chan'.terminal = "pending" /\ chan'.rest = <<>>
      <3>1. driver.at # "off"
        BY <2>2 DEF IInv, EndpointInv
      <3>2. QED
        BY <1>1, <2>2, <3>1, ForwardTypes
    <2>3. CASE LocalOutput
      <3>1. received(inner, 1) \in Seq(Message)
        BY <1>b, ReceiveType DEF InnerType
      <3>2. received(inner, 1)[1] \in Message
        BY <2>3, <3>1 DEF LocalOutput
      <3>3. QED
        BY <2>2, <2>3, <3>2 DEF LocalOutput
    <2>4. CASE LocalForward
      BY <2>2, <2>4 DEF LocalForward, IInv, InHand
    <2>5. CASE LocalCancel
      <3>1. ep.at = "serving" /\ driver' = driver /\ chan' = chan
        BY <2>5 DEF LocalCancel
      <3>2. ep'.at = "serving"
        BY <1>b, <2>5 DEF LocalCancel, EpType
      <3>3. driver.at # "off"
        BY <3>1 DEF IInv, EndpointInv
      <3>4. QED
        BY <1>1, <3>1, <3>2, <3>3
    <2>6. CASE LocalDone
      <3>1. driver.at = "done" /\ driver.result # "none"
        BY <1>b, <2>6, DrainedType DEF LocalDone, InnerType, IInv, EndpointInv
      <3>2. ep'.at = "done" /\ driver' = driver /\ chan' = ends_stream
        BY <1>b, <2>6 DEF LocalDone, EpType, capsule
      <3>3. CASE ep.gone
        BY <1>b, <1>1, <3>1, <3>2, <3>3 DEF ends_stream, ChanType
      <3>4. CASE ~ep.gone
        <4>1. chan'.terminal = "sent" /\ chan'.rest = into_events(ep.metadata, driver.result)
          BY <1>b, <3>2, <3>4 DEF ends_stream, ChanType
        <4>2. ep.metadata \in Metadata /\ driver.result \in {"ok", "detail", "cancelled", "unconfirmed"}
          BY <1>b, <3>1 DEF EpType, DriverType
        <4>3. /\ chan'.rest # <<>> /\ chan'.rest[Len(chan'.rest)].kind \notin Kinds
              /\ driver.result = "unconfirmed" =>
                     \A k \in DOMAIN chan'.rest : chan'.rest[k].kind \in Kinds \cup {"unconfirmed"}
          BY <4>1, <4>2, EndingType
        <4>4. QED
          BY <3>1, <3>2, <4>1, <4>3
      <3>5. QED
        BY <3>3, <3>4
    <2>7. QED
      BY <2>1, <2>3, <2>4, <2>5, <2>6 DEF EndpointStep
  <1>3. EndpointInv'
    <2>1. ~inner'.open => driver'.at = "done"
      <3>1. CASE driver' = driver
        BY <1>0, <3>1 DEF IInv, EndpointInv
      <3>2. CASE driver'.at = "on" /\ driver' # driver
        <4>1. driver.at = "off"
          <5>1. StartReserved
            BY <3>2 DEF EndpointStep, LocalOutput, LocalForward, LocalCancel, LocalDone, capsule
          <5>2. QED
            BY <5>1 DEF StartReserved, IInv, EndpointInv
        <4>2. QED
          BY <1>0, <4>1 DEF IInv, EndpointInv
      <3>3. QED
        BY <1>2, <3>1, <3>2
    <2>2. driver'.at = "done" => driver'.result # "none"
      BY <1>2 DEF IInv, EndpointInv
    <2>3. QED
      BY <1>0, <1>2, <2>1, <2>2 DEF EndpointInv, ChanType, EpType
  <1>4. RemoteInv'
    BY <1>0, <1>1, <1>2 DEF IInv, RemoteInv, Reading
  <1>5. InHand'
    <2>1. driver'.at = "waiting" => driver.at = "waiting"
      BY <1>2
    <2>2. QED
      BY <1>0, <1>2, <2>1 DEF IInv, InHand, Item
  <1>6. EndingInv'
    BY <1>0, <1>1, <1>2 DEF EndingInv, IInv, ChanType
  <1>7. CloseInv' /\ DisconnectInv'
    <2>1. closer.ok = FALSE \/ ~closer.ok
      BY <1>1 DEF IInv, CloseInv
    <2>2. cutter.at # "returned"
      BY <1>1 DEF IInv, DisconnectInv
    <2>3. QED
      BY <1>0, <1>a, <1>1, <2>1, <2>2 DEF IInv, CloseInv, DisconnectInv, Lost
  <1>8. OwnsUntilCleanedUp'
    BY <1>0, <1>1 DEF IInv, OwnsUntilCleanedUp
  <1>9. QED
    BY <1>3, <1>4, <1>5, <1>6, <1>7, <1>8

\* The remote task gives the execution up with an answer only when nothing is reserved, or when
\* it has read the end of the stream.
LEMMA RemoteKeepsInv ==
    ASSUME IInv, RemoteStart \/ RemoteStep
    PROVE  EndpointInv' /\ RemoteInv' /\ InHand' /\ EndingInv' /\ CloseInv' /\ DisconnectInv'
           /\ OwnsUntilCleanedUp'
  <1>0. /\ TypeOK /\ EpType' /\ HostType' /\ ChanType' /\ RtType' /\ ProxyType' /\ OuterType'
        /\ UNCHANGED <<capsule, dispatch, log, callers>>
        /\ rt'.at = "bridging" => rt'.event \in Message
        /\ proxy'.closed = proxy.closed /\ (proxy.loss => proxy'.loss)
        /\ host'.closed = host.closed /\ host'.loss = host.loss
    BY RemoteTypes DEF IInv
  <1>a. closer' = closer /\ cutter' = cutter /\ driver' = driver /\ inner' = inner /\ said' = said
        /\ script' = script
    BY <1>0 DEF callers, capsule
  <1>b. EpType /\ ChanType /\ RtType
    BY <1>0 DEF TypeOK
  <1>c. \/ ep' = ep
        \/ /\ AwaitRemoteStart /\ ep.at = "none" /\ ep'.at = "reserved" /\ rt'.at = "reading"
           /\ ~host.closed /\ ~host.loss /\ chan' = chan
    <2>1. CASE AwaitRemoteStart
      <3>1. ep.at = "none"
        BY <2>1 DEF AwaitRemoteStart, IInv, RemoteInv
      <3>2. CASE ep' # ep
        <4>1. /\ ep' = [ep EXCEPT !.at = "reserved"] /\ rt' = [rt EXCEPT !.at = "reading"]
              /\ ~host.closed /\ ~host.loss /\ chan' = chan
          BY <2>1, <3>2 DEF AwaitRemoteStart
        <4>2. QED
          BY <1>b, <2>1, <3>1, <4>1 DEF EpType, RtType
      <3>3. QED
        BY <3>2
    <2>2. CASE ~AwaitRemoteStart
      BY <2>2 DEF RemoteStart, RemoteStep, PendingStartCancelled, RemoteEvent, RemoteBridge,
         RemoteSignal, ForwardCancel
    <2>3. QED
      BY <2>1, <2>2
  <1>d. \/ chan'.terminal = chan.terminal /\ chan'.rest = chan.rest
        \/ /\ Reading /\ StreamReady /\ ~StreamEnds /\ RemoteEvent
           /\ chan.queue = <<>> /\ chan'.terminal = chan.terminal /\ chan'.rest = Tail(chan.rest)
           /\ chan.rest # <<>>
    <2>1. CASE chan' = chan \/ chan' = [chan EXCEPT !.reader = FALSE]
      BY <1>b, <2>1 DEF ChanType
    <2>2. CASE RemoteEvent /\ ~StreamEnds
      <3>1. Reading /\ StreamReady
        BY <2>2 DEF RemoteEvent, Reading
      <3>2. chan' = stream_rest \/ chan' = [stream_rest EXCEPT !.reader = FALSE]
        BY <2>2 DEF RemoteEvent
      <3>3. chan'.terminal = stream_rest.terminal /\ chan'.rest = stream_rest.rest
        BY <2>2, <3>1, <3>2, StreamRest
      <3>4. QED
        BY <2>2, <3>1, <3>3, StreamRest
    <2>3. CASE ~(RemoteEvent /\ ~StreamEnds)
      <3>1. chan' = chan \/ chan' = [chan EXCEPT !.reader = FALSE]
        BY <2>3 DEF RemoteStart, RemoteStep, AwaitRemoteStart, PendingStartCancelled, RemoteEvent,
           RemoteBridge, RemoteSignal, ForwardCancel, forward_lost, forwarded
      <3>2. QED
        BY <2>1, <3>1
    <2>4. QED
      BY <2>2, <2>3
  \* how the task ends
  <1>e. ASSUME rt'.at = "finished"
        PROVE  \/ rt'.result \in {"lost", "unconfirmed"}
               \/ /\ ep' = ep /\ ep.at \in {"none", "done"}
                  /\ driver.at = "done" => driver.result # "unconfirmed"
    <2>1. rt.at # "finished"
      BY DEF RemoteStart, RemoteStep, AwaitRemoteStart, PendingStartCancelled, RemoteEvent,
           RemoteBridge, RemoteSignal, ForwardCancel
    <2>2. ASSUME NEW loss \in BOOLEAN, finish("lost", loss) PROVE rt'.result = "lost"
      BY <2>2, FinishTypes DEF prefer_pending_bridge_failure
    <2>3. ASSUME ep' = ep, ep.at = "none" PROVE driver.at # "done"
      BY <2>3 DEF IInv, EndpointInv
    <2>4. CASE RemoteStart
      BY <1>b, <1>e, <2>4 DEF RemoteStart, RtType
    <2>5. CASE AwaitRemoteStart \/ PendingStartCancelled
      <3>1. ep.at = "none"
        BY <2>5 DEF AwaitRemoteStart, PendingStartCancelled, IInv, RemoteInv
      <3>2. ep' = ep
        BY <1>c, <1>e
      <3>3. QED
        BY <2>3, <3>1, <3>2
    <2>6. CASE RemoteEvent
      <3>0. Reading /\ StreamReady /\ ep' = ep
        BY <1>c, <1>e, <2>6 DEF RemoteEvent, Reading
      <3>1. CASE StreamEnds
        BY <2>2, <2>6, <3>1 DEF RemoteEvent
      <3>2. CASE ~StreamEnds
        <4> DEFINE e == stream_next
        <4>1. CASE IsMessage(e)
          <5>1. \E end : bridged(end, e)
            BY <2>6, <3>2, <4>1 DEF RemoteEvent
          <5>2. rt'.at \in {"bridging", "reading", "withdrawing"}
            BY <1>b, <5>1 DEF bridged, reads, RtType
          <5>3. QED
            BY <1>e, <5>2
        <4>2. CASE ~IsMessage(e)
          <5>1. e \in Ending
            BY <3>0, <3>2, <4>2, StreamNext DEF IsMessage, Message
          <5>2. /\ chan.queue = <<>> /\ chan.terminal = "sent"
                /\ 1 \in DOMAIN chan.rest /\ chan.rest[1] = e
            BY <3>0, <3>2, <5>1, StreamNext
          <5>3. ep.at = "done"
            BY <5>2 DEF IInv, EndpointInv
          <5>4. finish(e.kind, FALSE) /\ e.kind \in Endings /\ e.kind \notin Kinds
            BY <2>6, <3>2, <4>2, <5>1 DEF RemoteEvent, IsMessage, Ending
          <5>5. rt'.result = prefer_pending_bridge_failure(e.kind)
            BY <5>4, FinishTypes
          <5>6. driver.at = "done" /\ driver.result = "unconfirmed" => e.kind = "unconfirmed"
            BY <5>2, <5>4 DEF IInv, EndingInv
          <5>7. e.kind = "unconfirmed" => rt'.result = "unconfirmed"
            BY <5>5 DEF prefer_pending_bridge_failure
          <5>8. QED
            BY <3>0, <5>3, <5>6, <5>7
        <4>3. QED
          BY <4>1, <4>2
      <3>3. QED
        BY <3>1, <3>2
    <2>7. CASE RemoteBridge
      <3>1. CASE Lost
        BY <2>2, <2>7, <3>1 DEF RemoteBridge
      <3>2. CASE ~Lost
        <4>1. \E end, e : bridged(end, e)
          BY <2>7, <3>2 DEF RemoteBridge
        <4>2. rt'.at \in {"bridging", "reading", "withdrawing"}
          BY <1>b, <4>1 DEF bridged, reads, RtType
        <4>3. QED
          BY <1>e, <4>2
      <3>3. QED
        BY <3>1, <3>2
    <2>8. CASE RemoteSignal
      <3>0. ep' = ep /\ Reading
        BY <2>8 DEF RemoteSignal, Reading
      <3>1. CASE Lost
        BY <2>2, <2>8, <3>1 DEF RemoteSignal
      <3>2. CASE ~Lost /\ rt.closing /\ ~StreamReady /\ proxy.closed
        <4>1. closer.ok /\ ~Active
          BY <3>2 DEF IInv, CloseInv
        <4>2. ep.at = "done"
          BY <1>b, <3>0, <4>1 DEF IInv, RemoteInv, Active, EpType
        <4>3. chan.terminal # "pending"
          BY <4>2 DEF IInv, EndpointInv
        <4>4. QED
          BY <3>2, <4>3 DEF StreamReady
      <3>3. CASE ~Lost /\ ~(rt.closing /\ ~StreamReady /\ proxy.closed)
        <4>1. \/ rt' = [rt EXCEPT !.closing = TRUE, !.cancellation_handled = TRUE] /\ rt.at = "reading"
              \/ rt' = [rt EXCEPT !.at = "cancelling", !.cancellation_handled = TRUE]
          BY <2>8, <3>3 DEF RemoteSignal
        <4>2. rt'.at \in {"reading", "cancelling"}
          BY <1>b, <4>1 DEF RtType
        <4>3. QED
          BY <1>e, <4>2
      <3>4. QED
        BY <3>1, <3>2, <3>3
    <2>9. CASE ForwardCancel
      <3>1. CASE forward_lost
        BY <2>2, <3>1 DEF forward_lost
      <3>2. ASSUME NEW c \in BOOLEAN, forwarded(c) PROVE FALSE
        <4>1. rt' = [rt EXCEPT !.at = "reading", !.event = NoEvent,
                               !.pending = rt.pending \/ rt.at = "withdrawing",
                               !.closing = rt.closing \/ (c /\ rt.at = "cancelling")]
          BY <1>b, <3>2 DEF forwarded, reads, RtType
        <4>2. rt'.at = "reading"
          BY <1>b, <4>1 DEF RtType
        <4>3. QED
          BY <1>e, <4>2
      <3>3. QED
        BY <2>9, <3>1, <3>2 DEF ForwardCancel
    <2>10. QED
      BY <2>4, <2>5, <2>6, <2>7, <2>8, <2>9 DEF RemoteStep
  <1>1. EndpointInv'
    <2>1. chan'.rest = chan.rest \/ chan'.terminal = "sent"
      <3>1. CASE chan.queue = <<>> /\ Reading /\ StreamReady /\ ~StreamEnds
        BY <1>b, <1>d, <3>1 DEF StreamReady, StreamEnds, ChanType
      <3>2. QED
        BY <1>d, <3>1
    <2>2. chan'.terminal = chan.terminal
      BY <1>d
    <2>3. CASE ep' = ep
      BY <1>a, <2>1, <2>2, <2>3 DEF IInv, EndpointInv
    <2>4. CASE ep.at = "none" /\ ep'.at = "reserved"
      BY <1>a, <2>1, <2>2, <2>4 DEF IInv, EndpointInv
    <2>5. QED
      BY <1>c, <2>3, <2>4
  <1>f. \/ rt'.at \in {"refused", "starting", "start_cancelled"} /\ ~Reading /\ rt.at # "finished" /\ ep' = ep
        \/ rt'.at = "finished"
        \/ Reading' /\ Reading
        \/ Reading' /\ ep'.at = "reserved"
    <2>1. CASE RemoteStart
      BY <1>b, <1>c, <2>1 DEF RemoteStart, Reading, RtType, AwaitRemoteStart
    <2>2. CASE AwaitRemoteStart
      <3>1. rt.at = "starting"
        BY <2>2 DEF AwaitRemoteStart
      <3>2. CASE \E result, loss : finish(result, loss)
        BY <1>b, <3>2 DEF finish, RtType
      <3>3. CASE rt' = [rt EXCEPT !.at = "reading"] /\ ep' = [ep EXCEPT !.at = "reserved"]
        BY <1>b, <3>3 DEF Reading, RtType, EpType
      <3>4. CASE rt' = [rt EXCEPT !.at = "start_cancelled"] /\ ep' = ep
        BY <1>b, <3>1, <3>4 DEF Reading, RtType
      <3>5. QED
        BY <2>2, <3>2, <3>3, <3>4 DEF AwaitRemoteStart
    <2>3. CASE PendingStartCancelled
      <3>1. \E result, loss : finish(result, loss)
        BY <2>3 DEF PendingStartCancelled
      <3>2. QED
        BY <1>b, <3>1 DEF finish, RtType
    <2>4. CASE RemoteEvent \/ RemoteBridge \/ RemoteSignal \/ ForwardCancel
      <3>1. Reading
        BY <2>4 DEF Reading, RemoteEvent, RemoteBridge, RemoteSignal, ForwardCancel
      <3>2. \/ \E result, loss : finish(result, loss)
            \/ \E end, e : bridged(end, e)
            \/ \E c : forwarded(c)
            \/ rt' = [rt EXCEPT !.closing = TRUE, !.cancellation_handled = TRUE]
            \/ rt' = [rt EXCEPT !.at = "cancelling", !.cancellation_handled = TRUE]
        BY <2>4 DEF RemoteEvent, RemoteBridge, RemoteSignal, ForwardCancel, forward_lost
      <3>3. rt'.at = "finished" \/ Reading'
        BY <1>b, <3>1, <3>2 DEF finish, bridged, forwarded, reads, Reading, RtType
      <3>4. QED
        BY <3>1, <3>3
    <2>5. QED
      BY <2>1, <2>2, <2>3, <2>4 DEF RemoteStep
  <1>2. RemoteInv'
    <2>1. CASE rt'.at \in {"refused", "starting", "start_cancelled"} /\ ~Reading /\ rt.at # "finished" /\ ep' = ep
      BY <1>b, <2>1 DEF IInv, RemoteInv, Reading, RtType
    <2>2. CASE rt'.at = "finished"
      BY <2>2 DEF RemoteInv, Reading
    <2>3. CASE Reading' /\ Reading
      BY <1>c, <2>3 DEF IInv, RemoteInv, Reading
    <2>4. CASE Reading' /\ ep'.at = "reserved"
      BY <2>4 DEF RemoteInv, Reading
    <2>5. QED
      BY <1>f, <2>1, <2>2, <2>3, <2>4
  <1>3. InHand'
    <2>1. ep'.at = "forwarding" => ep'.event \in Message
      BY <1>c DEF IInv, InHand
    <2>2. QED
      BY <1>0, <1>a, <2>1 DEF IInv, InHand, Item
  <1>4. EndingInv'
    <2>0. chan.rest \in Seq(Message \cup Ending)
      BY <1>b DEF ChanType
    <2>1. ASSUME chan'.terminal = "sent", Reading'
          PROVE  chan'.rest # <<>> /\ chan'.rest[Len(chan'.rest)].kind \notin Kinds
      <3>0. chan.terminal = "sent" /\ ep.at = "done"
        BY <1>d, <2>1 DEF IInv, EndpointInv
      <3>1. Reading
        BY <1>c, <1>f, <2>1, <3>0 DEF Reading
      <3>2. chan.rest # <<>> /\ chan.rest[Len(chan.rest)].kind \notin Kinds
        BY <3>0, <3>1 DEF IInv, EndingInv
      <3>3. CASE chan'.rest = chan.rest
        BY <3>2, <3>3
      <3>4. CASE /\ StreamReady /\ ~StreamEnds /\ RemoteEvent
                 /\ chan.queue = <<>> /\ chan'.rest = Tail(chan.rest)
        <4>1. IsMessage(stream_next)
          <5>1. CASE ~IsMessage(stream_next)
            <6>1. finish(stream_next.kind, FALSE)
              BY <3>4, <5>1 DEF RemoteEvent
            <6>2. rt'.at = "finished"
              BY <1>b, <6>1 DEF finish, RtType
            <6>3. QED
              BY <2>1, <6>2 DEF Reading
          <5>2. QED
            BY <5>1
        <4>2. stream_next = chan.rest[1]
          <5>1. chan.queue \o chan.rest = chan.rest
            BY <2>0, <3>4
          <5>2. QED
            BY <2>0, <3>2, <5>1 DEF stream_next
        <4>3. Len(chan.rest) # 1
          BY <3>2, <4>1, <4>2 DEF IsMessage
        <4>4. QED
          BY <2>0, <3>2, <3>4, <4>3, TailLast
      <3>5. QED
        BY <1>d, <3>3, <3>4
    <2>2. ASSUME driver'.at = "done", driver'.result = "unconfirmed", NEW k \in DOMAIN chan'.rest
          PROVE  chan'.rest[k].kind \in Kinds \cup {"unconfirmed"}
      <3>1. \A n \in DOMAIN chan.rest : chan.rest[n].kind \in Kinds \cup {"unconfirmed"}
        BY <1>a, <2>2 DEF IInv, EndingInv
      <3>2. CASE chan'.rest = chan.rest
        BY <2>2, <3>1, <3>2
      <3>3. CASE chan'.rest = Tail(chan.rest) /\ chan.rest # <<>>
        <4>1. k + 1 \in DOMAIN chan.rest /\ chan'.rest[k] = chan.rest[k + 1]
          BY <2>0, <2>2, <3>3
        <4>2. QED
          BY <3>1, <4>1
      <3>4. QED
        BY <1>d, <3>2, <3>3
    <2>3. QED
      BY <2>1, <2>2 DEF EndingInv, Reading
  <1>5. CloseInv'
    <2>1. (proxy.closed => Lost \/ closer.ok)'
      BY <1>0, <1>a DEF IInv, CloseInv, Lost
    <2>2. CASE ep' = ep
      BY <1>0, <1>a, <2>1, <2>2 DEF IInv, CloseInv, Active
    <2>3. CASE ~host.closed
      BY <1>0, <1>a, <2>1, <2>3 DEF IInv, CloseInv
    <2>4. QED
      BY <1>c, <2>2, <2>3
  <1>6. DisconnectInv'
    <2>1. CASE ep' = ep
      BY <1>0, <1>a, <2>1 DEF IInv, DisconnectInv, Active
    <2>2. CASE ~host.loss
      BY <1>0, <1>a, <2>2 DEF IInv, DisconnectInv
    <2>3. QED
      BY <1>c, <2>1, <2>2
  <1>7. OwnsUntilCleanedUp'
    <2> SUFFICES ASSUME rt'.at = "finished", rt'.result \notin {"lost", "unconfirmed"}
                 PROVE  ~Driving' /\ ~Active' /\ (driver'.at = "done" => driver'.result # "unconfirmed")
      BY DEF OwnsUntilCleanedUp
    <2>1. /\ ep' = ep /\ ep.at \in {"none", "done"}
          /\ driver.at = "done" => driver.result # "unconfirmed"
      BY <1>e
    <2>2. driver.at \in {"off", "done"}
      BY <2>1 DEF IInv, EndpointInv
    <2>3. QED
      BY <1>a, <2>1, <2>2 DEF Driving, Active
  <1>8. QED
    BY <1>1, <1>2, <1>3, <1>4, <1>5, <1>6, <1>7

\* A close and a disconnect are confirmed only when the task is over and no other can begin.
LEMMA CallerKeepsInv ==
    ASSUME IInv, CallerStep
    PROVE  EndpointInv' /\ RemoteInv' /\ InHand' /\ EndingInv' /\ CloseInv' /\ DisconnectInv'
           /\ OwnsUntilCleanedUp'
  <1>0. /\ TypeOK /\ StopType' /\ HostType' /\ ProxyType' /\ CloserType' /\ CutterType'
        /\ UNCHANGED <<script, trouble, said, driver, inner, ep, chan, rt>>
        /\ (host.closed => host'.closed) /\ (host.loss => host'.loss)
    BY CallerTypes DEF IInv
  <1>1. EndpointInv' /\ RemoteInv' /\ InHand' /\ EndingInv' /\ OwnsUntilCleanedUp'
    <2>1. EndpointInv' /\ RemoteInv'
      BY <1>0 DEF IInv, EndpointInv, RemoteInv, Reading
    <2>2. InHand' /\ EndingInv'
      BY <1>0 DEF IInv, InHand, EndingInv, Reading, Item
    <2>3. OwnsUntilCleanedUp'
      BY <1>0 DEF IInv, OwnsUntilCleanedUp, Driving, Active
    <2>4. QED
      BY <2>1, <2>2, <2>3
  <1>b. HostType /\ ProxyType /\ CloserType /\ CutterType
    BY <1>0 DEF TypeOK
  <1>c. Active' = Active
    BY <1>0 DEF Active
  <1> USE DEF capsule, callers
  <1>2. CloseInv'
    <2>1. CASE CloseCall
      <3>1. CASE closer' = [closer EXCEPT !.at = "failed"] /\ proxy' = proxy
        BY <1>0, <1>b, <1>c, <3>1 DEF IInv, CloseInv, Lost, CloserType
      <3>2. CASE closer' = [closer EXCEPT !.at = "runner", !.waits = Active] /\ proxy' = proxy
                 /\ local_close_begins
        <4>1. host'.closed
          BY <1>b, <3>2 DEF local_close_begins, HostType
        <4>2. closer'.waits = Active /\ closer'.ok = closer.ok
          BY <1>b, <3>2 DEF CloserType
        <4>3. QED
          BY <1>c, <3>2, <4>1, <4>2 DEF IInv, CloseInv, Lost
      <3>3. CASE closer' = [closer EXCEPT !.at = "wait"] /\ proxy' = proxy /\ closer.at = "runner"
        BY <1>0, <1>b, <1>c, <3>3 DEF IInv, CloseInv, Lost, CloserType
      <3>4. CASE /\ closer' = [closer EXCEPT !.at = "closed", !.ok = TRUE] /\ proxy' = proxy
                 /\ closer.at = "wait" /\ local_close_waits(closer.waits)
        <4>1. ~Active /\ host.closed
          BY <3>4 DEF IInv, CloseInv, local_close_waits
        <4>2. closer'.at = "closed" /\ closer'.ok
          BY <1>b, <3>4 DEF CloserType
        <4>3. QED
          BY <1>0, <1>c, <4>1, <4>2 DEF CloseInv
      <3>5. QED
        BY <2>1, <3>1, <3>2, <3>3, <3>4 DEF CloseCall
    <2>2. CASE CompleteClose
      <3>1. /\ closer' = [closer EXCEPT !.at = "settling"]
            /\ proxy' = [proxy EXCEPT !.closed = proxy.closed \/ proxy.registered,
                                      !.loss = proxy.loss \/ ~closer.ok]
        BY <2>2 DEF CompleteClose
      <3>2. closer'.at = "settling" /\ closer'.ok = closer.ok
        BY <1>b, <3>1 DEF CloserType
      <3>3. proxy'.loss = (proxy.loss \/ ~closer.ok)
        BY <1>b, <3>1 DEF ProxyType
      <3>4. QED
        BY <1>0, <1>c, <3>2, <3>3 DEF IInv, CloseInv, Lost
    <2>3. CASE WaitRun \/ BeginClose
      <3>1. closer'.at \in {"returned", "call"} /\ closer'.ok = closer.ok
        BY <1>b, <2>3 DEF WaitRun, BeginClose, CloserType
      <3>2. proxy'.closed = proxy.closed /\ proxy'.loss = proxy.loss
        BY <1>b, <2>3 DEF WaitRun, BeginClose, ProxyType
      <3>3. QED
        BY <1>0, <1>c, <3>1, <3>2 DEF IInv, CloseInv, Lost
    <2>4. CASE ForwardLoss \/ DispatchStep \/ Disconnect \/ DisconnectCloses
      <3>1. closer' = closer
        BY <2>4 DEF ForwardLoss, DispatchStep, Interrupt, Persist, PersistFails, Disconnect,
           DisconnectCloses
      <3>2. proxy'.closed = proxy.closed /\ (proxy.loss => proxy'.loss)
        BY <1>b, <2>4 DEF ForwardLoss, DispatchStep, Interrupt, Persist, PersistFails, Disconnect,
           DisconnectCloses, ProxyType
      <3>3. QED
        BY <1>0, <1>c, <3>1, <3>2 DEF IInv, CloseInv, Lost
    <2>5. QED
      BY <2>1, <2>2, <2>3, <2>4 DEF CallerStep, CloserStep
  <1>3. DisconnectInv'
    <2>1. CASE Disconnect
      <3>1. cutter'.at = "lock" /\ host'.loss
        BY <1>b, <2>1 DEF Disconnect, HostType, CutterType
      <3>2. QED
        BY <3>1 DEF DisconnectInv
    <2>2. CASE DisconnectCloses
      <3>0. host.loss
        BY <2>2 DEF DisconnectCloses, IInv, DisconnectInv
      <3>1. CASE cutter' = [cutter EXCEPT !.at = "returned"] /\ ~Active
        BY <1>0, <1>b, <1>c, <3>0, <3>1 DEF DisconnectInv, CutterType
      <3>2. CASE cutter' = [cutter EXCEPT !.at = "runner", !.waits = TRUE]
        BY <1>0, <1>b, <3>0, <3>2 DEF DisconnectInv, CutterType
      <3>3. CASE cutter' = [cutter EXCEPT !.at = "wait"] /\ cutter.at = "runner"
        BY <1>0, <1>b, <3>0, <3>3 DEF IInv, DisconnectInv, CutterType
      <3>4. QED
        BY <2>2, <3>1, <3>2, <3>3 DEF DisconnectCloses, local_close_waits, IInv, DisconnectInv
    <2>3. CASE ~(Disconnect \/ DisconnectCloses)
      <3>1. cutter' = cutter
        BY <2>3 DEF CallerStep, ForwardLoss, DispatchStep, Interrupt, Persist, PersistFails,
           BeginClose, CloserStep, CloseCall, CompleteClose, WaitRun
      <3>2. QED
        BY <1>0, <1>c, <3>1 DEF IInv, DisconnectInv
    <2>4. QED
      BY <2>1, <2>2, <2>3
  <1>4. QED
    BY <1>1, <1>2, <1>3

\* One step from the invariant keeps it.
LEMMA Inductive ==
    ASSUME IInv, [Next]_vars
    PROVE  IInv'
  <1>1. CASE Next
    <2>1. TypeOK'
      BY <1>1, TypeStep
    <2>2. EndpointInv' /\ RemoteInv' /\ InHand' /\ EndingInv' /\ CloseInv' /\ DisconnectInv'
          /\ OwnsUntilCleanedUp'
      BY <1>1, Steps, DriverInv, EndpointKeepsInv, RemoteKeepsInv, CallerKeepsInv
    <2>3. QED
      BY <2>1, <2>2 DEF IInv
  <1>2. CASE UNCHANGED vars
    <2>1. TypeOK'
      BY <1>2 DEF vars, IInv, TypeOK, ScriptType, SaidType, DriverType, InnerType, StopType, EpType,
         HostType, ChanType, RtType, ProxyType, OuterType, DispatchType, CloserType, CutterType
    <2>2. EndpointInv' /\ RemoteInv' /\ InHand' /\ EndingInv'
      BY <1>2 DEF vars, IInv, EndpointInv, RemoteInv, InHand, EndingInv, Reading, Item
    <2>3. CloseInv' /\ DisconnectInv' /\ OwnsUntilCleanedUp'
      BY <1>2 DEF vars, IInv, CloseInv, DisconnectInv, OwnsUntilCleanedUp, Lost, Active, Driving
    <2>4. QED
      BY <2>1, <2>2, <2>3 DEF IInv
  <1>3. QED
    BY <1>1, <1>2

\* Initially nothing was started, closed or lost.
LEMMA InitInv == Init => IInv
  <1> SUFFICES ASSUME Init PROVE IInv
    OBVIOUS
  <1>1. ScriptType
    BY StreamAssumption DEF Init, ScriptType
  <1>2. SaidType /\ DriverType /\ StopType /\ HostType
    BY DEF Init, SaidType, DriverType, StopType, HostType
  <1>3. InnerType /\ OuterType /\ inner.open
    BY BridgeEnds DEF Init, InnerType, OuterType
  <1>4. EpType
    <2>1. NoMetadata \in Metadata
      BY DEF NoMetadata, Metadata
    <2>2. QED
      BY <2>1 DEF Init, EpType
  <1>5. ChanType /\ RtType /\ ProxyType
    BY DEF Init, ChanType, RtType, ProxyType
  <1>6. DispatchType /\ CloserType /\ CutterType
    BY DEF Init, DispatchType, CloserType, CutterType
  <1>7. EndpointInv /\ RemoteInv /\ InHand /\ EndingInv
    BY <1>3 DEF Init, EndpointInv, RemoteInv, InHand, EndingInv, Reading
  <1>8. CloseInv /\ DisconnectInv /\ OwnsUntilCleanedUp
    BY DEF Init, CloseInv, DisconnectInv, OwnsUntilCleanedUp
  <1>9. QED
    BY <1>1, <1>2, <1>3, <1>4, <1>5, <1>6, <1>7, <1>8 DEF IInv, TypeOK

-----------------------------------------------------------------------------
(* The theorems. *)

\* In every behaviour the endpoint's task, the driver, the stream, the remote task and the calls
\* agree on who still works for the execution.
THEOREM Invariant == Spec => []IInv
  BY InitInv, Inductive, PTL DEF Spec

\* The remote runner answers an execution, with anything but "lost" or "unconfirmed", only once
\* the capsule's driver and the endpoint's task are over and the cleanup is confirmed.
THEOREM ExecutionIsOwned == Spec => []OwnsUntilCleanedUp
  <1>1. IInv => OwnsUntilCleanedUp
    BY DEF IInv
  <1>2. QED
    BY <1>1, Invariant, PTL

\* After a confirmed close_run and after disconnect no driver runs and none starts.
THEOREM ReleaseIsQuiet == Spec => []ReleasedIsQuiet
  <1>1. IInv => ReleasedIsQuiet
    <2> SUFFICES ASSUME IInv, (closer.at = "returned" /\ closer.ok) \/ cutter.at = "returned"
                 PROVE  ~Driving /\ ~Active
      BY DEF ReleasedIsQuiet
    <2>1. ~Active /\ EpType
      BY DEF IInv, CloseInv, DisconnectInv, TypeOK
    <2>2. ep.at \in {"none", "done"}
      BY <2>1 DEF Active, EpType
    <2>3. driver.at \in {"off", "done"}
      BY <2>2 DEF IInv, EndpointInv
    <2>4. QED
      BY <2>1, <2>3 DEF Driving
  <1>2. QED
    BY <1>1, Invariant, PTL
=============================================================================
