---------------------------- MODULE DurableOutput ----------------------------
(***************************************************************************)
(* The bounded bridge between a node's driver and the durable log:         *)
(* zeroshot/src/native_v2_runner/output.rs.                                *)
(*                                                                         *)
(* A value of the bridge is a record, and the operators say what one call  *)
(* does to it.  Usage and errors, the terminal metadata, may leave through *)
(* a side queue once cancellation has begun; what does not fit there       *)
(* either is announced by a marker behind everything else.  There is one   *)
(* sender: a driver emits one event after the other.                       *)
(*                                                                         *)
(* An event carries the set of items it reports: usage reports are added   *)
(* up on their way.  The event of a kind that reports nothing is the       *)
(* marker that some of that kind are missing.                              *)
(***************************************************************************)
EXTENDS Naturals, Sequences, FiniteSets, FiniteSetsExt

CONSTANT Capacity   \* DURABLE_OUTPUT_CAPACITY, of either queue

ASSUME CapacityAssumption == Capacity \in Nat \ {0}

Event(kind, of) == [kind |-> kind, of |-> of]
Incomplete(kind) == Event(kind, {})

\* The metadata an event counts as when it is lost.
metadata_of(e) == IF e.kind = "usage" THEN "usage" ELSE "error"

durable_event_channel ==
    [main |-> <<>>, side |-> <<>>, side_active |-> FALSE, overflow |-> {},
     emitted |-> {}, open |-> TRUE, reader |-> TRUE]

Room(q) == Len(q.main) < Capacity

\* How a send ends, with the bridge it leaves: "ok", "cancelled", "closed",
\* "overflow", or "wait" while it is blocked on the full queue.
Ends(how, q) == [how |-> how, q |-> q]

enqueue(q, e) == Ends("ok", [q EXCEPT !.main = Append(@, e)])

try_send_cancelled_terminal(q, e) ==
    IF ~q.reader THEN Ends("closed", q)
    ELSE IF Len(q.side) < Capacity THEN Ends("ok", [q EXCEPT !.side = Append(@, e)])
    ELSE Ends("overflow", [q EXCEPT !.overflow = @ \cup {metadata_of(e)}])

\* An ordinary event, at the call and as long as it waits: cancellation wins.
send(q, e, cancel) ==
    IF cancel THEN Ends("cancelled", q)
    ELSE IF ~q.reader THEN Ends("closed", q)
    ELSE IF Room(q) THEN enqueue(q, e)
    ELSE Ends("wait", q)

\* A terminal event waits for room whatever happens.
Bug_reserve_terminal(q, e, cancel) ==
    IF ~q.reader THEN Ends("closed", q)
    ELSE IF Room(q) THEN enqueue(q, e)
    ELSE Ends("wait", q)

\* A terminal event that waits for room, until cancellation opens the side queue.
reserve_terminal(q, e, cancel) ==
    IF cancel THEN try_send_cancelled_terminal([q EXCEPT !.side_active = TRUE], e)
    ELSE IF ~q.reader THEN Ends("closed", q)
    ELSE IF Room(q) THEN enqueue(q, e)
    ELSE Ends("wait", q)

\* A terminal event at the call: cancellation is looked at only when there is no room.
send_terminal(q, e, cancel) ==
    IF q.side_active THEN try_send_cancelled_terminal(q, e)
    ELSE IF ~q.reader THEN Ends("closed", q)
    ELSE IF Room(q) THEN enqueue(q, e)
    ELSE reserve_terminal(q, e, cancel)

mark_diagnostics_incomplete(q) == [q EXCEPT !.overflow = @ \cup {"error"}]

\* Dropping the sender.
sender_dropped(q) == [q EXCEPT !.open = FALSE]

-----------------------------------------------------------------------------
(* The receiver. *)

Queued(q) == q.main \o q.side
Ready(q) == Queued(q) # <<>> \/ ~q.open

observe(q, events) ==
    [q EXCEPT !.emitted = @ \cup {events[i].kind : i \in {j \in DOMAIN events : events[j].of = {}}}]

\* The marker that is due once both queues are closed and drained; usage first.
overflow_marker(q) ==
    LET due == q.overflow \ q.emitted IN
    IF "usage" \in due THEN <<Incomplete("usage")>>
    ELSE IF "error" \in due THEN <<Incomplete("error")>>
    ELSE <<>>

\* recv_many: what is there, at most limit events, the main queue first; nothing at
\* the end of the stream.  Only for a Ready bridge.
received(q, limit) ==
    IF Queued(q) = <<>> THEN overflow_marker(q)
    ELSE SubSeq(Queued(q), 1, Min({limit, Len(Queued(q))}))

recv_many(q, limit) ==
    LET got == received(q, limit)
        n == IF Queued(q) = <<>> THEN 0 ELSE Len(got)
        k == Min({n, Len(q.main)})
    IN  observe([q EXCEPT !.main = SubSeq(@, k + 1, Len(@)),
                          !.side = SubSeq(@, n - k + 1, Len(@))], got)
=============================================================================
