---------------------------- MODULE RunObservation ----------------------------
(***************************************************************************)
(* Observers of one run: zeroshot/src/native_v2_observability.rs and its   *)
(* subscriptions, runtime and history modules, over the ledger's           *)
(* snapshot_and_tail (zeroshot/src/v2_run_ledger/sqlite.rs); and at the    *)
(* other end of the connection the command line's durable follow           *)
(* (zeroshot/src/native_v2_cli/execution.rs) behind the client's pump.     *)
(*                                                                         *)
(* A follower opens a watch or logs subscription, prints what it brings,   *)
(* and after a lost connection or an overflowed receiver opens another one *)
(* from the last cursor it printed.  Frames travel over the connection     *)
(* (wire: the server's outbound queue and the socket) into the client's    *)
(* bounded receiver (queue).                                               *)
(*                                                                         *)
(* Watch and logs subscriptions live in the controller's process, where    *)
(* the ledger connection's mutex makes one snapshot_and_tail atomic; what  *)
(* they do with the page happens later, after further appends perhaps.     *)
(* The history reader is another process (the profile UI opens the store   *)
(* read-only): its snapshot and its page are two SELECTs of no transaction.*)
(* The runtime entry is the in-memory fallback that reports a runtime      *)
(* failure the ledger does not hold.                                       *)
(*                                                                         *)
(* An event is abstracted to "log" (kept out of the public status),        *)
(* "status" (changes it) or "terminal" (the last event).  The ledger's own *)
(* rules are RunLedger's; here it is its sequence of events.               *)
(***************************************************************************)
EXTENDS Naturals, Sequences, SequencesExt, FiniteSets

CONSTANTS Followers,     \* command lines following the run
          Callers,       \* status calls
          Readers,       \* history readers of another process
          Audiences,     \* the sets of observers that may watch a run together
          MaxEvents,     \* bound on the ledger's length
          MaxPage,       \* MAX_REPLAY_EVENTS
          MaxWire,       \* frames sent and not yet read by the client
          MaxQueue,      \* SUBSCRIPTION_QUEUE_CAPACITY
          MaxLosses      \* bound on the connections a follower loses

ASSUME BoundsAssumption ==
    /\ MaxEvents \in Nat \ {0} /\ MaxPage \in Nat \ {0}
    /\ MaxWire \in Nat \ {0} /\ MaxQueue \in Nat \ {0} /\ MaxLosses \in Nat

VARIABLES ledger,   \* the run's events; an event's cursor is its index
          entry,    \* RuntimeObservation's entry of the run
          handed,   \* initialize_allocated has run
          sub,      \* the server's subscription of each follower
          follow,   \* the followers and their end of the connection
          call,     \* status calls
          told,     \* some status call has answered that the run is finished
          reader    \* history readers

vars == <<ledger, entry, handed, sub, follow, call, told, reader>>

Kinds == {"log", "status", "terminal"}

Terminal == ledger # <<>> /\ Last(ledger) = "terminal"

\* What get and snapshot_and_tail load of the stored run.
Snapshot == [cursor |-> Len(ledger), terminal |-> Terminal]
NoSnapshot == [cursor |-> 0, terminal |-> FALSE]

\* The pages read_page may return after a cursor: at most MaxPage events, fewer when
\* the byte limit cuts the page, but never none while there are events (one event
\* always fits).  A page is its first and last cursor.
read_page(after) ==
    IF after >= Len(ledger) THEN {[first |-> after + 1, last |-> after]}
    ELSE {[first |-> after + 1, last |-> l] :
             l \in {k \in (after + 1)..(after + MaxPage) : k <= Len(ledger)}}

\* The status that folding the events up to a cursor yields: how many of them changed it.
StatusAt(cursor) == Cardinality({c \in 1..cursor : ledger[c] # "log"})

\* A set of cursors in the order of the events.
InOrder(cursors) == CHOOSE q \in SetToSeqs(cursors) : \A i, j \in DOMAIN q : i < j => q[i] < q[j]

-------------------------------------------------------------------------------
(* RuntimeObservation *)

NoEntry == [tracked |-> FALSE, cursor |-> 0, status |-> "open", failed |-> FALSE]

\* track: the entry starts over from the caller's snapshot.
track(cursor) == [tracked |-> TRUE, cursor |-> cursor, status |-> "open", failed |-> FALSE]

\* observe_forgets: a snapshot replaces even an unpersisted failure.
observe_forgets(e, snapshot) ==
    IF ~e.tracked \/ snapshot.cursor < e.cursor THEN e
    ELSE [e EXCEPT !.cursor = snapshot.cursor, !.status = IF snapshot.terminal THEN "terminal" ELSE "open"]

\* observe: an older snapshot changes nothing; a newer one replaces the last status,
\* except that an unpersisted failure outlives every snapshot without a terminal.
observe(e, snapshot) ==
    IF ~e.tracked \/ snapshot.cursor < e.cursor THEN e
    ELSE [e EXCEPT !.cursor = snapshot.cursor,
                   !.status = CASE snapshot.terminal -> "terminal"
                                [] ~snapshot.terminal /\ e.failed /\ e.status # "open" -> e.status
                                [] OTHER -> "open"]

\* What observe answers: the snapshot's own status when the run is not tracked.
Observed(e, snapshot) ==
    IF e.tracked THEN observe(e, snapshot).status
    ELSE IF snapshot.terminal THEN "terminal" ELSE "open"

\* fail: keeps a finished status, replaces any other.
fail(e) == [e EXCEPT !.failed = TRUE, !.status = IF @ = "open" THEN "runtime_failed" ELSE @]

failure(e) == e.tracked /\ e.failed

-------------------------------------------------------------------------------
(* The run's side: the supervisor's appends and the engine's reports *)

append(kind) ==
    /\ Len(ledger) < MaxEvents /\ ~Terminal
    /\ ledger' = Append(ledger, kind)
    /\ UNCHANGED <<entry, handed, sub, follow, call, told, reader>>

\* initialize_allocated tracks the run again, from the snapshot the submission created
\* and not from what preparation has appended since.
initialize_allocated ==
    /\ ~handed /\ entry.tracked /\ ~entry.failed /\ ~Terminal
    /\ handed' = TRUE
    /\ entry' = track(0)
    /\ UNCHANGED <<ledger, sub, follow, call, told, reader>>

\* runtime_failed: fail_runtime's callback, before anything durable is written.
runtime_failed ==
    /\ entry.tracked /\ ~entry.failed
    /\ entry' = fail(entry)
    /\ UNCHANGED <<ledger, handed, sub, follow, call, told, reader>>

\* refresh_runtime after fail_runtime returned.
refresh_runtime ==
    /\ entry.failed
    /\ entry' = observe(entry, Snapshot)
    /\ UNCHANGED <<ledger, handed, sub, follow, call, told, reader>>

\* runtime_finished: every caller has just seen or appended the terminal event.
runtime_finished ==
    /\ entry.tracked /\ Terminal
    /\ entry' = NoEntry
    /\ UNCHANGED <<ledger, handed, sub, follow, call, told, reader>>

-------------------------------------------------------------------------------
(* Subscriptions *)

NoPage == [first |-> 1, last |-> 0]

Closed == [state |-> "closed", kind |-> "watch", start |-> 0, scanned |-> 0, projection |-> 0,
           pending |-> <<>>, tail |-> NoSnapshot, page |-> NoPage]

\* A notification, or a close frame with its reason.
Event(cursor, status) == [reason |-> "event", cursor |-> cursor, status |-> status]
Close(reason) == [reason |-> reason, cursor |-> 0, status |-> 0]

\* changes_public_status for a watch, log_notification for logs.
Notifies(kind, event) == IF kind = "watch" THEN event # "log" ELSE event = "log"

\* The events of a page past the requested cursor that the subscription passes on.
Notified(s, page) == {c \in page.first..page.last : c > s.start /\ Notifies(s.kind, ledger[c])}

\* WatchFold::apply and the logs loop over one page: the projection takes every event,
\* a notification only those past the requested cursor.
apply(s, page) ==
    LET chosen == Notified(s, page)
        fold(c) == s.projection + Cardinality({k \in page.first..c : ledger[k] # "log"})
    IN [s EXCEPT !.projection = fold(page.last),
                 !.pending = @ \o [i \in 1..Cardinality(chosen) |->
                     LET c == InOrder(chosen)[i]
                     IN Event(c, IF s.kind = "watch" THEN fold(c) ELSE 0)]]

\* replay_progress's cursor: the last event of the page, not the snapshot's.
progress(s, page) ==
    [s EXCEPT !.scanned = IF page.last >= page.first THEN page.last ELSE @]

\* watch(fromCursor) folds the run from its beginning; logs(fromCursor) reads from the
\* cursor.
opened(kind, start) ==
    [Closed EXCEPT !.state = "open", !.kind = kind, !.start = start,
                   !.scanned = IF kind = "watch" THEN 0 ELSE start]

\* refresh, up to its await: the ledger answers with a snapshot and a page of one instant.
refresh_read(w) ==
    /\ sub[w].state = "open" /\ sub[w].pending = <<>>
    /\ \E page \in read_page(sub[w].scanned) :
          sub' = [sub EXCEPT ![w].state = "refreshing", ![w].tail = Snapshot, ![w].page = page]
    /\ UNCHANGED <<ledger, entry, handed, follow, call, told, reader>>

\* caught_up: the scan reached the head of its own snapshot.
\* caught_up_by_page: a page that brought something counts as the last one.
caught_up_by_page(s) == s.scanned <= s.tail.cursor
caught_up(s) == s.scanned = s.tail.cursor

\* refresh after its await, and what recv_durable makes of it: the subscription ends
\* when nothing is pending, the page reached its snapshot's head, and the run is over
\* in that snapshot or failed in the controller's memory.
refresh_fold(w) ==
    LET s == progress(apply(sub[w], sub[w].page), sub[w].page)
        observed == observe(entry, s.tail)
        finished == (s.tail.terminal \/ failure(observed)) /\ caught_up(s) /\ s.pending = <<>>
    IN /\ sub[w].state = "refreshing"
       /\ entry' = observed
       /\ sub' = [sub EXCEPT ![w] =
             [s EXCEPT !.state = IF finished THEN "done" ELSE "open",
                       !.tail = IF finished THEN @ ELSE NoSnapshot, !.page = NoPage]]
       /\ UNCHANGED <<ledger, handed, follow, call, told, reader>>

\* The store fails under refresh: durable_item closes the stream as incomplete.
refresh_fails(w) ==
    /\ sub[w].state = "open" /\ sub[w].pending = <<>>
    /\ sub' = [sub EXCEPT ![w].state = "unavailable"]
    /\ UNCHANGED <<ledger, entry, handed, follow, call, told, reader>>

-------------------------------------------------------------------------------
(* The connection: run_established_subscription and the client's pump *)

\* recv hands out the next pending notification, the connection sends it.
recv(w) ==
    /\ sub[w].state = "open" /\ sub[w].pending # <<>>
    /\ Len(follow[w].wire) < MaxWire
    /\ sub' = [sub EXCEPT ![w].pending = Tail(@)]
    /\ follow' = [follow EXCEPT ![w].wire = Append(@, Head(sub[w].pending))]
    /\ UNCHANGED <<ledger, entry, handed, call, told, reader>>

\* The close frame of a stream that ended; then the subscription is deregistered.
send_closed(w) ==
    /\ sub[w].state \in {"done", "unavailable"}
    /\ Len(follow[w].wire) < MaxWire
    /\ sub' = [sub EXCEPT ![w].state = "closed"]
    /\ follow' = [follow EXCEPT ![w].wire = Append(@, Close(sub[w].state))]
    /\ UNCHANGED <<ledger, entry, handed, call, told, reader>>

\* forward_overwhelmed: a frame that finds the receiver full is dropped, and no more.
forward_overwhelmed(f) ==
    IF Len(f.queue) < MaxQueue
    THEN [f EXCEPT !.queue = Append(@, Head(f.wire)), !.wire = Tail(@),
                   !.registered = Head(f.wire).reason = "event"]
    ELSE [f EXCEPT !.wire = Tail(@)]

\* forward_notification never waits: a frame that finds the receiver full ends the local
\* registration, and what is still on the wire for it is dropped on arrival.  A close
\* frame ends it too.
forward_notification(f) ==
    IF Len(f.queue) < MaxQueue
    THEN [f EXCEPT !.queue = Append(@, Head(f.wire)), !.wire = Tail(@),
                   !.registered = Head(f.wire).reason = "event"]
    ELSE [f EXCEPT !.wire = <<>>, !.registered = FALSE]

\* The pump routes one frame.  route_backpressured_message waits for room, and
\* route_and_maybe_cancel cancels the server's subscription when the local one is gone.
pump(w) ==
    LET f == follow[w]
    IN /\ f.registered /\ f.wire # <<>>
       /\ f.backpressure => Len(f.queue) < MaxQueue
       /\ follow' = [follow EXCEPT ![w] = forward_notification(f)]
       /\ sub' = [sub EXCEPT ![w] = IF follow'[w].registered \/ Head(f.wire).reason # "event"
                                    THEN @ ELSE Closed]
       /\ UNCHANGED <<ledger, entry, handed, call, told, reader>>

\* The connection is lost: finish_pump drops the registration, the server its
\* subscription; what the receiver holds can still be read.
cut(w) ==
    /\ follow[w].at = "following" /\ follow[w].registered /\ follow[w].losses < MaxLosses
    /\ follow' = [follow EXCEPT ![w].registered = FALSE, ![w].wire = <<>>, ![w].losses = @ + 1]
    /\ sub' = [sub EXCEPT ![w] = Closed]
    /\ UNCHANGED <<ledger, entry, handed, call, told, reader>>

-------------------------------------------------------------------------------
(* The command line's durable follow *)

NewFollower(kind, start, backpressure) ==
    [at |-> "connecting", kind |-> kind, start |-> start, from |-> start, printed |-> <<>>,
     wire |-> <<>>, queue |-> <<>>, registered |-> FALSE, backpressure |-> backpressure,
     losses |-> 0]

Finished == {"finished", "completed", "failed", "detached"}

\* A command that ends drops its connection, and the server the subscription.
Settle(w, f) ==
    IF f.at \in Finished
    THEN /\ follow' = [follow EXCEPT ![w] =
                [f EXCEPT !.wire = <<>>, !.queue = <<>>, !.registered = FALSE]]
         /\ sub' = [sub EXCEPT ![w] = Closed]
    ELSE /\ follow' = [follow EXCEPT ![w] = f]
         /\ UNCHANGED sub

\* open: a connection and a subscription from the last printed cursor.  The server refuses
\* a cursor ahead of the run, which ends the command.
open(w) ==
    LET f == follow[w]
        s == opened(f.kind, f.from)
    IN /\ f.at = "connecting"
       /\ IF f.from > Len(ledger)
          THEN /\ follow' = [follow EXCEPT ![w].at = "failed"]
               /\ UNCHANGED <<entry, sub>>
          ELSE /\ follow' = [follow EXCEPT ![w].at = "following", ![w].registered = TRUE]
               /\ \E page \in read_page(s.scanned) :
                     sub' = [sub EXCEPT ![w] = progress(apply(s, page), page)]
               /\ entry' = observe(entry, Snapshot)
       /\ UNCHANGED <<ledger, handed, call, told, reader>>

\* The first connection fails, or a later one fails with anything but a disconnection: the
\* command ends.  A later disconnection is retried and changes nothing.
cannot_connect(w) ==
    /\ follow[w].at = "connecting"
    /\ follow' = [follow EXCEPT ![w].at = "failed"]
    /\ UNCHANGED <<ledger, entry, handed, sub, call, told, reader>>

\* write_durable_event and watched_outcome: an event at the cursor last printed is skipped,
\* any other is printed and remembered, and a watched terminal status ends the command.
write_durable_event(f, event) ==
    IF event.cursor = f.from THEN f
    ELSE [f EXCEPT !.printed = Append(@, event), !.from = event.cursor,
                   !.at = IF f.kind = "watch" /\ ledger[event.cursor] = "terminal"
                          THEN "finished" ELSE @]

\* The follow loop takes the next item, or finds a stream that ended without a close
\* frame (a lost connection, or the local SLOW_CONSUMER close) and connects again.
next_or_detach(w) ==
    LET f == follow[w]
        taken == [f EXCEPT !.queue = Tail(@)]
    IN /\ f.at = "following" /\ (f.queue # <<>> \/ ~f.registered)
       /\ Settle(w, IF f.queue = <<>> THEN [f EXCEPT !.at = "connecting"]
                    ELSE CASE Head(f.queue).reason = "event" -> write_durable_event(taken, Head(f.queue))
                           [] Head(f.queue).reason = "done" -> [taken EXCEPT !.at = "completed"]
                           [] OTHER -> [taken EXCEPT !.at = "failed"])
       /\ UNCHANGED <<ledger, entry, handed, call, told, reader>>

\* The user detaches; the run goes on.
detach(w) ==
    /\ follow[w].at \in {"connecting", "following"}
    /\ Settle(w, [follow[w] EXCEPT !.at = "detached"])
    /\ UNCHANGED <<ledger, entry, handed, call, told, reader>>

-------------------------------------------------------------------------------
(* Status calls *)

NoCall == [state |-> "idle", floor |-> 0, snapshot |-> NoSnapshot, read |-> FALSE, answer |-> "none"]

\* How final an answer is: a durable result outranks an unpersisted failure.
Rank(answer) == CASE answer = "terminal" -> 2 [] answer = "runtime_failed" -> 1 [] OTHER -> 0

Answer(c, answer) ==
    /\ call' = [call EXCEPT ![c].state = "idle", ![c].answer = answer, ![c].snapshot = NoSnapshot]
    /\ told' = IF Rank(answer) > told THEN Rank(answer) ELSE told

\* status: a failure held in memory is answered without reading the ledger.
status(c) ==
    /\ call[c].state = "idle"
    /\ IF failure(entry)
       THEN /\ call' = [call EXCEPT ![c] = [NoCall EXCEPT !.floor = told, !.answer = entry.status]]
            /\ told' = IF Rank(entry.status) > told THEN Rank(entry.status) ELSE told
       ELSE /\ call' = [call EXCEPT ![c] = [NoCall EXCEPT !.state = "reading", !.floor = told]]
            /\ UNCHANGED told
    /\ UNCHANGED <<ledger, entry, handed, sub, follow, reader>>

\* ledger.get returns the run, or the store fails.
status_get(c, ok) ==
    /\ call[c].state = "reading"
    /\ call' = [call EXCEPT ![c].state = "observing", ![c].read = ok,
                            ![c].snapshot = IF ok THEN Snapshot ELSE NoSnapshot]
    /\ UNCHANGED <<ledger, entry, handed, sub, follow, told, reader>>

\* The snapshot passes through observe; a failed read falls back on the failure that
\* may have been published meanwhile.
status_observe(c) ==
    /\ call[c].state = "observing"
    /\ IF call[c].read
       THEN /\ entry' = observe(entry, call[c].snapshot)
            /\ Answer(c, Observed(entry, call[c].snapshot))
       ELSE /\ UNCHANGED entry
            /\ Answer(c, IF failure(entry) THEN entry.status ELSE "error")
    /\ UNCHANGED <<ledger, handed, sub, follow, reader>>

-------------------------------------------------------------------------------
(* History pages, read from another process *)

NoReader == [state |-> "idle", next |-> 0, head |-> 0, terminal |-> FALSE,
             collected |-> <<>>, read |-> 0]

\* snapshot_page's first SELECT.  A cursor ahead of the run is refused: next never is.
load_by_id(h) ==
    /\ reader[h].state = "idle"
    /\ reader' = [reader EXCEPT ![h].state = "loaded", ![h].head = Len(ledger),
                                ![h].terminal = Terminal]
    /\ UNCHANGED <<ledger, entry, handed, sub, follow, call, told>>

\* The events project_page keeps: those up to the head its snapshot showed.
\* unpinned: the whole page.
unpinned(page, head) == page.first..page.last
pinned(page, head) == {c \in page.first..page.last : c <= head}

\* A page that is complete and of a finished run is the last one a reader needs.
\* last_page_when_over: the first page of a finished run taken for the last.
last_page_when_over(r, next) == r.terminal
last_page(r, next) == next = r.head /\ r.terminal

\* snapshot_page's second SELECT, then project_page and the page's complete and finished
\* flags; the reader stops at a complete page of a finished run.
project_page(h) ==
    /\ reader[h].state = "loaded"
    /\ \E page \in read_page(reader[h].next) :
          LET r == reader[h]
              kept == pinned(page, r.head)
              next == IF kept = {} THEN r.next ELSE CHOOSE c \in kept : \A k \in kept : k <= c
              gap == kept = {} /\ r.next < r.head
          IN reader' = [reader EXCEPT ![h] = [r EXCEPT
                !.state = CASE gap -> "gap"
                            [] ~gap /\ last_page(r, next) -> "done"
                            [] OTHER -> "idle",
                !.next = next, !.read = page.last,
                !.collected = @ \o InOrder(kept)]]
    /\ UNCHANGED <<ledger, entry, handed, sub, follow, call, told>>

-------------------------------------------------------------------------------

Init ==
    /\ ledger = <<>>
    /\ entry = track(0)            \* start_preparation
    /\ handed = FALSE
    /\ told = 0
    /\ \E audience \in Audiences :
          /\ sub = [w \in Followers \cap audience |-> Closed]
          /\ follow \in [Followers \cap audience ->
                {NewFollower(kind, start, backpressure) :
                    kind \in {"watch", "logs"}, start \in 0..MaxEvents, backpressure \in BOOLEAN}]
          /\ call = [c \in Callers \cap audience |-> NoCall]
          /\ reader = [h \in Readers \cap audience |-> NoReader]

\* The run has ended and every observer has been answered.
Over ==
    /\ Terminal /\ ~entry.tracked
    /\ \A w \in DOMAIN follow : follow[w].at \in Finished
    /\ \A h \in DOMAIN reader : reader[h].state = "done"
    /\ UNCHANGED vars

Next ==
    \/ \E kind \in Kinds : append(kind)
    \/ initialize_allocated
    \/ runtime_failed
    \/ refresh_runtime
    \/ runtime_finished
    \/ \E w \in DOMAIN sub :
          \/ open(w)
          \/ cannot_connect(w)
          \/ recv(w)
          \/ send_closed(w)
          \/ pump(w)
          \/ cut(w)
          \/ next_or_detach(w)
          \/ detach(w)
          \/ refresh_read(w)
          \/ refresh_fold(w)
          \/ refresh_fails(w)
    \/ \E c \in DOMAIN call :
          \/ status(c)
          \/ \E ok \in BOOLEAN : status_get(c, ok)
          \/ status_observe(c)
    \/ \E h \in DOMAIN reader : load_by_id(h) \/ project_page(h)
    \/ Over

Spec == Init /\ [][Next]_vars

\* The server's tasks, the client's pump and the follow loop are spawned tasks that run
\* when they can; a history reader keeps asking for the next page.
Fairness ==
    /\ \A w \in Followers :
          /\ WF_vars(w \in DOMAIN sub /\ open(w))
          /\ WF_vars(w \in DOMAIN sub /\ (recv(w) \/ send_closed(w)))
          /\ WF_vars(w \in DOMAIN sub /\ pump(w))
          /\ WF_vars(w \in DOMAIN sub /\ next_or_detach(w))
          /\ WF_vars(w \in DOMAIN sub /\ (refresh_read(w) \/ refresh_fold(w)))
    /\ \A h \in Readers :
          /\ WF_vars(h \in DOMAIN reader /\ load_by_id(h))
          /\ WF_vars(h \in DOMAIN reader /\ project_page(h))

FairSpec == Spec /\ Fairness

-------------------------------------------------------------------------------
(* Properties *)

\* The notifications owed from a starting cursor for the events up to another.
Owed(f, through) ==
    LET due == {c \in 1..through : c > f.start /\ Notifies(f.kind, ledger[c])}
    IN [i \in 1..Cardinality(due) |->
           LET c == InOrder(due)[i]
           IN Event(c, IF f.kind = "watch" THEN StatusAt(c) ELSE 0)]

\* A follower prints every public event after its starting cursor exactly once, in order,
\* and each watch event with the status the run had at that very cursor: whatever was
\* appended between two pages, and however often the connection was lost or the receiver
\* overflowed with frames still on their way.  What is on its way continues what is printed.
ReplayIsExact ==
    \A w \in DOMAIN follow :
        LET f == follow[w]
            through == IF sub[w].scanned > f.from THEN sub[w].scanned ELSE f.from
        IN /\ f.printed = Owed(f, f.from)
           /\ f.registered /\ sub[w].state # "closed" =>
                 f.printed \o f.queue \o f.wire \o sub[w].pending = Owed(f, through)

\* A follow that reports the end of its stream has printed all there was: a watch that
\* saw the terminal status and a stream closed over a terminal snapshot leave nothing of
\* the run unprinted, and any other close is due to a failure in the controller's memory
\* and covers all that its last snapshot held.
EndsFullyTold ==
    [][\A w \in DOMAIN follow :
        LET ends(at) == follow[w].at # at /\ follow'[w].at = at
        IN /\ ends("finished") => follow'[w].printed = Owed(follow[w], Len(ledger))
           /\ ends("completed") =>
                 /\ sub[w].tail.terminal \/ entry.failed \/ Terminal
                 /\ follow'[w].printed =
                       Owed(follow[w], IF sub[w].tail.terminal THEN Len(ledger) ELSE sub[w].tail.cursor)]_vars

\* A status call that begins after another was answered is never answered less finally:
\* a run reported finished is not reported open again, nor a durable result as the
\* unpersisted failure, although the entry is replaced, overtaken and dropped meanwhile.
AnswersNeverRegress ==
    \A c \in DOMAIN call :
        call[c].state = "idle" /\ call[c].answer \notin {"none", "error"} =>
            Rank(call[c].answer) >= call[c].floor

\* History pages read from another process join into the run's events without a gap, a
\* repetition or an event past the head they report, and never fail as a retained gap,
\* although the snapshot and the page of one request are read at two instants.
HistoryJoinsUp ==
    \A h \in DOMAIN reader :
        /\ reader[h].collected = [i \in 1..reader[h].next |-> i]
        /\ reader[h].next <= reader[h].head
        /\ reader[h].state # "gap"

\* Once the run is over, durably or in the controller's memory, every follower's command
\* ends, through every reconnection; and once it is durably over, a history reader that
\* keeps paging has all of it.
ReadersReachTheEnd ==
    /\ \A w \in Followers :
        (w \in DOMAIN follow /\ (Terminal \/ entry.failed))
            ~> (w \in DOMAIN follow /\ follow[w].at \in Finished)
    /\ \A h \in Readers :
        (h \in DOMAIN reader /\ Terminal)
            ~> (h \in DOMAIN reader /\ reader[h].state = "done" /\ reader[h].next = Len(ledger))
===============================================================================
