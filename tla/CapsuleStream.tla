---------------------------- MODULE CapsuleStream ----------------------------
(***************************************************************************)
(* One node execution in a hosted capsule, from the driver's output to the *)
(* run's log: zeroshot/src/native_v2_capsule.rs with its endpoint and      *)
(* remote modules, between two bridges of DurableOutput.                   *)
(*                                                                         *)
(*   driver -> inner -> endpoint task -> chan -> remote task -> outer      *)
(*                                                     -> dispatch -> log  *)
(*                                                                         *)
(* Cancellation flows the other way.  The remote runner's close_run, the   *)
(* endpoint's disconnect, the loss of the connection and the timeouts of   *)
(* the control calls run beside it.  A step ends where the code awaits.    *)
(***************************************************************************)
EXTENDS DurableOutput

CONSTANTS Casts,        \* what the driver has to say, a sequence of kinds of events, with
                        \* the disturbances that may come
          UsageMax,     \* what a sum of usage reports holds before it overflows
          Batch         \* the events one append takes

Kinds == {"output", "error", "usage"}
\* An interrupt of the node, a close_run, a disconnect, a control call that times out,
\* and a ledger that refuses an append.
Disturbances == {"interrupt", "close", "disconnect", "timeout", "append"}

ASSUME StreamAssumption ==
    /\ \A c \in Casts : c.script \in Seq(Kinds) /\ c.trouble \subseteq Disturbances
    /\ UsageMax \in Nat \ {0} /\ Batch \in Nat \ {0}

VARIABLES script,   \* the driver's script, and the disturbances to expect
          trouble,
          said,     \* the items it has emitted: how each call ended, and whether final
          driver,   \* the driver
          inner,    \* the capsule's bridge
          stop,     \* its cancel signal, and whether the capsule's runner closed the run
          ep,       \* the endpoint's task for the execution, and its TerminalMetadata
          host,     \* the endpoint: closed, its command to the task, its loss signal
          chan,     \* the CapsuleExecutionStream
          rt,       \* the remote runner's task
          proxy,    \* ProxyActivity's entry and signals, and the runner's loss signal
          outer,    \* the controller's bridge
          dispatch, \* observe_dispatch and bridge_durable_events
          log,      \* what the ledger was given
          closer,   \* a close_run call
          cutter    \* a disconnect call

vars == <<script, trouble, said, driver, inner, stop, ep, host, chan, rt, proxy, outer,
          dispatch, log, closer, cutter>>

capsule == <<script, trouble, said, driver, inner, stop>>
callers == <<closer, cutter>>

NoEvent == Event("none", {})

\* TerminalMetadata::default.
NoMetadata == [usage |-> {}, errors |-> <<>>, incomplete |-> FALSE, overflowed |-> FALSE,
               usage_overflowed |-> FALSE, diagnostics_incomplete |-> FALSE]

Init ==
    /\ \E c \in Casts : script = c.script /\ trouble = c.trouble
    /\ said = <<>>
    /\ driver = [at |-> "off", final |-> FALSE, result |-> "none"]
    /\ inner = durable_event_channel
    /\ stop = [cancel |-> FALSE, closed |-> FALSE]
    /\ ep = [at |-> "none", gone |-> FALSE, cancelled |-> FALSE,
             event |-> NoEvent, metadata |-> NoMetadata]
    /\ host = [closed |-> FALSE, command |-> FALSE, loss |-> FALSE]
    /\ chan = [queue |-> <<>>, reader |-> TRUE, terminal |-> "pending", rest |-> <<>>]
    /\ rt = [at |-> "idle", closing |-> FALSE, cancellation_handled |-> FALSE,
             pending |-> FALSE, event |-> NoEvent, result |-> "none"]
    /\ proxy = [registered |-> FALSE, run_closed |-> FALSE, cancel |-> FALSE,
                closing |-> FALSE, closed |-> FALSE, loss |-> FALSE]
    /\ outer = durable_event_channel
    /\ dispatch = "persisting"
    /\ log = <<>>
    /\ closer = [at |-> "idle", ok |-> FALSE, waits |-> FALSE]
    /\ cutter = [at |-> "idle", waits |-> FALSE]

\* The phase of the endpoint's task before its terminal events are sent.  The reservation itself
\* leaves the endpoint's table one await later, just before done is signalled.
Active == ep.at \in {"reserved", "serving", "forwarding"}
Driving == driver.at \in {"on", "waiting"}
TimesOut == "timeout" \in trouble

-----------------------------------------------------------------------------
(* The driver, in the capsule. *)

Item == Len(said) + 1
Saying == Event(script[Item], {Item})
Terminal == script[Item] # "output" \/ driver.final

\* A call ended.  Output that was cancelled is held and offered once more, as final
\* output; whatever else happened to an item, the driver goes on to the next.
goes_on(end) ==
    /\ inner' = end.q
    /\ CASE end.how = "wait" -> driver' = [driver EXCEPT !.at = "waiting"] /\ UNCHANGED said
         [] end.how = "cancelled" ->
              driver' = [driver EXCEPT !.at = "on", !.final = TRUE] /\ UNCHANGED said
         [] OTHER -> /\ driver' = [driver EXCEPT !.at = "on"]
                     /\ said' = Append(said, [how |-> end.how, final |-> Terminal])

\* emit, emit_final and record_token_usage.
Emit ==
    /\ driver.at = "on" /\ Item <= Len(script)
    /\ goes_on(IF Terminal THEN send_terminal(inner, Saying, stop.cancel)
               ELSE send(inner, Saying, stop.cancel))
    /\ UNCHANGED <<script, trouble, stop, ep, host, chan, rt, proxy, outer, dispatch, log, callers>>

EmitWaits ==
    /\ driver.at = "waiting"
    /\ LET end == IF Terminal THEN reserve_terminal(inner, Saying, stop.cancel)
                  ELSE send(inner, Saying, stop.cancel)
       IN  end.how # "wait" /\ goes_on(end)
    /\ UNCHANGED <<script, trouble, stop, ep, host, chan, rt, proxy, outer, dispatch, log, callers>>

\* report_cleanup_failure gives up after a moment, and says that something is missing.  The usage
\* that finish_output_failure still records afterwards is left out: here the driver is over.
ReportGivesUp ==
    /\ driver.at = "waiting" /\ script[Item] = "error"
    /\ said' = Append(said, [how |-> "overflow", final |-> FALSE])
    /\ inner' = sender_dropped(mark_diagnostics_incomplete(inner))
    /\ driver' = [driver EXCEPT !.at = "done", !.result = "unconfirmed"]
    /\ UNCHANGED <<script, trouble, stop, ep, host, chan, rt, proxy, outer, dispatch, log, callers>>

\* The driver returns, its control is dropped, the runner sends the completion.  It
\* succeeds only if everything it said was accepted.
DriverReturns ==
    /\ driver.at = "on"
    /\ \E result \in {"ok", "detail", "cancelled", "unconfirmed"} :
        /\ result = "ok" => \A i \in DOMAIN said : said[i].how = "ok"
        /\ result = "cancelled" => stop.cancel
        /\ driver' = [driver EXCEPT !.at = "done", !.result = result]
    /\ inner' = sender_dropped(inner)
    /\ UNCHANGED <<script, trouble, said, stop, ep, host, chan, rt, proxy, outer, dispatch, log,
                   callers>>

-----------------------------------------------------------------------------
(* The endpoint's task. *)

retain_usage(m, of) ==
    CASE of = {} -> [m EXCEPT !.incomplete = TRUE]
      [] of # {} /\ m.usage_overflowed -> m
      [] of # {} /\ ~m.usage_overflowed /\ Cardinality(m.usage \cup of) > UsageMax ->
           [m EXCEPT !.incomplete = TRUE, !.usage_overflowed = TRUE, !.overflowed = TRUE]
      [] OTHER -> [m EXCEPT !.usage = @ \cup of]

\* An error that no longer fits is dropped silently.
Bug_retain(m, e) ==
    CASE e.kind = "usage" -> retain_usage(m, e.of)
      [] e.kind = "error" /\ Len(m.errors) < Capacity -> [m EXCEPT !.errors = Append(@, e)]
      [] OTHER -> m

\* Ordinary output is not retained.
retain(m, e) ==
    CASE e.kind = "usage" -> retain_usage(m, e.of)
      [] e.kind = "error" /\ Len(m.errors) < Capacity -> [m EXCEPT !.errors = Append(@, e)]
      [] e.kind = "error" /\ Len(m.errors) >= Capacity ->
           [m EXCEPT !.diagnostics_incomplete = TRUE, !.overflowed = TRUE]
      [] e.kind = "output" -> m

Only(condition, events) == IF condition THEN events ELSE <<>>

\* The terminal event: an unconfirmed cleanup outranks everything, an overflow the rest.
terminal_event(m, result) ==
    Event(CASE result = "unconfirmed" -> "unconfirmed"
            [] result # "unconfirmed" /\ m.overflowed -> "failed"
            [] result = "detail" /\ ~m.overflowed -> "failed"
            [] OTHER -> result, {})

\* into_events.  Item 0 is the detail of a failure.
into_events(m, result) ==
    m.errors
    \o Only(m.usage # {}, <<Event("usage", m.usage)>>)
    \o Only(m.incomplete, <<Incomplete("usage")>>)
    \o Only(m.diagnostics_incomplete, <<Incomplete("error")>>)
    \o Only(result = "detail", <<Event("error", {0})>>)
    \o <<terminal_event(m, result)>>

\* start_reserved: refused when it is no longer wanted, or by the capsule's runner.  The biased
\* select may also complete a start with the command already there, and the served execution is
\* then cancelled at once: that is this start followed by the command and LocalCancel.
StartReserved ==
    /\ ep.at = "reserved"
    /\ \/ /\ ~stop.closed /\ ~host.command /\ chan.reader
          /\ driver' = [driver EXCEPT !.at = "on"]
          /\ ep' = [ep EXCEPT !.at = "serving"]
          /\ UNCHANGED chan
       \/ \E result \in {"cancelled", "run_closed", "failed"} :
            /\ result = "cancelled" => host.command \/ ~chan.reader
            /\ result = "run_closed" => stop.closed /\ ~host.command /\ chan.reader
            /\ result = "failed" => ~host.command /\ chan.reader
            /\ chan' = [chan EXCEPT !.terminal = "sent", !.rest = into_events(NoMetadata, result)]
            /\ ep' = [ep EXCEPT !.at = "done"]
            /\ UNCHANGED driver
    /\ UNCHANGED <<script, trouble, said, inner, stop, host, rt, proxy, outer, dispatch, log,
                   callers>>

\* The cancellation is forgotten once its command has been seen: what comes next takes
\* any room there is.
Bug_forward(e) ==
    \/ /\ ~chan.reader
       /\ ep' = [ep EXCEPT !.at = "serving", !.gone = TRUE, !.event = NoEvent]
       /\ stop' = [stop EXCEPT !.cancel = TRUE] /\ UNCHANGED chan
    \/ /\ host.command /\ ~ep.cancelled
       /\ ep' = [ep EXCEPT !.at = "serving", !.cancelled = TRUE, !.event = NoEvent,
                           !.metadata = retain(@, e)]
       /\ stop' = [stop EXCEPT !.cancel = TRUE] /\ UNCHANGED chan
    \/ /\ ~host.command \/ ep.cancelled
       /\ chan.reader /\ Len(chan.queue) < Capacity
       /\ chan' = [chan EXCEPT !.queue = Append(@, e)]
       /\ ep' = [ep EXCEPT !.at = "serving", !.event = NoEvent] /\ UNCHANGED stop

\* apply_local_output for an event e, received just now or waiting for room.
forward(e) ==
    CASE ep.gone ->
           ep' = [ep EXCEPT !.at = "serving"] /\ UNCHANGED <<chan, stop>>
      [] ~ep.gone /\ (ep.cancelled \/ host.command) ->
           /\ ep' = [ep EXCEPT !.at = "serving", !.cancelled = TRUE, !.event = NoEvent,
                               !.metadata = retain(@, e)]
           /\ stop' = [stop EXCEPT !.cancel = TRUE]
           /\ UNCHANGED chan
      [] OTHER ->
           \/ /\ ~chan.reader
              /\ ep' = [ep EXCEPT !.at = "serving", !.gone = TRUE, !.event = NoEvent]
              /\ stop' = [stop EXCEPT !.cancel = TRUE]
              /\ UNCHANGED chan
           \/ /\ chan.reader /\ Len(chan.queue) < Capacity
              /\ chan' = [chan EXCEPT !.queue = Append(@, e)]
              /\ ep' = [ep EXCEPT !.at = "serving", !.event = NoEvent]
              /\ UNCHANGED stop
           \/ /\ chan.reader /\ Len(chan.queue) >= Capacity /\ ep.at = "serving"
              /\ ep' = [ep EXCEPT !.at = "forwarding", !.event = e]
              /\ UNCHANGED <<chan, stop>>

LocalOutput ==
    /\ ep.at = "serving" /\ Ready(inner) /\ received(inner, 1) # <<>>
    /\ inner' = recv_many(inner, 1)
    /\ forward(received(inner, 1)[1])
    /\ UNCHANGED <<script, trouble, said, driver, host, rt, proxy, outer, dispatch, log, callers>>

LocalForward ==
    /\ ep.at = "forwarding"
    /\ forward(ep.event)
    /\ UNCHANGED <<script, trouble, said, driver, inner, host, rt, proxy, outer, dispatch, log,
                   callers>>

\* The command to cancel, or a consumer that is gone.
LocalCancel ==
    /\ ep.at = "serving" /\ ~ep.gone /\ ~ep.cancelled
    /\ \/ host.command /\ ep' = [ep EXCEPT !.cancelled = TRUE]
       \/ ~chan.reader /\ ep' = [ep EXCEPT !.cancelled = TRUE, !.gone = TRUE]
    /\ stop' = [stop EXCEPT !.cancel = TRUE]
    /\ UNCHANGED <<script, trouble, said, driver, inner, host, chan, rt, proxy, outer, dispatch,
                   log, callers>>

ends_stream ==
    IF ep.gone THEN [chan EXCEPT !.terminal = "dropped"]
    ELSE [chan EXCEPT !.terminal = "sent", !.rest = into_events(ep.metadata, driver.result)]

\* A consumer that is gone is told nothing, and the reservation stays.
Bug_LocalDone_gone ==
    /\ ep.at = "serving" /\ Ready(inner) /\ received(inner, 1) = <<>> /\ ~ep.gone
    /\ chan' = ends_stream
    /\ ep' = [ep EXCEPT !.at = "done"]
    /\ UNCHANGED <<capsule, host, rt, proxy, outer, dispatch, log, callers>>

\* The completion and the end of the output are there: serve_local_execution sends the terminal
\* events, takes the state lock, gives up the reservation and signals done.  These are one step,
\* although the lock is awaited: whoever closes waits for done, and a command or a stream dropped
\* in between reaches a task that no longer reads it.  finish_failed_start ends the same way.
LocalDone ==
    /\ ep.at = "serving" /\ Ready(inner) /\ received(inner, 1) = <<>>
    /\ chan' = ends_stream
    /\ ep' = [ep EXCEPT !.at = "done"]
    /\ UNCHANGED <<capsule, host, rt, proxy, outer, dispatch, log, callers>>

EndpointStep ==
    StartReserved \/ LocalOutput \/ LocalForward \/ LocalCancel
    \/ LocalDone

\* close_local_run, for closers and for disconnect: under the lock, ...
local_close_begins ==
    host' = [host EXCEPT !.closed = TRUE, !.command = @ \/ Active]

\* ... the capsule runner's close_run, ...
local_close_runner == stop' = [closed |-> TRUE, cancel |-> stop.cancel \/ Driving]

\* The task is not waited for.
Bug_local_close_waits(waits) == ~Driving

\* ... and the wait for the driver and for the task.
local_close_waits(waits) == ~Driving /\ (waits => ~Active)

-----------------------------------------------------------------------------
(* The remote runner. *)

Lost == proxy.loss

prefer_pending_bridge_failure(result) ==
    IF result \in {"lost", "unconfirmed"} \/ ~rt.pending THEN result ELSE "failed"

\* bridge.finish, activity.finish and the end of the task, which drops the stream.
\* A loss it has found itself is promoted.
finish(result, loss) ==
    /\ rt' = [rt EXCEPT !.at = "finished", !.event = NoEvent,
                        !.result = prefer_pending_bridge_failure(result)]
    /\ outer' = sender_dropped(outer)
    /\ proxy' = [proxy EXCEPT !.registered = FALSE, !.loss = @ \/ loss]

\* remote_start: nothing is started once the connection is lost or the run closed.
RemoteStart ==
    /\ rt.at = "idle"
    /\ IF Lost \/ proxy.run_closed
       THEN /\ rt' = [rt EXCEPT !.at = "refused",
                                !.result = IF Lost THEN "lost" ELSE "run_closed"]
            /\ UNCHANGED proxy
       ELSE /\ rt' = [rt EXCEPT !.at = "starting"]
            /\ proxy' = [proxy EXCEPT !.registered = TRUE]
    /\ UNCHANGED <<capsule, ep, host, chan, outer, dispatch, log, callers>>

\* await_remote_start.  The endpoint answers the call, unless the call is pending on
\* its lock when one of the signals comes.
AwaitRemoteStart ==
    /\ rt.at = "starting"
    /\ \/ /\ ~proxy.cancel /\ (host.loss \/ host.closed)
          /\ finish(IF host.loss THEN "lost" ELSE "run_closed", host.loss)
          /\ UNCHANGED <<ep, chan>>
       \/ /\ ~proxy.cancel /\ ~host.loss /\ ~host.closed
          /\ rt' = [rt EXCEPT !.at = "reading"]
          /\ ep' = [ep EXCEPT !.at = "reserved"]
          /\ UNCHANGED <<chan, proxy, outer>>
       \/ Lost /\ finish("lost", FALSE) /\ UNCHANGED <<ep, chan>>
       \/ proxy.closed /\ finish("run_closed", FALSE) /\ UNCHANGED <<ep, chan>>
       \/ /\ proxy.cancel
          /\ rt' = [rt EXCEPT !.at = "start_cancelled"]
          /\ UNCHANGED <<ep, chan, proxy, outer>>
    /\ UNCHANGED <<capsule, host, dispatch, log, callers>>

\* pending_start_cancelled: a closing run waits for the end of the close.
PendingStartCancelled ==
    /\ rt.at = "start_cancelled"
    /\ \/ proxy.closing /\ Lost /\ finish("lost", FALSE)
       \/ proxy.closing /\ ~Lost /\ proxy.closed /\ finish("cancelled", FALSE)
       \/ ~proxy.closing /\ finish("cancelled", FALSE)
    /\ UNCHANGED <<capsule, ep, host, chan, dispatch, log, callers>>

\* The stream's next event, and what remains of it: the terminal events come last.
StreamReady == chan.queue # <<>> \/ chan.terminal # "pending"
StreamEnds == chan.queue = <<>> /\ chan.terminal = "dropped"
stream_next == Head(chan.queue \o chan.rest)
stream_rest ==
    IF chan.queue # <<>> THEN [chan EXCEPT !.queue = Tail(@)] ELSE [chan EXCEPT !.rest = Tail(@)]

reads(r) == [r EXCEPT !.at = "reading", !.event = NoEvent]

\* A failure ends the execution at once.
Bug_bridged(end, e) ==
    IF end.how \in {"wait", "ok", "cancelled"}
    THEN /\ outer' = end.q
         /\ rt' = IF end.how = "wait" THEN [rt EXCEPT !.at = "bridging", !.event = e] ELSE reads(rt)
         /\ UNCHANGED proxy
    ELSE finish("failed", FALSE)

\* handle_remote_bridge: output lost to a cancellation is not missed; any other
\* failure cancels the execution and is remembered.
bridged(end, e) ==
    /\ outer' = end.q
    /\ rt' = CASE end.how = "wait" -> [rt EXCEPT !.at = "bridging", !.event = e]
               [] end.how \in {"ok", "cancelled"} -> reads(rt)
               [] OTHER -> [rt EXCEPT !.at = "withdrawing", !.event = NoEvent]
    /\ UNCHANGED proxy

IsMessage(e) == e.kind \in Kinds

\* handle_remote_event: an event to record, the completion, or the end of the stream.  An output that into_live
\* refuses would end the task here; the endpoint in the same process sends only validated ones.
RemoteEvent ==
    /\ rt.at = "reading" /\ ~Lost /\ StreamReady
    /\ ~rt.closing => ~proxy.closing /\ (rt.cancellation_handled \/ ~proxy.cancel)
    /\ IF StreamEnds
       THEN finish("lost", TRUE) /\ chan' = [chan EXCEPT !.reader = FALSE]
       ELSE LET e == stream_next IN
            IF IsMessage(e)
            THEN /\ bridged(IF e.kind = "output" THEN send(outer, e, proxy.cancel)
                            ELSE send_terminal(outer, e, proxy.cancel), e)
                 /\ chan' = stream_rest
            ELSE finish(e.kind, FALSE) /\ chan' = [stream_rest EXCEPT !.reader = FALSE]
    /\ UNCHANGED <<capsule, ep, host, dispatch, log, callers>>

\* await_remote_bridge.
RemoteBridge ==
    /\ rt.at = "bridging"
    /\ IF Lost
       THEN finish("lost", FALSE) /\ chan' = [chan EXCEPT !.reader = FALSE]
       ELSE /\ LET e == rt.event
                   end == IF e.kind = "output" THEN send(outer, e, proxy.cancel)
                          ELSE reserve_terminal(outer, e, proxy.cancel)
               IN  end.how # "wait" /\ bridged(end, e)
            /\ UNCHANGED chan
    /\ UNCHANGED <<capsule, ep, host, dispatch, log, callers>>

\* The signals next_remote_input looks at before and after the stream.
RemoteSignal ==
    /\ rt.at = "reading"
    /\ \/ /\ Lost \/ (rt.closing /\ ~StreamReady /\ proxy.closed)
          /\ finish(IF Lost THEN "lost" ELSE "cancelled", FALSE)
          /\ chan' = [chan EXCEPT !.reader = FALSE]
       \/ /\ ~Lost /\ ~rt.closing /\ proxy.closing
          /\ rt' = [rt EXCEPT !.closing = TRUE, !.cancellation_handled = TRUE]
          /\ UNCHANGED <<chan, proxy, outer>>
       \/ /\ ~Lost /\ ~rt.closing /\ ~proxy.closing
          /\ proxy.cancel /\ ~rt.cancellation_handled
          /\ rt' = [rt EXCEPT !.at = "cancelling", !.cancellation_handled = TRUE]
          /\ UNCHANGED <<chan, proxy, outer>>
    /\ UNCHANGED <<capsule, ep, host, dispatch, log, callers>>

\* forward_cancel, for a cancelled handle ("cancelling") or a failed bridge
\* ("withdrawing"), and where its outcome leads.
forwarded(closing) ==
    /\ rt' = [reads(rt) EXCEPT !.pending = @ \/ rt.at = "withdrawing",
                               !.closing = @ \/ (closing /\ rt.at = "cancelling")]
    /\ UNCHANGED <<chan, proxy, outer>>

forward_lost ==
    /\ finish("lost", TRUE)
    /\ chan' = [chan EXCEPT !.reader = FALSE]
    /\ UNCHANGED host

ForwardCancel ==
    /\ rt.at \in {"cancelling", "withdrawing"}
    /\ \/ (Lost \/ (~proxy.closing /\ (host.loss \/ TimesOut))) /\ forward_lost
       \/ ~Lost /\ proxy.closing /\ forwarded(TRUE) /\ UNCHANGED host
       \/ /\ ~Lost /\ ~proxy.closing /\ ~host.loss
          /\ forwarded(FALSE)
          /\ host' = [host EXCEPT !.command = @ \/ Active]
    /\ UNCHANGED <<capsule, ep, dispatch, log, callers>>

\* The endpoint's loss reaches the runner.
ForwardLoss ==
    /\ host.loss /\ ~Lost
    /\ proxy' = [proxy EXCEPT !.loss = TRUE]
    /\ UNCHANGED <<capsule, ep, host, chan, rt, outer, dispatch, log, callers>>

RemoteStep ==
    AwaitRemoteStart \/ PendingStartCancelled \/ RemoteEvent \/ RemoteBridge
    \/ RemoteSignal \/ ForwardCancel

-----------------------------------------------------------------------------
(* The dispatch, on the controller. *)

Dispatched == rt.at \notin {"idle", "refused"}

\* A timeout of the node, or an interrupt of the supervisor.
Interrupt ==
    /\ "interrupt" \in trouble
    /\ proxy.registered /\ ~proxy.cancel
    /\ proxy' = [proxy EXCEPT !.cancel = TRUE]
    /\ UNCHANGED <<capsule, ep, host, chan, rt, outer, dispatch, log, callers>>

\* bridge_durable_events: a batch of events is appended, until the stream ends.
Persist ==
    /\ Dispatched /\ dispatch = "persisting" /\ Ready(outer)
    /\ outer' = recv_many(outer, Batch)
    /\ log' = log \o received(outer, Batch)
    /\ dispatch' = IF received(outer, Batch) = <<>> THEN "persisted" ELSE "persisting"
    /\ UNCHANGED <<capsule, ep, host, chan, rt, proxy, callers>>

\* The ledger refuses the batch: nothing more is read, and the handle is cancelled.
PersistFails ==
    /\ "append" \in trouble
    /\ Dispatched /\ dispatch = "persisting" /\ Ready(outer) /\ received(outer, Batch) # <<>>
    /\ outer' = [recv_many(outer, Batch) EXCEPT !.reader = FALSE]
    /\ dispatch' = "failed"
    /\ proxy' = [proxy EXCEPT !.cancel = @ \/ proxy.registered]
    /\ UNCHANGED <<capsule, ep, host, chan, rt, log, callers>>

\* observe_dispatch has the completion and the end of the output.
Settled == rt.at = "finished" /\ dispatch # "persisting"

-----------------------------------------------------------------------------
(* close_run on the remote runner, and disconnect on the endpoint. *)

BeginClose ==
    /\ "close" \in trouble /\ closer.at = "idle"
    /\ closer' = [closer EXCEPT !.at = "call"]
    /\ proxy' = [proxy EXCEPT !.run_closed = TRUE, !.closing = @ \/ proxy.registered,
                              !.cancel = @ \/ proxy.registered]
    /\ UNCHANGED <<capsule, ep, host, chan, rt, outer, dispatch, log, cutter>>

\* The control call to the endpoint's close_run.  The connection's loss and the
\* timeout abandon it wherever it is.
CloseCall ==
    /\ closer.at \in {"call", "runner", "wait"}
    /\ \/ /\ Lost \/ (closer.at = "call" /\ host.loss)
          /\ closer' = [closer EXCEPT !.at = "failed"]
          /\ UNCHANGED <<host, stop>>
       \/ /\ ~Lost /\ TimesOut
          /\ closer' = [closer EXCEPT !.at = "failed"]
          /\ UNCHANGED <<host, stop>>
       \/ /\ ~Lost /\ closer.at = "call" /\ ~host.loss
          /\ local_close_begins
          /\ closer' = [closer EXCEPT !.at = "runner", !.waits = Active]
          /\ UNCHANGED <<stop>>
       \/ /\ ~Lost /\ closer.at = "runner"
          /\ local_close_runner
          /\ closer' = [closer EXCEPT !.at = "wait"]
          /\ UNCHANGED <<host>>
       \/ /\ ~Lost /\ closer.at = "wait" /\ local_close_waits(closer.waits)
          /\ closer' = [closer EXCEPT !.at = "closed", !.ok = TRUE]
          /\ UNCHANGED <<host, stop>>
    /\ UNCHANGED <<script, trouble, said, driver, inner, ep, chan, rt, proxy, outer, dispatch, log,
                   cutter>>

CompleteClose ==
    /\ closer.at \in {"closed", "failed"}
    /\ closer' = [closer EXCEPT !.at = "settling"]
    /\ proxy' = [proxy EXCEPT !.closed = @ \/ proxy.registered, !.loss = @ \/ ~closer.ok]
    /\ UNCHANGED <<capsule, ep, host, chan, rt, outer, dispatch, log, cutter>>

\* A confirmed close waits for the task however long it takes, any other a moment.
WaitRun ==
    /\ closer.at = "settling"
    /\ closer.ok => ~proxy.registered
    /\ closer' = [closer EXCEPT !.at = "returned"]
    /\ UNCHANGED <<capsule, ep, host, chan, rt, proxy, outer, dispatch, log, cutter>>

CloserStep == CloseCall \/ CompleteClose \/ WaitRun

\* disconnect closes the runs it finds active.
Disconnect ==
    /\ "disconnect" \in trouble /\ cutter.at = "idle"
    /\ cutter' = [cutter EXCEPT !.at = "lock"]
    /\ host' = [host EXCEPT !.loss = TRUE]
    /\ UNCHANGED <<capsule, ep, chan, rt, proxy, outer, dispatch, log, closer>>

DisconnectCloses ==
    /\ \/ /\ cutter.at = "lock" /\ ~Active
          /\ cutter' = [cutter EXCEPT !.at = "returned"]
          /\ UNCHANGED <<host, stop>>
       \/ /\ cutter.at = "lock" /\ Active
          /\ local_close_begins
          /\ cutter' = [cutter EXCEPT !.at = "runner", !.waits = TRUE]
          /\ UNCHANGED stop
       \/ /\ cutter.at = "runner"
          /\ local_close_runner
          /\ cutter' = [cutter EXCEPT !.at = "wait"]
          /\ UNCHANGED host
       \/ /\ cutter.at = "wait" /\ local_close_waits(cutter.waits)
          /\ cutter' = [cutter EXCEPT !.at = "returned"]
          /\ UNCHANGED <<host, stop>>
    /\ UNCHANGED <<script, trouble, said, driver, inner, ep, chan, rt, proxy, outer, dispatch, log,
                   closer>>

-----------------------------------------------------------------------------

DriverStep == Emit \/ EmitWaits \/ ReportGivesUp \/ DriverReturns
DispatchStep == Interrupt \/ Persist \/ PersistFails

Next ==
    \/ DriverStep \/ EndpointStep
    \/ RemoteStart \/ RemoteStep \/ ForwardLoss
    \/ DispatchStep
    \/ BeginClose \/ CloserStep
    \/ Disconnect \/ DisconnectCloses

Spec == Init /\ [][Next]_vars

\* Tasks run when they can.  A driver has to return only once it is cancelled, and
\* nothing is assumed of the consumer of the log.
Fairness ==
    /\ WF_vars(EmitWaits) /\ WF_vars(stop.cancel /\ DriverReturns)
    /\ WF_vars(EndpointStep) /\ WF_vars(RemoteStep) /\ WF_vars(ForwardLoss)
    /\ WF_vars(CloserStep) /\ WF_vars(DisconnectCloses)

FairSpec == Spec /\ Fairness

-----------------------------------------------------------------------------
(* Properties. *)

Logged(i) == {n \in DOMAIN log : i \in log[n].of}
Marked(kind) == \E n \in DOMAIN log : log[n] = Incomplete(kind)
\* The connection held, and so did the ledger.
Delivered == Settled /\ dispatch = "persisted" /\ rt.result # "lost"

\* Every usage report and every error a driver had is in the log, once, or the log
\* says that some are missing; whatever queue was full and whatever was cancelled.
MetadataIsAccounted ==
    /\ \A i \in DOMAIN said : Cardinality(Logged(i)) <= 1
    /\ Delivered => \A i \in DOMAIN said :
         script[i] # "output" => Logged(i) # {} \/ Marked(script[i])

\* The log has the beginning of the driver's output, and its errors, in order: nothing is
\* skipped, nothing overtakes; and a success that was neither cancelled nor cut off has
\* all of it.
OutputHasNoGaps ==
    /\ \A i, j \in DOMAIN said : i < j /\ script[i] = script[j] /\ script[i] # "usage" =>
         /\ script[j] = "output" /\ Logged(j) # {} => Logged(i) # {}
         /\ \A n \in Logged(i), m \in Logged(j) : n < m
    /\ Delivered /\ rt.result = "ok" /\ ~proxy.cancel /\ ~host.loss =>
         driver.result = "ok" /\ \A i \in DOMAIN said : Logged(i) # {}

\* The remote task gives the execution up only when the capsule's driver is over and
\* confirmed, unless it reports that it does not know.
OwnsUntilCleanedUp ==
    rt.at = "finished" /\ rt.result \notin {"lost", "unconfirmed"} =>
        /\ ~Driving /\ ~Active
        /\ driver.at = "done" => driver.result # "unconfirmed"

\* After a confirmed close_run, and after disconnect, no driver runs and none starts.
ReleasedIsQuiet ==
    (closer.at = "returned" /\ closer.ok) \/ cutter.at = "returned" => ~Driving /\ ~Active

\* A cancelled execution ends for its caller although nobody reads its output; and the
\* driver of an execution that the runner has given up, whatever the reason, stops for good.
ExecutionsEnd ==
    /\ proxy.cancel ~> ~proxy.registered
    /\ rt.at = "finished" ~> [](~Driving)

\* close_run returns, and so does disconnect.
ReleasesReturn ==
    /\ closer.at # "idle" ~> closer.at = "returned"
    /\ cutter.at # "idle" ~> cutter.at = "returned"
=============================================================================
