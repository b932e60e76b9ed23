----------------------------- MODULE RunLedger -----------------------------
(***************************************************************************)
(* The durable ledger of one run (v2_run_ledger.rs, v2_run_ledger/         *)
(* sqlite.rs): the row of v2_runs with the run's projection, the rows of   *)
(* v2_run_events, and the transaction that appends a batch.                *)
(*                                                                         *)
(* A batch is applied event by event to the transaction's copy of the run  *)
(* (struct PendingAppend) and becomes visible as a whole when it commits.  *)
(* An event the projection refuses, a storage failure or the death of the  *)
(* process drops the transaction.  Callers are unconstrained: any sequence *)
(* of the events in ClientEvents may be submitted, so what is shown here   *)
(* holds whatever the supervisor, its recovery or a late runner does.      *)
(***************************************************************************)
EXTENDS RunSnapshot

CONSTANTS ClientEvents,   \* the events callers submit
          MaxSequence,    \* largest sequence number (i64::MAX in the code)
          MaxBatch        \* longest batch a caller submits

ASSUME LedgerAssumption ==
    /\ ClientEvents \subseteq RunEvent
    /\ MaxSequence \in Nat
    /\ MaxBatch \in Nat

\* A caller leaves the context of a failure to the ledger, unless it forwards the latched result.
ASSUME ContextAssumption ==
    \A e \in ClientEvents :
        e.kind \in {"primary_graph_completed", "terminal"} /\ e.result.reason = "failed" =>
            ~e.result.context.present

VARIABLES stored,     \* v2_runs.stored_json: the committed projection
          events,     \* v2_run_events: the committed events, in sequence order
          pending     \* the open append transaction

vars == <<stored, events, pending>>

NoAppend == [open |-> FALSE, stored |-> admitted, appended |-> <<>>]

Init == stored = admitted /\ events = <<>> /\ pending = NoAppend

-----------------------------------------------------------------------------
\* append_transaction: load the run under the connection's mutex.
BeginAppend ==
    /\ ~pending.open
    /\ pending' = [open |-> TRUE, stored |-> stored, appended |-> <<>>]
    /\ UNCHANGED <<stored, events>>

\* A caller forwards the result of the latched primary graph as the terminal result.
LatchedTerminal(s) ==
    IF HasPrimary(s) THEN {[kind |-> "terminal", result |-> s.primary.result]} ELSE {}

Submitted == ClientEvents \cup LatchedTerminal(pending.stored)

next_sequence == pending.stored.cursor + 1

Admissible(e) == next_sequence <= MaxSequence /\ Accepts(pending.stored, e)

\* Mutant: the committed row, not the transaction's copy, is consulted for the failure context.
Bug_one_event_prepares_from_committed(e) ==
    LET prepared == prepare_event(stored, e)
    IN  /\ pending.open
        /\ Len(pending.appended) < MaxBatch
        /\ Admissible(prepared)
        /\ pending' = [pending EXCEPT
                !.stored = apply_event(@, prepared, next_sequence),
                !.appended = Append(@, prepared)]
        /\ UNCHANGED <<stored, events>>

\* PendingAppend::one_event: prepare, number, project and insert the next event of the batch.
one_event(e) ==
    LET prepared == prepare_event(pending.stored, e)
    IN  /\ pending.open
        /\ Len(pending.appended) < MaxBatch
        /\ Admissible(prepared)
        /\ pending' = [pending EXCEPT
                !.stored = apply_event(@, prepared, next_sequence),
                !.appended = Append(@, prepared)]
        /\ UNCHANGED <<stored, events>>

\* An event that is refused takes the whole batch with it.
RefuseEvent(e) ==
    /\ pending.open
    /\ Len(pending.appended) < MaxBatch
    /\ ~Admissible(prepare_event(pending.stored, e))
    /\ pending' = NoAppend
    /\ UNCHANGED <<stored, events>>

\* update_stored_run and commit: events and projection change together.
Commit ==
    /\ pending.open
    /\ pending.appended # <<>>
    /\ stored' = pending.stored
    /\ events' = events \o pending.appended
    /\ pending' = NoAppend

\* A storage error, or the process dies: SQLite rolls the transaction back.
Rollback ==
    /\ pending.open
    /\ pending' = NoAppend
    /\ UNCHANGED <<stored, events>>

\* request_force_stop: one transaction that reads, decides and appends.
request_force_stop ==
    LET e == [kind |-> "force_stop_requested"]
    IN  /\ ~pending.open
        /\ ~stored.forceStop /\ ~IsTerminal(stored)
        /\ stored.cursor < MaxSequence
        /\ stored' = apply_event(stored, e, stored.cursor + 1)
        /\ events' = Append(events, e)
        /\ UNCHANGED pending

Next ==
    \/ BeginAppend
    \/ \E e \in Submitted : one_event(e) \/ RefuseEvent(e)
    \/ Commit
    \/ Rollback
    \/ request_force_stop

Spec == Init /\ [][Next]_vars

-----------------------------------------------------------------------------
(* Properties *)

\* The committed row, the log and the open transaction are well formed; in particular no token
\* counter ever exceeds MaxTokens, whatever deltas are submitted.
TypeOK ==
    /\ stored \in Snapshot
    /\ events \in Seq(RunEvent)
    /\ pending \in [open: BOOLEAN, stored: Snapshot, appended: Seq(RunEvent)]

Kind(i) == events[i].kind
Settles(i, e) == Kind(i) \in {"node_completed", "execution_voided"} /\ events[i].reference.execution = e
Starts(i, e) == Kind(i) = "node_started" /\ events[i].reference.execution = e

\* The projection a watcher has folded from the first n events of the log.
Replay[n \in 0..Len(events)] ==
    IF n = 0 THEN admitted ELSE apply_event(Replay[n - 1], events[n], n)

\* An execution is dispatched at most once and settled at most once, in that order, and the
\* projection agrees with the log about which of the three it is in.  A late completion, a void
\* racing a completion or a retry with a used identity would show up here.
ExecutionLifecycle ==
    \A e \in ExecutionIds :
        LET started == {i \in 1..Len(events) : Starts(i, e)}
            settled == {i \in 1..Len(events) : Settles(i, e)}
            node == stored.executions[e]
        IN  /\ node.state = "absent" <=> started = {}
            /\ node.state # "absent" => started = {node.startedAt}
            /\ node.state \in {"completed", "voided"} => settled = {node.settledAt}
                                                         /\ node.startedAt < node.settledAt
            /\ node.state \in {"absent", "active"} => settled = {}

\* No execution is active once the primary outcome is latched or the run is terminal, in the
\* committed state and inside every transaction.
QuiescentEnd ==
    \A s \in {stored, pending.stored} :
        HasPrimary(s) \/ IsTerminal(s) => active_executions(s) = {}

\* The imported prerequisites and this run's own dispatches never share an identity, and the
\* imported history is strictly ordered: the reducer resumes over both as one history.
SeedIsHistory ==
    /\ \A e \in SeedIds(stored) : stored.executions[e].state = "absent"
    /\ \A i, j \in 1..Len(stored.seed) : i < j =>
            /\ stored.seed[i].execution < stored.seed[j].execution
            /\ stored.seed[i].position < stored.seed[j].position

\* A delivery receipt that certified the primary outcome can always be read back: whatever is
\* appended later, the execution it names is recorded with a verifier output.
EvidenceIsReadable ==
    HasPrimary(stored) /\ stored.primary.delivery # NoExecution
        => execution_output(stored, stored.primary.delivery)

Observed == {i \in 1..Len(events) : Kind(i) \in {"token_usage_observed", "run_token_usage_observed"}}
Reported == {i \in Observed : events[i].usage.known}

\* What each event of the log adds to the counters, and the sum of such a sequence.
Tokens == [i \in 1..Len(events) |-> IF i \in Reported THEN events[i].usage.tokens ELSE 0]
Cache == [i \in 1..Len(events) |-> IF i \in Reported THEN events[i].usage.cache ELSE 0]
Total(a) == LET sum[n \in 0..Len(a)] == IF n = 0 THEN 0 ELSE sum[n - 1] + a[n] IN sum[Len(a)]

\* The run's token usage is the sum of every delta the log holds, it is complete exactly when no
\* observation was unreported, and a cache counter that is shown is the sum over every reported
\* delta.  An overflowing delta is refused, never wrapped or dropped from one counter only.
UsageAccounting ==
    /\ stored.usage.known <=> Observed # {}
    /\ stored.usage.tokens = Total(Tokens)
    /\ stored.usage.complete <=> Observed # {} /\ Reported = Observed
    /\ stored.usage.cache # NoTokens => stored.usage.cache = Total(Cache)

\* Every failure the log records carries the diagnostics that were logged before it, also those
\* of its own batch; a terminal event may instead repeat the context frozen when the primary
\* outcome was latched, whatever was logged in between.
FailureContextFrozen ==
    \A i \in 1..Len(events) :
        Kind(i) \in {"primary_graph_completed", "terminal"} /\ events[i].result.reason = "failed" =>
            \/ events[i].result.context = Replay[i - 1].failure
            \/ /\ Kind(i) = "terminal"
               /\ HasPrimary(Replay[i - 1])
               /\ events[i].result = Replay[i - 1].primary.result

\* The main outcome is irrevocable: once latched, no later batch, force stop or terminal event
\* changes its result or its evidence.
PrimaryIrrevocable ==
    [][HasPrimary(stored) => /\ stored'.primary.result = stored.primary.result
                             /\ stored'.primary.delivery = stored.primary.delivery]_vars
=============================================================================
