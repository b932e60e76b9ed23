# Zeroshot: a TLA+ model of the native-v2 run

Zeroshot takes an admitted *graph* of agent nodes and runs it: a reducer decides which nodes to
dispatch, a supervisor runs them as provider processes and records every step in a durable ledger,
a runner pools provider sessions, a hosting target prepares, resumes and tears down the machines
they run on, and clients watch the run while it happens and page through it afterwards. This
directory models that core. TLC checks the models on small instances; TLAPS proves the safety of the
ledger, the supervisor, the session pool, the capsule, the hosting controller and the observers, and that
the supervisor implements its contract, for every instance.

Paths below are relative to `src/zeroshot/src/` unless they begin with `src/`.

## 1. Inventory

### The parts that carry the logic

| Component | State it keeps | Operations | Hard because | What makes it correct |
|---|---|---|---|---|
| **Run ledger** `v2_run_ledger*` | the row of `v2_runs` (the projection `RunSnapshot`), the rows of `v2_run_events` | `append` (a batch in one transaction), `request_force_stop`, `snapshot_and_tail` | every other part writes to it, also late and after a restart; a batch may be refused half-way | the projection is the replay of the log; executions start once and settle once; nothing runs once the outcome is latched; nothing follows the terminal event; a latched outcome and its evidence never change; token sums are exact |
| **Graph reducer** `full_v1_reducer*` | none: it is a pure function of graph and history | `reduce_native_v2` | completions arrive in any order, several between two calls; retries, races, quorums, maps, loops and nesting share one walk | every history the supervisor records is accepted; only winners are read; a revisit starts afresh; the graph ends |
| **Graph verifier** `src/crates/openengine-cluster-server/src/graph_verifier*` | none | static bounds, well-formedness | the bound must hold for every run | a run stays within the executions and the concurrency it proved |
| **Run supervisor** `native_v2_supervisor*` | `drive_turn`, force and loss flags, `resolution_stop`, the tasks, pending voids | `drive`, `advance`, dispatch, settle, `force_stop`, `runtime_lost`, `fail_runtime`, the postmortem, cleanup, terminal publication | three callers compete for one turn while node tasks finish; every append and every cleanup may fail | no process after the terminal event of a living controller; a process only for an active execution; stopped work is not retried; only the reducer makes a run succeed; a stop ends |
| **Portable engine** `native_v2_portable_controller/engine.rs` | the background task, the loss monitor | spawn, fail, force stop with a second drive | the failed drive and the forced one race for the turn | as above |
| **Platform controller** `native_v2_platform*` | runtime slots per run, preparation tasks, the submission and resume turns | `submit`, preparation with its timeout and cancellation, hand-over to an engine, `force`, `resume`, `discard`, reconciliation at startup | a 30 minute timeout, a force and a late allocation race; a force meets a slot that is about to hand over; the process may die anywhere | a force that succeeds leaves an ended run; every open run has an owner; a restarted controller comes to serve |
| **Hosting and allocator** `native_v2_hosting*` | process identities, the active capsules, and on disk a run directory, a recovery document and a checkpoint repository per run | allocate, retain, claim for a successor, roll a claim back, destroy or confirm absent | several files, none of them in a transaction; cleanup may fail and must be repeated | agent work is in exactly one place and reachable; identities are exclusive; a run ends after its teardown |
| **Node runner and session pool** `native_v2_runner*` | the activity registry (`active`, bindings, `closed_runs`), the pool entries (`Opening`, `Live`, `Replaceable`, `Lost`) | `start`, checkout, open, bind, drive, `finish`, `invalidate`, `close_run`, `close_session` | a task holds no lock while it opens or drives; two closes run at once | no session leaks or is offered after it was closed; a closed run is quiet; lost stays lost; closes return |
| **Observation** `native_v2_observability*` | the in-memory runtime entry, the subscriptions' cursors | `watch`, `logs`, `status`, history pages | pages are read, then folded, while events are appended; another process reads the same database | replays are exact; streams end, fully told; answers never become less final; history joins up |
| **Durable output** `native_v2_runner/output.rs` | a bounded queue, a side queue for usage and errors of a cancelled node, overflow marks | send, `send_terminal`, receive, drain | the queue is full when cancellation arrives | a usage report or an error is logged once, or its loss is marked |
| **Remote capsule** `native_v2_capsule*`, `native_v2_runner/remote.rs` | the endpoint's task and retained metadata, the proxy's activity, the stream between them | start, cancel, complete, `close_run`, `disconnect`, loss of the connection | control calls time out, cross and are lost while output is under way | the remote side gives an execution up only when it is over, or says that it does not know; closes return, and after them nothing runs |
| **Delivery and admission** `native_v2_delivery*`, `native_v2_admission*` | the receipt, the published branch | the structural rule for deliveries, the certificate at the end | losers and abandoned work beside a delivery | a delivery runs alone; success is certified only by a receipt nothing was written behind |
| **Server connection, client and follow** `src/crates/openengine-cluster-{server,client}`, `native_v2_cli/execution.rs` | the outbound queue, the client's bounded receivers, the last printed cursor | subscribe, pump, overflow, reconnect, detach | a connection is lost or a receiver overflows with frames on their way | every event is printed once and in order; the end is reported when all is printed; every follow ends |

The remaining parts (targets, adapters for providers and forges, rendering and parsing of the command
line and UI, templates, SDKs, checkpoints as file snapshots, process groups) are I/O, formats or wiring;
`PROJECT.json` lists each with its reason. All hazards met while reading, with the line where each
bites and the properties that would catch it, are there too.

### How the parts interact

```
 follow --client pump--server connection--> observation --reads--> ledger <--append-- supervisor <--owns-- engine
                                               ^                      ^                |   |                 ^
 profile UI (other process) -------------------+                      |      reduce(history)|                 |
                                                                      |                     v                 |
 submit, resume, force, discard --> platform controller --------------+   node runner -- sessions, drivers    |
                                      |    |      (hand-over, reconciliation)  |   (here, or in a capsule:    |
                                      |    +-----------------------------------|----remote task -- endpoint)--+
                                      v                                        v
                                    allocator: identities, run directories, documents, checkpoints
```

* The supervisor loads the history from the ledger, calls the reducer, appends dispatches and
  settlements, and waits for a task. It calls `close_run` on the runner when the run stops.
* `force_stop` sets a flag, closes the run in the runner, records the request in the ledger and
  asks for a drive of its own - all *beside* the driving turn.
* The runtime-loss monitor sets its flag and closes the run in the same way.
* The platform controller prepares a run (allocation, checkout, endpoint), hands it to an engine, and
  keeps the slot until the engine is done. A controller that starts first reconciles the documents of
  the allocator, then the runs it finds open: it destroys what is left of their runtime and appends an
  interrupted or the latched outcome.
* In a hosted run the runner is a proxy: the node executes in a capsule behind an endpoint, and output,
  completion and cancellation travel over a connection that may be lost.
* Observers in the controller share the ledger connection's mutex; the profile UI does not.

## 2. Modules and the code they model

| Module | Models | State | Actions |
|---|---|---|---|
| `RunSnapshot` | `v2_run_ledger/state.rs`: `apply_event` and its rules, event preparation | none (operators) | |
| `RunLedger` | the append transaction of `v2_run_ledger/sqlite.rs` | `stored` (the row), `events` (the log), `pending` (the transaction) | `BeginAppend`, `one_event`, `RefuseEvent`, `Commit`, `Rollback`, `request_force_stop` |
| `Supervisor` | `native_v2_supervisor*`, the engine, reconciliation | see its header | one per step between two awaits: `initialize`, `advance`, `dispatch`, `settle`, `latch_primary_graph`, `run_postmortem`, `close_run`, `cleanup_runtime`, `append_terminal`, `drain_*`, `fail_runtime`, `force_stop`, `runtime_lost`, `Crash`, `fail_orphaned_runtime`, `append_interrupted`, ... |
| `GraphReducer` | `full_v1_reducer*` in the native-v2 mode | none (a recursive walk) | |
| `RunContract` | what a run promises: the events of `v2_run_ledger.rs` and `RunRuntimeCleanup` | durable state of executions, outcome, result; processes alive; whether the controller that started them lives | `Start`, `Launch`, `Exit`, `Settle`, `Latch`, `Die`, `End` |
| `GraphRun` | the supervisor's advance loop around the reducer; the verifier's bounds; admission's rule for deliveries and `enforce_delivery_terminal` | `graph`, `history`, `cursor`, `pending` voids, `phase`, `result` | `advance`, `settle` |
| `RunObservation` | `native_v2_observability*` over `snapshot_and_tail`; the server's subscription loop, the client's pump and the durable follow of the command line | `ledger`, the runtime `entry`, subscriptions, followers, calls, readers | `append`, `open`, `recv`, `send_closed`, `pump`, `cut`, `next_or_detach`, `refresh_*`, `status*`, `runtime_failed`, `load_by_id`, `project_page`, ... |
| `NodeSessions` | `native_v2_runner.rs`, `native_v2_runner/state.rs` | the registry, the pool, the channels, one process per task and per closer | one per stretch between two awaits or lock releases: `start`, `checkout`, `wait_for_open`, `reuse`, `open_session`, `finish_open`, `bind_session`, `drive`, `finish`, `close_bound`, `close_pool`, `wait_for_activity`, ... |
| `RunHosting` | `native_v2_platform*`, `native_v2_hosting/allocator.rs` | on disk: ledger, run directories, documents, repositories; in memory: slots, preparation tasks, capsules, engines, calls and the teardown each runs | one per stretch between two awaits: submission, preparation, hand-over, force, resume and claim, the steps of a teardown, startup, `Crash` |
| `DurableOutput` | `native_v2_runner/output.rs` | none (operators on a bridge value) | |
| `CapsuleStream` | `native_v2_capsule*`, `native_v2_runner/remote.rs`, between two bridges of `DurableOutput` | driver, inner bridge, endpoint task, stream, remote task, outer bridge, log, close and disconnect calls | one per await of each of them |
| `RunLedgerProofs`, `SupervisorProofs`, `NodeSessionsProofs`, `CapsuleStreamProofs`, `RunHostingProofs`, `RunObservationProofs` | theorems about the module they are named for | | |
| `CapsuleOutputProofs` | extends `CapsuleStreamProofs`: what becomes of a driver's output and metadata | | |
| `RunHostingWorkProofs` | extends `RunHostingProofs`: no agent work is lost | | |
| `MC*` | instances for TLC | | |

Conventions. Names are the code's where TLA+ allows. A step ends where the code awaits or releases
a lock. Optional values are records of one shape with a distinguished empty value. Operators named
`Bug_*` stand before the definition they vary; each is a plausible mistake in that code, and
replacing the definition by it makes the property named in `PROJECT.json` fail.

How components are separated. The ledger is checked under *arbitrary* callers, so what is shown of
it holds for every supervisor. The supervisor is checked with an arbitrary reducer that obeys its
contract (it voids only active executions, ends only when none is active, dispatches fresh
identities); `GraphRun` checks that the real reducer obeys it, under the supervisor's loop. In the
supervisor the runner is reduced to its contract: an interrupted task ends, and nothing starts once
the run is closed; `NodeSessions` checks that contract for the local runner, `CapsuleStream` for the
remote one (there over the composition of both bridges and both tasks). Observers see the ledger as its
sequence of events. In `RunHosting` an engine is what `Supervisor` shows of it: it works, may need a
second drive, and ends its run after the cleanup.

`Supervisor` implements `RunContract` (`ImplementsRunContract`): the mapping takes the committed
projection, the set of processes and whether the controller lives (`served`), and forgets the turn, the
tasks, the flags and the fault budget. The contract is what other parts may rely on: a process only for an
active execution or the postmortem of a latched run, settled only without a process, latched over nothing
active, a graph result equal to the latched one, a force stop never over a latched one, and, as long as
the controller that started the processes lives, a result over nothing alive. After its death (`Die`)
nothing is started, settled or latched any more; the run is closed with its latched outcome or as lost,
over whatever processes survived, because the code that closes it does not look for them (section 5).

### Abstractions worth knowing

* Ledger: a cursor `v2:n` is the number n; token counters keep their upper bound (`MaxTokens`
  stands for 2^53-1) and are refused beyond it, as in the code; log text is left out, its
  diagnostic class is kept. Creating the run row is the initial state.
* Supervisor: whether the delivery check turns a success into a failure is a choice made when the
  reduction ends (the check itself is in `GraphRun`). Storage, cleanup and checkpoint failures share the budget `MaxFaults`, deaths of
  the controller the budget `MaxCrashes`. The cleanup is a hosted one, which succeeds only when the
  process tree is proved empty; the portable controller's `ConfirmedCleanup` confirms at once and leaves
  that to its runner. The process that a dead controller leaves behind stays in `processes` for good:
  reconciliation in a new controller does not touch it. A death may also interrupt reconciliation.
* Reducer: a state path's value is the sequence of executions it was made from, which is all that
  an input comparison or a promotion can distinguish. Schemas and payloads are left out, as are the
  attempt numbering of v1 graphs and the trace.
* Delivery: a verifier's `yes` stands for the matching receipt. Comment deliveries obey the same rule.
* Observation: an event is a log, a status change or the terminal. The 32 item channel between the
  client's stream and the follow is part of the receiver, the server's outbound queue part of the wire.
  The delivery of a cancel to the server is immediate: frames of a dropped subscription are ignored anyway.
* Hosting: a run directory is named by the lineage whose work it holds. Mutexes are not variables: who
  holds one is told by where the actors are. File operations are atomic, and may fail (`MaxFaults`).
  Left out: a removal that fails between the directory and its checkpoints, a failed write when a refused
  lease keeps the work for the successor, and the outcome latched before an engine gave up, which a force's
  drive would finish (`Supervisor` has it).
* Capsule: one execution; an event carries the set of items it reports, so that sums can be accounted.
  The terminal events, the removal of the reservation and the done signal are one step. Left out: an output
  that the remote side refuses to decode (the endpoint in the same process sends valid ones), and the usage a
  driver still records after it gave up reporting a failed cleanup.
* Sessions: a session is named by the execution that opened it; it may be lost at any moment.

## 3. Runs

State counts are distinct states.

| Run | Bounds | What it checks |
|---|---|---|
| `ledger` | 2 executions, 7 events, batches of 2, 3 tokens, 2 recorded failures (724,000 states) | `ExecutionLifecycle`, `QuiescentEnd`, `SeedIsHistory`, `EvidenceIsReadable`, `UsageAccounting`, `FailureContextFrozen`, `PrimaryIrrevocable`: whatever batches are submitted, also with foreign references, malformed outcomes and imported executions |
| `supervisor_safety` | 2 executions, 1 fault, 2 crashes; symmetry on executions (934,000 states) | `StoppedWorkIsNotRetried`, and the refinement `ImplementsRunContract` |
| `supervisor_finish` | 1 execution, 3 faults, 2 crashes, postmortem on (125,000 states) | `InterruptedPostmortemIsAccounted`, `StopEnds`, `CrashIsReconciled` |
| `graph_run` | nine graphs, one of which admission refuses (9,900 states) | `DeliveryIsExclusive`, `EveryRoundRunsAfresh`, `WithinStructuralBounds`, `OnlyWinnersAreRead`, `GraphEnds` |
| `graph_rounds`, `graph_abandoned` | one graph each | findings: `EveryRoundRunsAfresh`, `DeliveryIsExclusive` are violated |
| `observe` | 3 events, pages of 2, one frame on the wire and one in the receiver, one lost connection; one follower, two status calls or one history reader (278,000 states) | `ReplayIsExact`, `AnswersNeverRegress`, `HistoryJoinsUp`, `EndsFullyTold`, `ReadersReachTheEnd` |
| `sessions` | five casts of at most 2 executions and 2 closers (67,000 states) | `SessionsAreAccountedFor`, `ClosedRunIsQuiet`, `LostStaysLost`, `CloseReturns`, `ExecutionsMoveOn` |
| `sessions_raced_close` | one execution, two closers | finding: `CloseRunClosesSessions` is violated |
| `hosting` | one submitted run and one successor, one process identity, 1 crash, 1 fault (229,000 states) | `WorkIsKept`, `IdentitiesAreExclusive`, `EndsAfterTeardown`, `ForceEndsTheRun`, `OpenRunsAreOwned`, `CallsEnd`, `StartupServes` |
| `hosting_lineage` | the same with 2 crashes and no fault | finding: `RecoverableKeepsCheckpoints` is violated |
| `capsule` | nine casts: what the driver says and which disturbances come; queues of one event (182,000 states) | `MetadataIsAccounted`, `OutputHasNoGaps`, `OwnsUntilCleanedUp`, `ReleasedIsQuiet`, `ExecutionsEnd`, `ReleasesReturn` |

Why the bounds are enough for the questions asked.

* *Ledger.* The rules of `apply_event` relate one execution to the run's phase, or the newest
  imported execution to the one before it: two executions and batches of two show every pair.
  Seven events are a full life with two executions (start, two dispatches, two settlements, latch,
  terminal), or one with an import; the limits are met on the way. For the invariants that are proved the bounds do not matter at all.
* *Supervisor.* Tasks interact only through the turn and the stop flags, so two of them show one
  finishing while the other is awaited, voided or drained. One fault shows every single failing
  step; the second run allows three, so that a retry fails again, and with one execution pays for
  the postmortem. The second crash is one during reconciliation.
* *Graphs.* Each is the smallest with its feature: a race with a retrying branch; two of three with
  a reader; a race of a sequence against a race; two races at once (both can finish between two
  reductions); a loop with a join inside; a map whose item ends the graph, and one over its limit; a race, a delivery
  with a retry and a decision behind it; a delivery repeated until it succeeds with a writer that may
  follow it; a writer beside a delivery, which only admission keeps out.
* *Observers.* Observers of different kinds meet only in the runtime entry, where a subscription's
  refresh does what a status call does: it folds in a snapshot that may be stale. Two status calls
  show that race, so the audiences are checked apart. Three events with pages of one or two give a
  full page, a partial one and an append in between; with one place on the wire and one in the
  receiver, a third frame overflows it while one is buffered, also when the third is the close frame.
  Followers begin at every cursor, ahead of the run too, with and without backpressure.
* *Sessions.* A collision needs two parties on one entry: two executions and a close, an execution
  and two closes, or the executions of two runs of one owner.
* *Hosting.* Work passes from one run to one successor, whose death it has to survive; one identity
  makes the two compete for it. One crash shows every place a restart can begin from, one fault every
  failing file or cleanup operation; the lineage finding needs a second crash.
* *Capsule.* Queues of one event are full after one; each cast combines at most three kinds of event
  with the disturbances that can cross them. A usage sum that holds one report overflows at the second.

`CHECK_DEADLOCK FALSE` is said where the system may stop: a ledger at its last sequence number, a
supervisor, a runner or a capsule whose run is over, a graph at its end (where `GraphEnds` says more).

### Fairness

* `Supervisor`: weak fairness of the engine's task, of the holder of the turn, and of the callers
  of `force_stop` and `runtime_lost` (the async runtime polls what is runnable); of the end of an
  *interrupted* task (the runner selects on cancellation and close - this is what `ExecutionsMoveOn`
  and `CloseReturns` show of the runner, `ExecutionsEnd` of the capsule); of reconciliation once the controller died (it runs at
  start). Nothing is assumed of a node nobody interrupts, of clients or of failures.
* `GraphRun`: a run that can step does: the loop is polled, and workers finish. A node may have no
  timeout, so the second half is a condition, not a fact: `GraphEnds` says that the graph ends *if*
  its workers do.
* `RunObservation`: the server's subscription task, the client's pump and the follow loop are polled, a
  history reader keeps paging. Nothing obliges a run to end, a store to answer or a connection to
  fail; that a connection is lost only `MaxLosses` times means that one eventually holds.
* `NodeSessions`: tasks and closers are polled, a session that is being closed gets closed, a
  cancelled driver returns (the contract stated at `NodeDriver::run`). Nothing obliges a provider to
  finish opening a session, or an uncancelled driver to return.
* `RunHosting`: preparation tasks, engines, teardowns and startup are polled. A step that competes for
  a mutex (a force that wants the preparation turn or rebuilds an engine, the closing of an orphan) has
  strong fairness, since tokio's mutexes queue their waiters. Clients need not call.
* `CapsuleStream`: both tasks, a cancelled driver, a close and a disconnect are polled. Nothing obliges
  an uncancelled driver to return or the controller's dispatcher to read output.

## 4. Proofs

Eight modules prove theorems with TLAPS, each about the specification of the module it extends, for
every value of the constants that satisfies the module's `ASSUME`. A theorem that states a property
of a run has the run's property in its statement, so the run shows it on an instance and the theorem
for all.

| Theorem | States | Assumptions |
|---|---|---|
| `RunLedgerProofs!TypeCorrect` | `[]TypeOK`; no token counter leaves `0..MaxTokens` | `SnapshotAssumption`, `LedgerAssumption`: ids are positive, limits natural, client events are events |
| `!RunEndsQuiescent`, `!SeedStaysHistory`, `!EvidenceStaysReadable` | `QuiescentEnd`, `SeedIsHistory`, `EvidenceIsReadable` | |
| `!ExecutionsLiveOnce` | `ExecutionLifecycle` | |
| `!PrimaryNeverRevoked` | `PrimaryIrrevocable` (action property) | |
| `!HistoryInvariant` | row and log tell the same story, at every instant of a transaction | `ContextAssumption`: a caller reports a failure without a context, unless it forwards the latched result |
| `!UsageAddsUp`, `!ContextFreezes` | `UsageAccounting`, `FailureContextFrozen` | |
| `SupervisorProofs!Invariant` | the inductive invariant | `SupervisorAssumption`: finitely many executions, the postmortem none of them |
| `!StoppedWork`, `!InterruptedPostmortem` | `StoppedWorkIsNotRetried`, `InterruptedPostmortemIsAccounted` | |
| `!LedgerIsFinal` | no step changes the ledger behind the terminal event (action property) | |
| `!Refinement` | `ImplementsRunContract` | |
| `NodeSessionsProofs!Invariant` | the inductive invariant | `ExecAssumption`: executions and runs are positive, a close names a run or everything |
| `!SessionsAccounted`, `!ClosedRunQuiet` | `SessionsAreAccountedFor`, `ClosedRunIsQuiet` | |
| `!LostIsFinal` | `LostStaysLost` (action property) | |
| `CapsuleStreamProofs!Invariant` | the inductive invariant | `StreamAssumption`, `CapacityAssumption`: a script is a sequence of reports, capacities are positive |
| `!ExecutionIsOwned`, `!ReleaseIsQuiet` | `OwnsUntilCleanedUp`, `ReleasedIsQuiet` | |
| `CapsuleOutputProofs!WayInvariant` | the inductive invariant on the items between driver and log, relative to the one above | |
| `!OutputIsWhole`, `!MetadataHasAccount` | `OutputHasNoGaps`, `MetadataIsAccounted` | |
| `RunHostingProofs!Invariant` | the inductive invariant | `HostingAssumption`: identities are numbers and `NoIdentity` is none of them |
| `!IdentityExclusion`, `!TeardownComesFirst`, `!ForceIsEffective`, `!Ownership` | `IdentitiesAreExclusive`, `EndsAfterTeardown`, `ForceEndsTheRun`, `OpenRunsAreOwned` | |
| `RunHostingWorkProofs!WorkInvariant` | the inductive invariant on the work on disk, relative to the one above | |
| `!WorkSurvives` | `WorkIsKept` | |
| `RunObservationProofs!Invariant` | the inductive invariant | `BoundsAssumption`: pages, wires and receivers have room for something |
| `!ReplayExact`, `!EndsTold` | `ReplayIsExact`, `EndsFullyTold` | |
| `!AnswersHold` | `AnswersNeverRegress` | |
| `!HistoryJoins` | `HistoryJoinsUp` | |

The bounds of the runs disappear with this: the theorems hold for any number of faults and crashes,
any number of executions, slots, concurrent closes and runs, any queue capacity and batch, any script
of a driver, any number of followers, callers and readers and of connections they lose. (`MaxEvents` and
`MaxLosses` are bounds of the observation model's actions; the theorems hold for every value of them.)

### The arguments

**Ledger.** The committed row changes only by `Commit`, which copies the transaction's row, so an
invariant of `stored` must hold of `pending.stored` as well, and the two must be tied: whatever
outcome the committed row has latched, the open transaction still has. And the rules refer to one
another: that evidence stays readable needs that nothing is dispatched or imported once the outcome
is latched, which needs that a run with an outcome has been started. The inductive invariant is

```
LedgerInv == TypeOK /\ SnapshotInv(stored) /\ SnapshotInv(pending.stored)
             /\ (pending.open => Keeps(stored, pending.stored))
```

where `SnapshotInv` is the conjunction `Quiescent`, `Unstarted` (nothing ran and nothing is latched
before the run starts), `OrderedSeed` and `Evidence`. The argument has three layers: `ApplyType` and
`ApplyFrame` (what each kind of event may touch), `ExecutionStep` (what an accepted event does to
one execution), `SnapshotInvStep` (an accepted event keeps `SnapshotInv`); then `LedgerStep`, one step
per action. `ExecutionsLiveOnce` is about the log, so `LogInv` ties each execution's place in the
projection to the events in the log that put it there, for the committed pair and for the open
transaction.

`UsageAccounting` and `FailureContextFrozen` compare the row with folds over the log (`Total`, `Replay`),
which are recursive functions. `HistoryInv` carries such a function with the log instead of computing
it: there is a running sum, or a sequence of projections, whose last member is what the row shows, and
`SumGrows` and `ToldStep` lengthen it by the event that is appended. That there is only one, so that it is
the one the property names, is shown at the least number where two would differ (`RunningSumUnique`,
`ProjectionsUnique`). `Accounts` has to follow the sum of the cache counter also while the row hides it.
`PreparedIsFrozen` is where the transaction's own copy matters: `prepare_event` reads the context from it, so
diagnostics of the same batch are in. `ContextAssumption` is what the code's callers do: all of them build a
failure with `context: None` (`native_v2_supervisor.rs:536`, `native_v2_supervisor/logging.rs:86`,
`full_v1_reducer/evaluation.rs:118`, `full_v1_reducer/evaluation/state.rs:73`).

**Supervisor.** The invariant says who holds `drive_turn` and who is queued for it (`TurnOwned`,
`QueueOwned`), what the driver may take for granted where it is (`PlaceSound`), to whom tasks and
processes belong (`WorkOwned`), what reconciliation read and can still rely on (`OrphanSound`), that a
flag is up before work is stopped (`IntentFirst`), and where an execution that was cut short may look
like a crash (`CutSound`): the last two are why `StoppedWorkIsNotRetried` holds although the driver
reduces after it was interrupted. `AbortedSound` carries the usage mark of a postmortem that was
interrupted through every way the run may end from there. After a crash (`DeadSound`) nobody drives and
nobody waits, and the outcome reconciliation read is the recorded one; that no process is alive is claimed
only while the controller lives. The refinement then needs no more: a crash is the contract's `Die`
(`OnlyCrashKills`: nothing else ends the service), and every other action, under the invariant, is a step
of `RunContract` under the mapping or leaves it unchanged.

**Sessions.** `SessionsAreAccountedFor` is about a session that nobody names: it needs that no one but
its opener knows a session before it is published (`KnownOncePublished`), that sharers agree on the
pool's key (`SharedByKey`), that the pool does not offer what is about to be closed (`NotOffered`) and
that a closing session has an attendant (`ClosingAttended`). `ClosedRunIsQuiet` needs what a closer has
achieved where it is (`CloserSound`), and that no late opener revives an entry behind a closer that
emptied the pool (`EmptiedStaysEmpty`).

**Capsule.** The endpoint's task, the driver and the bridge between them go through their phases together
(`EndpointInv`); nothing is reserved before the remote task was answered (`RemoteInv`); a stream that
was ended is read to an ending that tells of an unconfirmed cleanup (`EndingInv`); a close and a
disconnect confirm only what they waited for (`CloseInv`, `DisconnectInv`). The operators of
`DurableOutput` enter through lemmas on what each bridge call may change.

**Capsule output.** An item is in one of six places: the log, the controller's bridge, the remote task's
hand, the stream, what the endpoint holds or keeps back, the capsule's bridge (`Way`). `OrderInv` says that
the places are in order from the log back, that every event in them is genuine, and that only a usage event
reports more than one item; so no item is logged twice and no two of a kind swap, although a cancellation
opens a second queue in each bridge and makes the endpoint keep metadata back. `GapInv` is about output,
which may be lost on purpose: what got past a place is the beginning of what was said, for as long as
that place still passes output on (`Flowing`, `Passing`). That these flags never come back is a lemma on
every action (`Onward`), and who may set them, and who then knows, is `CancelInv`: the driver is told to
stop only for a reason that stops the places behind it too, which is why output accepted after a refusal
is never logged. `AccountInv` is about usage and errors, which must not be lost silently: an item that is nowhere on
its way belongs to a kind that some bridge remembers as overflowed, the endpoint's metadata as incomplete,
or a marker on the way names. `KeepInv`, `ResultInv` and `LedgerInv` empty the places one by one when the
execution is over and the dispatch has seen the end of the stream, so that in the end only the log is left
to answer. A step of the system moves events from one place to the next; `Moves` and `Thins` say when that
keeps the order, `GapStep` and `AccountStep` what it owes to the other two, and `Sends`, `Receives`,
`Retains` and `Tells` what the bridges, the endpoint's metadata and its terminal events do to an event.

**Hosting.** Four actors may tear one run down: its preparation task, its engine, a call and startup.
`JobOK` and `RunOK` say why no two do so against each other: a caller's teardown concerns a run whose
task is at rest, a task's concerns its own run, and by the time a terminal event is appended the capsule
is inactive. A force call may therefore report success from what it sees of the run (`ForceEndsTheRun` is
part of the invariant: its run stays ended). `StartInv` keeps a force away from a run that is accepted
and not yet started. The proof reduces each action to its effect on these (`Effect`), and shows each
part to survive every effect. For identities a step leases one that no capsule has and no process runs
under, populates the one its run leased, or gives back (`Leases`, `Populates`, `Releases`).

**Work.** `WorkIsKept` is about files that no transaction covers: a directory, and two documents that a
claim writes one after the other before the directory is renamed. `WInv` adds to the controller's
invariant what the disk must look like wherever a crash or a fault may interrupt. Directories are apart and
kept work is in one (`RootInv`); it needs that a run which has not made its directory has left no trace of
its name, or a new directory could meet an old one. A capsule that may not leave its workspace behind has no kept
work in it, and a preparation's own document offers nothing (`BuildInv`): so `cleanup_state` never disposes
of kept work by way of ineligibility. The source of a handoff has ended (`SourceInv`), so the rename takes
the directory from nobody. A teardown and a working engine exclude each other (`JobEngineInv`), and a
successor whose document startup removes has no directory (`UnlinkInv`). `SettledInv` is the point: whoever
may append a terminal event next, engine or teardown, has already left a document that offers the work or
names its successor, so no crash between the two loses it. The proof names the five things a step does to
the disk (`DiskStep`: rewrite documents so that offers of kept work stay, shed a directory, make one, move
one, begin to keep one) and where a run comes to be offered (`Recovers`); each part of `WInv` follows from
these and the step's effect.

**Observation.** What a follower has printed, what is in its receiver, on the wire and pending in its
subscription are adjacent stretches of one sequence, the notifications due from the cursor it started at
(`Carries`): each once, in order, with the status of its own cursor, and a close frame last or not at all.
Stretches join, lose their head to the next stage and, when a connection is cut, keep a prefix; a
reconnection begins a new stretch at the cursor last printed. Those are lemmas on sequences, and they rest
on the listing that `InOrder` chooses: that every finite set of cursors has one is proved by the
least-number principle (no set without a listing is smallest) instead of induction. `FollowInv` also says what a subscription may believe: a page
was read with a snapshot that is genuine for the ledger though perhaps no longer its head (`Genuine`), and
a stream closed as done had ended (`Concludes`). For status calls the entry in memory is never ahead of the
ledger and final only when the run is (`EntryInv`); whatever was answered stays known to the entry or to
the ledger (`ToldInv`); and a call that began after a final answer can only find the end, however old the
snapshot in its hand (`CallInv`).

Every inductive invariant was checked with TLC on the instance of its runs before it was proved.

### Only model-checked

* liveness (`StopEnds`, `CrashIsReconciled`, `GraphEnds`, `ReadersReachTheEnd`, `CloseReturns`,
  `ExecutionsMoveOn`, `CallsEnd`, `StartupServes`, `ExecutionsEnd`, `ReleasesReturn`): the prover has
  no rule for fairness and `ENABLED`;
* everything about the reducer (`DeliveryIsExclusive`, `EveryRoundRunsAfresh`, `WithinStructuralBounds`,
  `OnlyWinnersAreRead`): it is a recursive walk, and recursive operators are outside the prover.

## 5. Findings

Four runs show the code doing other than a comment, a document, an assertion or a test says;
`PROJECT.json` quotes the lines.

1. **A loop's next round may re-read old verdicts** (`graph_rounds`). Visit numbers live in the walk's
   context; an unreached join, and the losers of a reached one, drop theirs, so the next round finds
   the old executions at visit 1.
2. **A delivery may run beside work abandoned in an unreachable join** (`graph_abandoned`). A map that
   one item ends inside a join that cannot be reached never has its other items voided, and the graph
   goes on: a delivery that follows starts while they run, although its graph passed admission's rule.
   Without a delivery the graph's end meets the running items and the supervisor fails the run.
3. **The second of two concurrent `close_run` calls returns too early** (`sessions_raced_close`). The
   first has taken the entries and closes them outside the lock; the second finds nothing to wait for.
4. **A claim that is rolled back twice interrupted loses the checkpoints of its source**
   (`hosting_lineage`). The rollback re-offers the source and then removes the successor's document; a
   death between the two leaves a document nothing looks at again, and destroying the successor
   disposes of the repository it names.

Observations, not backed by a run of their own:

* After a restart the acknowledgement that a runtime is gone says nothing about its processes, although
  `native_v2_platform/contracts.rs:54` calls `CapsuleDestroyed` the acknowledgement "that the disposable
  runtime no longer exists". A controller that reconciles a run of its predecessor gets it from directories
  and documents (hosting, `allocator.rs:798-832`) or at once (single run, `controller.rs:483-486`), and
  closes the run while a provider process of the dead controller may still be alive. In `Supervisor` a
  crash over a running provider followed by `finish_lost_runtime` reaches `orphan.at = "destroyed"` with
  `processes # {}`; `RunContract` therefore conditions its promise on `served`.
* `PrimaryGraphCompleted` calls itself the irrevocable main outcome, but a cleanup or checkpoint error
  after the latch sends the engine to `fail_runtime`, whose terminal `runtime_failed` overrules it. A
  restart at the same point keeps the latched outcome. `RunContract!End` therefore lets failures of the
  runtime, and nothing else, overrule.
* `snapshot_page` is two SELECTs outside a transaction, although `v2_run_ledger.rs` says twice that
  snapshot and tail are read atomically. In the controller the connection's mutex makes it so; for the
  other process the history reader pins its page to the head, and `HistoryJoinsUp` shows that this is enough.
* Output emitted as final after a cancellation is accepted in the capsule, but the endpoint retains only
  metadata and the remote side drops it, although `native_v2_runner.rs` says it is still recorded. A
  disconnect that races a successful completion drops ordinary output of a result that is reported ok.
* A force stop recorded between `initialize`'s load and its append of `RunStarted` makes that append
  fail: the run ends as `runtime_failed`, not `force_stopped`.
* `fail_orphaned_runtime` works from a row read before it holds the claim. The ledger refuses its
  batch if the set of active executions moved, so the run is not corrupted; it is closed later.
* A force that waits for a preparation which hands over to an engine that needs a second drive returns
  success before that drive (`force_preparing`'s `None` branch; the exception in `ForceEndsTheRun`).
* A controller that dies during a checkout leaves a partly installed workspace, which is offered for
  recovery. A process that survives under the lowest free identity blocks every allocation, because
  the allocator always tries that one. `RunHosting!destroy` leaves such a process alone, too.
* `initialize_allocated` tracks the snapshot taken at submission again, so a status answer may carry
  a lower cursor than an earlier one (its finality never regresses: `AnswersNeverRegress`).
* A watch ended by a failure that only the controller's memory knows may miss events appended
  between its last page and the check; `EndsFullyTold` therefore promises what its snapshot held.
* A panicking driver or factory unwinds the task before it leaves the registry; a close or a waiter
  would then wait forever. The model has no panics.
* With owner-kept sessions, a slow closer that holds a binding from before may invalidate a session
  the owner's next run has already taken over; the session is closed properly, the new run loses it.

## 6. Plan

Done: `RunSnapshot`, `RunLedger`; `Supervisor` and its refinement of `RunContract`;
`GraphReducer` with `GraphRun`, now with deliveries; `RunObservation`, now to the printed line of a
follow; `NodeSessions`; `RunHosting`; `DurableOutput` and `CapsuleStream`.

Proved: every safety property of `RunLedger`, `Supervisor`, `NodeSessions`, `RunHosting`, `CapsuleStream`
and `RunObservation`, and the refinement of `RunContract`.

Left: the reducer, whose properties would need it restated without recursion.

Candidates for later modules: the checkpoint catalogue, the exactly-once publication of a delivery
against the state of the forge, and the controller's lease.

## 7. Not modelled

Schema creation and migration, JSON encoding of rows, event and payload schemas; live attachment to
a node's output and the list view; the first protocol's `watch` (its observation stores are fixtures)
and the translation of cursors by a hosting target; connection resolution and the environment of a
node; admission's validation of bindings, lanes and credentials; the sandbox, ownership and modes of a
hosted process, the delivery id restored from a workspace, a run directory without a workspace; several
executions over one capsule connection and the wire format of its calls; provider command lines and
parsers; forge and git commands; process groups (a process is a member of a set that the cleanup of a
living controller empties); checkpoint snapshots of the file system (the imported executions that a resumed run starts
from *are* modelled); active memory, user interfaces, SDKs and packaging. Most of the repository's lines
are of these kinds, so the modelled lines are a small share of it; they are the ones where order,
failure and concurrency decide. The reasons, per component, are in `PROJECT.json`.

## 8. Running it

```
tlc -workers 2 -config supervisor_safety.cfg MCSupervisor     # any cfg with the module of its run
tlapm RunHostingProofs.tla                                    # any *Proofs module
```

From nothing the proofs take about a minute for `CapsuleStreamProofs`, two each for `RunLedgerProofs` and
`NodeSessionsProofs`, three for `RunHostingWorkProofs`, four for `SupervisorProofs` and
`RunObservationProofs`, and five for `RunHostingProofs` and `CapsuleOutputProofs`.
