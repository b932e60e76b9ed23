----------------------------- MODULE Supervisor -----------------------------
(***************************************************************************)
(* One run's supervisor (native_v2_supervisor.rs and its controller,       *)
(* runtime, failure and postmortem companions), the engine that owns it    *)
(* (native_v2_portable_controller/engine.rs) and the platform controller's *)
(* reconciliation of a run whose engine is gone (native_v2_platform.rs).   *)
(*                                                                         *)
(* Every driver of the run holds drive_turn: the engine's drive, the drive *)
(* a force stop asks for, and fail_runtime.  Beside it run the node tasks, *)
(* the caller of force_stop, the runtime-loss monitor and, once the engine *)
(* is gone, reconciliation.  Between two awaits a step is atomic.  The     *)
(* reducer is any function that obeys its contract: it voids only active   *)
(* executions, ends only when none is active, dispatches only fresh        *)
(* identities and waits only for active ones.                              *)
(*                                                                         *)
(* The runtime is a hosted one: its cleanup succeeds once the process tree *)
(* is proved empty.  (The portable controller's ConfirmedCleanup confirms  *)
(* at once and leaves the processes to its runner.)                        *)
(***************************************************************************)
EXTENDS Integers, Sequences, FiniteSets

CONSTANTS Executions,          \* identities the reducer may dispatch
          PostmortemEnabled,   \* active memory and its postmortem are configured
          MaxFaults,           \* storage, cleanup and checkpoint failures
          MaxCrashes           \* deaths of the controller process

Postmortem == "postmortem"

ASSUME SupervisorAssumption ==
    /\ IsFiniteSet(Executions) /\ Postmortem \notin Executions
    /\ PostmortemEnabled \in BOOLEAN
    /\ MaxFaults \in Nat
    /\ MaxCrashes \in Nat

VARIABLES
    ledger,       \* the committed projection of the run
    turn,         \* the driver that holds drive_turn and where it is
    waiting,      \* the callers queued on drive_turn, first come first served
    flags,        \* force_requested, runtime_lost, resolution_stop, the runner's closed run
    tasks,        \* ActiveDispatches.tasks
    voids,        \* ActiveDispatches.pending_voids
    cancelled,    \* executions whose cancellation was sent
    processes,    \* executions, or the postmortem, whose provider process may be alive
    engine,       \* the engine's background task
    force,        \* the caller of force_stop
    loss,         \* wait_for_runtime_loss and runtime_lost
    orphan,       \* reconciliation of the run after its engine is gone
    faults, crashes,
    aborted,      \* history: a postmortem ended without an account of its usage
    cut           \* history: executions that ended while the run was being stopped

driver == <<turn, waiting, engine>>
work == <<tasks, voids, cancelled, processes, cut>>
vars == <<ledger, turn, waiting, flags, tasks, voids, cancelled, processes, engine, force,
          loss, orphan, faults, crashes, aborted, cut>>

\* What a task can return (DispatchResult): a completion with an output or an error outcome, a
\* runner error, a cancellation, a timeout, an interruption, a runner error that leaves cleanup
\* unconfirmed, and the failures that are the supervisor's own (durable output or startup).
Finished == {"ok", "failed", "crash", "refused", "timed_out", "interrupted", "unconfirmed", "fatal"}
GraphResults == {"succeeded", "failed"}
Locations == {"none", "init", "start", "loop", "voiding", "dispatch", "await", "latch",
              "postmortem", "in_postmortem", "usage", "close", "cleanup", "terminal",
              "stop", "stop_cleanup", "stop_append", "unwind",
              "fail", "fail_cleanup", "fail_append"}

NoOrphan == [at |-> "idle", primary |-> "none", auxiliaryPending |-> FALSE, active |-> {}]
Free == [who |-> "none", at |-> "none", program |-> FALSE, targets |-> {}, result |-> "none"]

Active(l) == {e \in Executions : l.executions[e] = "active"}
Fresh == {e \in Executions : ledger.executions[e] = "absent"}
Ended == ledger.terminal # "none"
Stopped == flags.force \/ ledger.forceStop

\* NativeNodeRunner::close_run returns once no activity of the run is left.
RunnerIdle == \A e \in Executions : tasks[e] # "live"
NoTask == \A e \in Executions : tasks[e] = "none"

Init ==
    /\ ledger = [phase |-> "admitted", forceStop |-> FALSE, primary |-> "none",
                 auxiliaryPending |-> FALSE, terminal |-> "none", usageComplete |-> TRUE,
                 executions |-> [e \in Executions |-> "absent"]]
    /\ turn = Free /\ waiting = <<>>
    /\ flags = [force |-> FALSE, lost |-> FALSE, stop |-> FALSE, closed |-> FALSE]
    /\ tasks = [e \in Executions |-> "none"]
    /\ voids = {} /\ cancelled = {} /\ processes = {} /\ cut = {}
    /\ engine = "spawned" /\ force = "idle" /\ loss = "none"
    /\ orphan = NoOrphan
    /\ faults = 0 /\ crashes = 0 /\ aborted = FALSE

-----------------------------------------------------------------------------
(* drive_turn and the engine's task *)

At(location) == turn.at = location
Goto(location) == turn' = [turn EXCEPT !.at = location]

StopAndClose == flags' = [flags EXCEPT !.stop = TRUE, !.closed = TRUE]

\* The driver returns: its caller continues and drive_turn is free.
Return(ok) ==
    /\ turn' = Free
    /\ engine' = CASE turn.who = "engine" -> IF ok THEN "ended" ELSE "failed"
                   [] turn.who = "fail" -> "ended"
                   [] turn.who = "force" -> engine
    /\ force' = IF turn.who = "force" THEN "done" ELSE force

\* An error of the driver.  Inside drive_program every task is stopped and drained first.
Fail ==
    IF turn.program
    THEN Goto("unwind") /\ StopAndClose /\ UNCHANGED <<engine, force>>
    ELSE Return(FALSE) /\ UNCHANGED flags

\* The engine's task asks for the turn: to drive and, if that failed, for fail_runtime.
EngineAsks ==
    /\ engine \in {"spawned", "failed"}
    /\ IF engine = "spawned"
       THEN engine' = "driving" /\ waiting' = Append(waiting, "engine")
       ELSE engine' = "failing" /\ waiting' = Append(waiting, "fail")
    /\ UNCHANGED <<ledger, turn, flags, work, force, loss, orphan, faults, crashes, aborted>>

TakeTurn ==
    /\ turn = Free /\ waiting # <<>>
    /\ turn' = [Free EXCEPT !.who = Head(waiting),
                            !.at = IF Head(waiting) = "fail" THEN "fail" ELSE "init"]
    /\ waiting' = Tail(waiting)
    /\ UNCHANGED <<ledger, flags, work, engine, force, loss, orphan, faults, crashes, aborted>>

-----------------------------------------------------------------------------
(* drive: initialize and the loop *)

\* stop_runtime_tasks begins: stop resolution, close the run.
BeginStop(reason) ==
    /\ turn' = [turn EXCEPT !.at = "stop", !.result = reason]
    /\ StopAndClose
    /\ UNCHANGED <<engine, force>>

\* initialized_terminal, in the order of its checks.
initialize ==
    /\ At("init")
    /\ CASE Ended -> Return(TRUE) /\ UNCHANGED flags
         [] ~Ended /\ ledger.primary # "none" ->
                Goto("usage") /\ UNCHANGED <<flags, engine, force>>
         [] ~Ended /\ ledger.primary = "none" /\ Stopped -> BeginStop("force_stopped")
         [] ~Ended /\ ledger.primary = "none" /\ ~Stopped /\ Active(ledger) # {} ->
                BeginStop("runtime_lost")
         [] OTHER -> Goto("start") /\ UNCHANGED <<flags, engine, force>>
    /\ UNCHANGED <<ledger, waiting, work, loss, orphan, faults, crashes, aborted>>

\* An admitted run is started; a force stop recorded since the load makes the ledger refuse.
RunStarted ==
    /\ At("start")
    /\ IF ledger.phase \in {"admitted", "running"}
       THEN /\ turn' = [turn EXCEPT !.at = "loop", !.program = TRUE]
            /\ ledger' = [ledger EXCEPT !.phase = "running"]
            /\ UNCHANGED <<engine, force>>
       ELSE Return(FALSE) /\ UNCHANGED ledger
    /\ UNCHANGED <<waiting, flags, work, loss, orphan, faults, crashes, aborted>>

\* drive_active_program: what comes before the graph is reduced.
drive_active_program ==
    /\ At("loop") /\ (flags.lost \/ Stopped)
    /\ BeginStop(IF flags.lost THEN "runtime_lost" ELSE "force_stopped")
    /\ UNCHANGED <<ledger, waiting, work, loss, orphan, faults, crashes, aborted>>

\* advance: reduce the durable history and act on the decisions.
advance ==
    /\ At("loop") /\ ~flags.lost /\ ~Stopped
    /\ UNCHANGED <<ledger, waiting, flags, engine, force, loss, orphan, faults, crashes, aborted>>
    /\ UNCHANGED <<tasks, processes, cut>>
    /\ \/ \E losers \in SUBSET Active(ledger) \ {{}} :
             /\ voids' = voids \cup losers
             /\ cancelled' = cancelled \cup losers
             /\ turn' = [turn EXCEPT !.at = "voiding", !.targets = losers]
       \/ \E result \in GraphResults :
             /\ Active(ledger) = {} /\ NoTask
             /\ turn' = [turn EXCEPT !.at = "latch", !.result = result]
             /\ UNCHANGED <<voids, cancelled>>
       \/ \E fresh \in SUBSET Fresh \ {{}} :
             /\ turn' = [turn EXCEPT !.at = "dispatch", !.targets = fresh]
             /\ UNCHANGED <<voids, cancelled>>
       \/ /\ Active(ledger) # {}
          /\ Goto("await")
          /\ UNCHANGED <<voids, cancelled>>

\* dispatch and record_dispatches: NodeStarted is durable before a task exists.  A force stop,
\* seen as local intent or as the ledger's refusal, leaves nothing dispatched.
dispatch ==
    /\ At("dispatch")
    /\ Goto("loop")
    /\ IF flags.force \/ ledger.phase # "running"
       THEN UNCHANGED <<ledger, tasks>>
       ELSE /\ ledger' = [ledger EXCEPT !.executions = [e \in Executions |->
                            IF e \in turn.targets THEN "active" ELSE @[e]]]
            /\ tasks' = [e \in Executions |-> IF e \in turn.targets THEN "pending" ELSE tasks[e]]
    /\ UNCHANGED <<waiting, flags, voids, cancelled, processes, cut, engine, force, loss, orphan,
                   faults, crashes, aborted>>

-----------------------------------------------------------------------------
(* settle: one finished task *)

\* runner_failure and settled_outcome: a stopped run records refusals, never retryable crashes.
settled_outcome(result) ==
    CASE Stopped -> "refusal"
      [] ~Stopped /\ result \in {"ok", "failed", "crash"} -> result
      [] ~Stopped /\ result = "refused" -> "refusal"
      [] ~Stopped /\ result = "timed_out" -> "timeout"
      [] ~Stopped /\ result = "interrupted" -> "crash"

\* Mutant: an execution is settled although its processes may still run.
Bug_settle_unconfirmed(e) ==
    /\ At("await") /\ tasks[e] \in Finished \ {"fatal"}
    /\ tasks' = [tasks EXCEPT ![e] = "none"]
    /\ ledger' = [ledger EXCEPT !.executions[e] = "crash"]
    /\ Goto("loop")
    /\ UNCHANGED <<waiting, flags, voids, cancelled, processes, cut, engine, force, loss, orphan, faults,
                   crashes, aborted>>

\* next_finished and settle.  While losers are being voided any task may finish first; the loop
\* ends once no target is pending.  An unconfirmed cleanup leaves the execution active.
settle(e) ==
    LET result == tasks[e]
        voided == e \in voids
        broken == result = "unconfirmed" \/ (result = "fatal" /\ ~voided /\ ~Stopped)
        left == voids \ {e}
    IN  /\ At("await") \/ At("voiding")
        /\ result \in Finished
        /\ tasks' = [tasks EXCEPT ![e] = "none"]
        /\ IF broken
           THEN Fail /\ UNCHANGED <<ledger, voids>>
           ELSE /\ ledger' = [ledger EXCEPT !.executions[e] =
                                IF voided THEN "voided" ELSE settled_outcome(result)]
                /\ voids' = left
                /\ IF At("voiding") /\ turn.targets \cap left # {}
                   THEN UNCHANGED turn
                   ELSE Goto("loop")
                /\ UNCHANGED <<flags, engine, force>>
        /\ UNCHANGED <<waiting, cancelled, processes, cut, loss, orphan, faults, crashes, aborted>>

-----------------------------------------------------------------------------
(* finish_reduction *)

\* latch_primary_graph of a reduction that ended: the outcome is durable before optional work.
\* The delivery check may have turned a success into a failure; which way it goes is the result
\* chosen when the reduction ended.
latch_primary_graph ==
    /\ At("latch")
    /\ ledger' = [ledger EXCEPT !.primary = turn.result,
                                !.auxiliaryPending = PostmortemEnabled /\ ~flags.stop]
    /\ Goto("postmortem")
    /\ UNCHANGED <<waiting, flags, work, engine, force, loss, orphan, faults, crashes, aborted>>

\* run_postmortem, unless the run is being stopped.
run_postmortem ==
    /\ At("postmortem")
    /\ IF PostmortemEnabled /\ ~flags.stop
       THEN /\ Goto("in_postmortem")
            /\ processes' = processes \cup {Postmortem}
       ELSE Goto("close") /\ UNCHANGED processes
    /\ UNCHANGED <<ledger, waiting, flags, tasks, voids, cancelled, cut, engine, force, loss, orphan,
                   faults, crashes, aborted>>

\* It completes, fails, is cancelled or times out: all are waited for.
PostmortemEnds ==
    /\ At("in_postmortem")
    /\ processes' = processes \ {Postmortem}
    /\ Goto("close")
    /\ UNCHANGED <<ledger, waiting, flags, tasks, voids, cancelled, cut, engine, force, loss, orphan,
                   faults, crashes, aborted>>

\* latch_primary_graph of an outcome latched earlier: usage is marked incomplete, and optional
\* work is not started a second time.
retry_latch ==
    /\ At("usage")
    /\ turn' = [turn EXCEPT !.at = "close", !.result = ledger.primary]
    /\ ledger' = IF Ended THEN ledger
                 ELSE [ledger EXCEPT !.usageComplete = @ /\ ~ledger.auxiliaryPending]
    /\ UNCHANGED <<waiting, flags, work, engine, force, loss, orphan, faults, crashes, aborted>>

close_run ==
    /\ At("close")
    /\ flags' = [flags EXCEPT !.closed = TRUE]
    /\ Goto("cleanup")
    /\ UNCHANGED <<ledger, waiting, work, engine, force, loss, orphan, faults, crashes, aborted>>

\* cleanup_runtime acknowledges that the disposable runtime and all its processes are gone: the
\* hosting allocator's cleanup_state succeeds only once the process tree is proved empty.
cleanup_runtime ==
    /\ turn.at \in {"cleanup", "stop_cleanup", "fail_cleanup"} /\ RunnerIdle
    /\ processes' = {}
    /\ Goto(CASE At("cleanup") -> "terminal"
              [] At("stop_cleanup") -> "stop_append"
              [] At("fail_cleanup") -> "fail_append")
    /\ UNCHANGED <<ledger, waiting, flags, tasks, voids, cancelled, cut, engine, force, loss, orphan,
                   faults, crashes, aborted>>

\* The ledger closes: nothing is appended after a terminal event.
Close(result) == [ledger EXCEPT !.terminal = result, !.phase = "finished", !.auxiliaryPending = FALSE]

append_terminal ==
    /\ At("terminal")
    /\ IF Ended
       THEN Fail /\ UNCHANGED ledger
       ELSE /\ ledger' = Close(turn.result)
            /\ Return(TRUE) /\ UNCHANGED flags
    /\ UNCHANGED <<waiting, work, loss, orphan, faults, crashes, aborted>>

-----------------------------------------------------------------------------
(* terminalize_force, terminalize_lost, fail_runtime and the unwinding of a *)
(* failed drive                                                             *)

SettleActive(l, outcome) ==
    [l EXCEPT !.executions = [e \in Executions |-> IF l.executions[e] = "active" THEN outcome
                                                   ELSE l.executions[e]]]

\* drain_terminalizing_tasks: an unconfirmed or broken task ends terminalization with an error.
drain_terminalizing_tasks(e) ==
    /\ At("stop") /\ tasks[e] \in Finished
    /\ tasks' = [tasks EXCEPT ![e] = "none"]
    /\ IF tasks[e] \in {"unconfirmed", "fatal"}
       THEN Fail
       ELSE UNCHANGED <<turn, flags, engine, force>>
    /\ UNCHANGED <<ledger, waiting, voids, cancelled, processes, cut, loss, orphan, faults, crashes,
                   aborted>>

\* terminalize_force looks at the ledger before cleanup, terminalize_lost after it.
TasksDrained ==
    /\ At("stop") /\ NoTask
    /\ IF Ended /\ turn.result = "force_stopped"
       THEN Return(TRUE)
       ELSE Goto("stop_cleanup") /\ UNCHANGED <<engine, force>>
    /\ UNCHANGED <<ledger, waiting, flags, work, loss, orphan, faults, crashes, aborted>>

\* terminal_failure_events in one batch: every active execution settled, then the terminal event.
\* Reconciliation may have closed the run meanwhile; its result stands.
append_stopped ==
    /\ At("stop_append")
    /\ ledger' = IF Ended THEN ledger
                 ELSE SettleActive(Close(turn.result),
                                   IF turn.result = "force_stopped" THEN "refusal" ELSE "crash")
    /\ Return(~Ended \/ turn.result = "runtime_lost") /\ UNCHANGED flags
    /\ UNCHANGED <<waiting, work, loss, orphan, faults, crashes, aborted>>

\* drain_failed_tasks, then the error is returned.
drain_failed_tasks(e) ==
    /\ At("unwind") /\ tasks[e] \in Finished
    /\ tasks' = [tasks EXCEPT ![e] = "none"]
    /\ UNCHANGED <<ledger, driver, flags, voids, cancelled, processes, cut, force, loss, orphan, faults,
                   crashes, aborted>>

DriveFailed ==
    /\ At("unwind") /\ NoTask
    /\ Return(FALSE)
    /\ UNCHANGED <<ledger, waiting, flags, work, loss, orphan, faults, crashes, aborted>>

fail_runtime ==
    /\ At("fail")
    /\ flags' = [flags EXCEPT !.closed = TRUE]
    /\ Goto("fail_cleanup")
    /\ UNCHANGED <<ledger, waiting, work, engine, force, loss, orphan, faults, crashes, aborted>>

append_runtime_failure ==
    /\ At("fail_append")
    /\ ledger' = IF Ended THEN ledger ELSE SettleActive(Close("runtime_failed"), "crash")
    /\ Return(TRUE) /\ UNCHANGED flags
    /\ UNCHANGED <<waiting, work, loss, orphan, faults, crashes, aborted>>

\* A ledger read or append, a checkpoint or the runtime's cleanup fails, or the driver panics.  A
\* dispatch refused because of a force stop is not an error.
DriverFaults ==
    /\ faults < MaxFaults
    /\ faults' = faults + 1
    /\ turn.at \in Locations \ {"none", "await", "voiding", "postmortem", "in_postmortem", "stop",
                                "unwind", "fail"}
    /\ IF At("dispatch") /\ ledger.forceStop
       THEN Goto("loop") /\ UNCHANGED <<flags, engine, force>>
       ELSE Fail
    /\ UNCHANGED <<ledger, waiting, work, loss, orphan, crashes, aborted>>

\* The postmortem's provider cleanup is not confirmed.
PostmortemUnconfirmed ==
    /\ faults < MaxFaults
    /\ faults' = faults + 1
    /\ At("in_postmortem")
    /\ aborted' = TRUE
    /\ Fail
    /\ UNCHANGED <<ledger, waiting, work, loss, orphan, crashes>>

-----------------------------------------------------------------------------
(* run_pending_node and run_dispatch: one task per execution *)

Stopping == flags.stop \/ flags.closed

Finish(e, result) ==
    /\ tasks' = [tasks EXCEPT ![e] = result]
    /\ cut' = IF Stopping THEN cut \cup {e} ELSE cut
    /\ faults' = faults + IF result \in {"unconfirmed", "fatal"} THEN 1 ELSE 0
    /\ faults' <= MaxFaults
    /\ UNCHANGED <<ledger, driver, flags, voids, cancelled, force, loss, orphan, crashes, aborted>>

\* prepare_and_run: the environment is resolved, nothing interrupted, the runner accepts.
runner_start(e) ==
    /\ tasks[e] = "pending" /\ ~Stopping /\ e \notin cancelled
    /\ tasks' = [tasks EXCEPT ![e] = "live"]
    /\ processes' = processes \cup {e}
    /\ UNCHANGED <<ledger, driver, flags, voids, cancelled, cut, force, loss, orphan, faults, crashes,
                   aborted>>

\* Mutant: the wait for connection resolution does not listen to resolution_stop.
Bug_PendingEnds_ignores_stop(e, result) ==
    /\ tasks[e] = "pending"
    /\ CASE result = "interrupted" -> e \in cancelled
         [] result = "refused" -> flags.closed
         [] result \in {"failed", "timed_out", "fatal"} -> TRUE
         [] OTHER -> FALSE
    /\ Finish(e, result)
    /\ UNCHANGED processes

\* It ends before the runner has it: resolution is refused, the deadline passes, the task is
\* interrupted, the runner refuses a closed run, or a retry notice cannot be logged.
PendingEnds(e, result) ==
    /\ tasks[e] = "pending"
    /\ CASE result = "interrupted" -> flags.stop \/ e \in cancelled
         [] result = "refused" -> flags.closed
         [] result \in {"failed", "timed_out", "fatal"} -> TRUE
         [] OTHER -> FALSE
    /\ Finish(e, result)
    /\ UNCHANGED processes

\* observe_dispatch and preserve_interrupted_failure: an interruption replaces a success, a real
\* failure is kept, a deadline wins over both; cleanup that is not confirmed wins over everything
\* and is the one result that does not mean that the process is gone.
LiveEnds(e, result) ==
    /\ tasks[e] = "live"
    /\ CASE result = "ok" -> e \notin cancelled
         [] result = "refused" -> flags.closed /\ e \notin cancelled
         [] result = "interrupted" -> Stopping \/ e \in cancelled
         [] OTHER -> TRUE
    /\ Finish(e, result)
    /\ processes' = IF result = "unconfirmed" THEN processes ELSE processes \ {e}

-----------------------------------------------------------------------------
(* force_stop, runtime_lost *)

\* Mutant: work is stopped before the local intent is recorded.
Bug_force_stop_closes_first ==
    /\ force = "idle" /\ engine \in {"spawned", "driving", "failed", "failing"}
    /\ force' = "flagged"
    /\ StopAndClose
    /\ UNCHANGED <<ledger, driver, work, loss, orphan, faults, crashes, aborted>>

\* Local intent first ...
force_stop ==
    /\ force = "idle" /\ engine \in {"spawned", "driving", "failed", "failing"}
    /\ force' = "flagged"
    /\ flags' = [flags EXCEPT !.force = TRUE]
    /\ UNCHANGED <<ledger, driver, work, loss, orphan, faults, crashes, aborted>>

\* ... then live work is stopped ...
ForceCloses ==
    /\ force = "flagged"
    /\ force' = "closing"
    /\ StopAndClose
    /\ UNCHANGED <<ledger, driver, work, loss, orphan, faults, crashes, aborted>>

\* ... then the request is recorded (a no-op on a terminal run) and the caller drives.
ForceRecords ==
    /\ force = "closing" /\ RunnerIdle
    /\ force' = "driving"
    /\ ledger' = IF Ended THEN ledger ELSE [ledger EXCEPT !.forceStop = TRUE, !.phase = "stopping"]
    /\ waiting' = Append(waiting, "force")
    /\ UNCHANGED <<turn, flags, work, engine, loss, orphan, faults, crashes, aborted>>

\* The store refuses the request: the caller gets the error, the intent stays.
ForceFails ==
    /\ force = "closing" /\ RunnerIdle
    /\ faults < MaxFaults /\ faults' = faults + 1
    /\ force' = "done"
    /\ UNCHANGED <<ledger, driver, flags, work, loss, orphan, crashes, aborted>>

runtime_lost ==
    /\ loss = "none" /\ engine = "driving"
    /\ loss' = "flagged"
    /\ flags' = [flags EXCEPT !.lost = TRUE]
    /\ UNCHANGED <<ledger, driver, work, force, orphan, faults, crashes, aborted>>

LossCloses ==
    /\ loss = "flagged"
    /\ loss' = "done"
    /\ StopAndClose
    /\ UNCHANGED <<ledger, driver, work, force, orphan, faults, crashes, aborted>>

-----------------------------------------------------------------------------
(* The controller dies; a later one reconciles what it left behind *)

\* Everything in memory is gone, reconciliation too; provider processes may survive.
Crash ==
    /\ crashes < MaxCrashes /\ crashes' = crashes + 1
    /\ engine' = "dead"
    /\ turn' = Free /\ waiting' = <<>>
    /\ flags' = [force |-> FALSE, lost |-> FALSE, stop |-> FALSE, closed |-> FALSE]
    /\ tasks' = [e \in Executions |-> "none"]
    /\ voids' = {} /\ cancelled' = {}
    /\ force' = "done" /\ loss' = "done"
    /\ orphan' = NoOrphan
    /\ aborted' = (aborted \/ At("in_postmortem"))
    /\ UNCHANGED <<ledger, processes, faults, cut>>

\* fail_orphaned_runtime: the run is read first ...
fail_orphaned_runtime ==
    /\ orphan.at = "idle" /\ ~Ended
    /\ orphan' = [at |-> "read", primary |-> ledger.primary,
                   auxiliaryPending |-> ledger.auxiliaryPending, active |-> Active(ledger)]
    /\ UNCHANGED <<ledger, driver, flags, work, force, loss, faults, crashes, aborted>>

\* ... a run with a live engine is left to it ...
OrphanOwned ==
    /\ orphan.at = "read" /\ engine \notin {"ended", "dead"}
    /\ orphan' = [orphan EXCEPT !.at = "idle"]
    /\ UNCHANGED <<ledger, driver, flags, work, force, loss, faults, crashes, aborted>>

\* ... otherwise the controller claim is taken, the runtime destroyed or confirmed absent.  The
\* controller that allocated it still has its process tree to destroy; one that starts after a
\* death has directories and documents, and confirms without touching a process ...
finish_lost_runtime ==
    /\ orphan.at = "read" /\ engine \in {"ended", "dead"}
    /\ orphan' = [orphan EXCEPT !.at = "destroyed"]
    /\ processes' = IF engine = "dead" THEN processes ELSE {}
    /\ UNCHANGED <<ledger, driver, flags, tasks, voids, cancelled, cut, force, loss, faults, crashes,
                   aborted>>

\* Mutants: the active executions are not settled in the same batch; the postmortem that was
\* interrupted is not accounted for.
Bug_append_interrupted_forgets_active ==
    /\ orphan.at = "destroyed"
    /\ orphan' = [orphan EXCEPT !.at = "idle"]
    /\ ledger' = IF Ended \/ Active(ledger) # {} THEN ledger
                 ELSE IF orphan.primary # "none"
                 THEN [Close(orphan.primary) EXCEPT !.usageComplete = @ /\ ~orphan.auxiliaryPending]
                 ELSE Close("runtime_lost")
    /\ UNCHANGED <<driver, flags, work, force, loss, faults, crashes, aborted>>

Bug_append_interrupted_forgets_usage ==
    /\ orphan.at = "destroyed"
    /\ orphan' = [orphan EXCEPT !.at = "idle"]
    /\ ledger' = IF Ended \/ orphan.active # Active(ledger) THEN ledger
                 ELSE IF orphan.primary # "none" THEN Close(orphan.primary)
                 ELSE SettleActive(Close("runtime_lost"), "crash")
    /\ UNCHANGED <<driver, flags, work, force, loss, faults, crashes, aborted>>

\* ... and append_interrupted closes the run from what was read: with the latched outcome, or as
\* lost.  The ledger refuses the batch when the run moved on meanwhile.
append_interrupted ==
    /\ orphan.at = "destroyed"
    /\ orphan' = [orphan EXCEPT !.at = "idle"]
    /\ ledger' = IF Ended \/ orphan.active # Active(ledger) THEN ledger
                 ELSE IF orphan.primary # "none"
                 THEN [Close(orphan.primary) EXCEPT !.usageComplete = @ /\ ~orphan.auxiliaryPending]
                 ELSE SettleActive(Close("runtime_lost"), "crash")
    /\ UNCHANGED <<driver, flags, work, force, loss, faults, crashes, aborted>>

-----------------------------------------------------------------------------
Drive ==
    \/ initialize \/ RunStarted \/ drive_active_program \/ advance \/ dispatch
    \/ \E e \in Executions : settle(e)
    \/ latch_primary_graph \/ run_postmortem \/ PostmortemEnds \/ retry_latch
    \/ close_run \/ cleanup_runtime \/ append_terminal
    \/ \E e \in Executions : drain_terminalizing_tasks(e)
    \/ TasksDrained \/ append_stopped
    \/ \E e \in Executions : drain_failed_tasks(e)
    \/ DriveFailed \/ fail_runtime \/ append_runtime_failure

TaskEnds(e) == \E result \in Finished : PendingEnds(e, result) \/ LiveEnds(e, result)

ForceStop == force_stop \/ ForceCloses \/ ForceRecords \/ ForceFails
RuntimeLoss == runtime_lost \/ LossCloses
Reconcile == fail_orphaned_runtime \/ OrphanOwned \/ finish_lost_runtime \/ append_interrupted

Next ==
    \/ EngineAsks \/ TakeTurn \/ Drive \/ DriverFaults \/ PostmortemUnconfirmed
    \/ \E e \in Executions : runner_start(e) \/ TaskEnds(e)
    \/ ForceStop \/ RuntimeLoss \/ Crash \/ Reconcile

Spec == Init /\ [][Next]_vars

\* The runtime polls every runnable future: drivers, the engine's task and the callers go on
\* whenever they can.  An interrupted task ends (the runner's contract), a postmortem has a
\* deadline, and a controller that starts reconciles the run before it serves.  Nothing is assumed
\* of a node that is not interrupted, of clients, or of the connection resolver.
Interruption(e) ==
    /\ Stopping \/ e \in cancelled
    /\ \/ PendingEnds(e, "interrupted")
       \/ \E result \in {"interrupted", "refused"} : LiveEnds(e, result)

Fairness ==
    /\ WF_vars(EngineAsks) /\ WF_vars(TakeTurn) /\ WF_vars(Drive)
    /\ WF_vars(ForceCloses) /\ WF_vars(ForceRecords) /\ WF_vars(LossCloses)
    /\ \A e \in Executions : WF_vars(Interruption(e))
    /\ WF_vars(engine = "dead" /\ Reconcile)

FairSpec == Spec /\ Fairness

-----------------------------------------------------------------------------
(* Properties *)

\* Work that ended because the run was being stopped never looks like a crash to the reducer,
\* which would retry it ("Local intent prevents interrupted work from becoming a retryable crash").
StoppedWorkIsNotRetried ==
    turn.at \in {"dispatch", "latch"} => \A e \in cut : ledger.executions[e] # "crash"

\* A postmortem whose usage was not accounted for, because the controller died or its provider
\* could not be confirmed gone, never leaves a graph outcome whose token usage claims to be
\* complete ("marks interrupted auxiliary token usage incomplete", docs/guides/active-memory.md).
InterruptedPostmortemIsAccounted ==
    aborted /\ ledger.terminal \in GraphResults => ~ledger.usageComplete

\* A force stop or the loss of the runtime ends the run, or the engine gives up with the cleanup
\* left to reconciliation: close_run, the draining of tasks and drive_turn never wait for each other.
StopEnds ==
    flags.force \/ flags.lost ~> Ended \/ engine \in {"ended", "dead"}

\* A run whose controller died is closed by the next controller.
CrashIsReconciled == engine = "dead" ~> Ended

\* What the contract speaks of: absent, active or, whatever the outcome, settled.
executionsSeen ==
    [e \in Executions |-> IF ledger.executions[e] \in {"absent", "active"}
                          THEN ledger.executions[e] ELSE "settled"]

\* The supervisor keeps the contract of a run: a process starts only for a durably active
\* execution and is gone before the execution is settled or its controller ends the run,
\* executions begin once and before the outcome, a graph's result is the latched one; after a
\* crash nothing starts and reconciliation closes the run as latched or lost, over whatever
\* survived.  Every step of the driver, of a force stop, of a fault, a crash or the
\* reconciliation after it is a step of RunContract or changes nothing the contract speaks of.
Contract ==
    INSTANCE RunContract WITH
        executions <- executionsSeen,
        alive <- processes,
        primary <- ledger.primary,
        result <- ledger.terminal,
        served <- engine # "dead"

ImplementsRunContract == Contract!Spec
=============================================================================
