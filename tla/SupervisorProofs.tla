-------------------------- MODULE SupervisorProofs --------------------------
(***************************************************************************)
(* Supervisor implements RunContract, and its two safety invariants, for   *)
(* every set of executions, with or without a postmortem, and for any      *)
(* number of faults and crashes.                                           *)
(***************************************************************************)
EXTENDS Supervisor, TLAPS

Drivers == {"engine", "fail", "force"}
Interruptions == {"force_stopped", "runtime_lost"}
Outcomes == GraphResults \cup Interruptions \cup {"runtime_failed"}
Settled == {"ok", "failed", "crash", "refusal", "timeout", "voided"}

Ledgers == [phase : {"admitted", "running", "stopping", "finished"}, forceStop : BOOLEAN,
            primary : {"none"} \cup GraphResults, auxiliaryPending : BOOLEAN,
            terminal : {"none"} \cup Outcomes, usageComplete : BOOLEAN,
            executions : [Executions -> {"absent", "active"} \cup Settled]]
Turns == [who : {"none"} \cup Drivers, at : Locations, program : BOOLEAN,
          targets : SUBSET Executions, result : {"none"} \cup Outcomes]
Flags == [force : BOOLEAN, lost : BOOLEAN, stop : BOOLEAN, closed : BOOLEAN]
Orphans == [at : {"idle", "read", "destroyed"}, primary : {"none"} \cup GraphResults,
            auxiliaryPending : BOOLEAN, active : SUBSET Executions]

\* The three parts of the type invariant: what is durable, who drives, what runs.
LedgerType == ledger \in Ledgers /\ orphan \in Orphans
DriverType ==
    /\ turn \in Turns /\ waiting \in Seq(Drivers) /\ flags \in Flags
    /\ engine \in {"spawned", "driving", "failed", "failing", "ended", "dead"}
    /\ force \in {"idle", "flagged", "closing", "driving", "done"}
    /\ loss \in {"none", "flagged", "done"}
WorkType ==
    /\ tasks \in [Executions -> {"none", "pending", "live"} \cup Finished]
    /\ voids \subseteq Executions /\ cancelled \subseteq Executions /\ cut \subseteq Executions
    /\ processes \subseteq Executions \cup {Postmortem}
    /\ faults \in Nat /\ crashes \in Nat /\ aborted \in BOOLEAN

TypeOK == LedgerType /\ DriverType /\ WorkType

\* Where a driver still follows the graph, stops it, has its outcome, and may have tasks.
InGraph == {"loop", "voiding", "dispatch", "await", "latch"}
InStop == {"stop", "stop_cleanup", "stop_append"}
InFail == {"fail", "fail_cleanup", "fail_append"}
InOutcome == {"postmortem", "in_postmortem", "close", "cleanup", "terminal"}
WithTasks == {"loop", "voiding", "dispatch", "await", "stop", "unwind"}

\* Who holds drive_turn, and that only the engine's drive runs the program.
TurnOwned ==
    /\ turn.who = "none" => turn = Free
    /\ turn.who = "engine" => engine = "driving" /\ turn.at \notin InFail \cup {"none"}
    /\ turn.who = "fail" => engine = "failing" /\ turn.at \in InFail
    /\ turn.who = "force" => /\ flags.force
                             /\ turn.at \in InStop \cup InOutcome \cup {"init", "usage"}
    /\ turn.program => turn.who = "engine" /\ turn.at \notin {"init", "start"}
    /\ turn.at \in InGraph \cup {"postmortem", "in_postmortem", "unwind"} => turn.program

\* Who waits for it: the engine's task is queued at most once, under the name of what it wants.
QueueOwned ==
    /\ \A i \in 1..Len(waiting) :
           /\ waiting[i] = "engine" => engine = "driving" /\ turn.who # "engine"
           /\ waiting[i] = "fail" => engine = "failing" /\ turn.who # "fail"
           /\ waiting[i] = "force" => flags.force
    /\ \A i, j \in 1..Len(waiting) : waiting[i] = waiting[j] /\ waiting[i] # "force" => i = j

\* The durable record: nothing is active once there is an outcome or a result.
LedgerSound ==
    /\ Ended => ledger.phase = "finished" /\ Active(ledger) = {}
    /\ ledger.primary # "none" => Active(ledger) = {}

\* What the driver knows where it is.
PlaceSound ==
    /\ turn.who = "engine" /\ turn.at # "init" => ~Ended
    /\ turn.at \in InGraph \cup InStop \cup {"start"} => ledger.primary = "none"
    /\ turn.at = "dispatch" => \A e \in turn.targets : ledger.executions[e] = "absent"
    /\ turn.at = "latch" => Active(ledger) = {} /\ turn.result \in GraphResults
    /\ turn.at \in InOutcome => turn.result = ledger.primary
    /\ turn.at \in InOutcome \cup {"usage"} => ledger.primary # "none"
    /\ turn.at \in InStop => turn.result \in Interruptions

\* Tasks belong to a driver in the program and to active executions; a process is alive only for
\* an active execution that runs or could not be confirmed gone, or for the postmortem; the
\* survivors of a dead controller may outlive the record of their executions.
WorkOwned ==
    /\ \A e \in Executions :
           /\ tasks[e] # "none" => /\ turn.program /\ turn.at \in WithTasks
                                   /\ ledger.executions[e] = "active"
           /\ tasks[e] \notin {"none", "live", "unconfirmed"} => e \notin processes
           /\ e \in processes /\ engine # "dead" => ledger.executions[e] = "active"
    /\ Postmortem \in processes => ledger.primary # "none"
    /\ turn.at = "postmortem" => Postmortem \notin processes
    /\ turn.at \in {"terminal", "stop_append", "fail_append"} => processes = {}

\* What reconciliation read is still true of the outcome, and once it confirmed the cleanup no
\* engine is left to start anything; the controller that ran the engine left nothing alive.
OrphanSound ==
    /\ orphan.primary # "none" => orphan.primary = ledger.primary
    /\ orphan.primary # "none" /\ ~Ended =>
           orphan.auxiliaryPending = ledger.auxiliaryPending
    /\ orphan.at = "destroyed" => engine = "dead" \/ (engine = "ended" /\ processes = {})
    /\ engine = "dead" /\ orphan.at # "idle" => orphan.primary = ledger.primary

\* A dead controller drives nothing and nobody waits for it.
DeadSound == engine = "dead" => turn = Free /\ waiting = <<>> /\ force = "done"

\* The order of intent and effect: whoever stops work has said why.
IntentFirst ==
    /\ force \in {"flagged", "closing"} => flags.force
    /\ loss = "flagged" => flags.lost
    /\ /\ engine \in {"spawned", "driving"} /\ Stopping
       /\ turn.who # "engine" \/ turn.at \in InGraph \cup {"init", "start"}
       => flags.force \/ flags.lost

\* An execution that ended while the run was being stopped looks like a crash only where the
\* driver is bound to see the loss of the runtime before it reduces again.
CutSound ==
    /\ engine \in {"spawned", "driving"} /\ ~turn.program => cut = {}
    /\ engine = "driving" /\ cut # {} => Stopping
    /\ turn.at \in InGraph /\ (\E e \in cut : ledger.executions[e] = "crash") =>
           turn.at \in {"loop", "voiding"} /\ flags.lost

\* A postmortem without an account of its usage: the mark is pending until the run ends.
AbortedSound ==
    /\ turn.at = "postmortem" /\ PostmortemEnabled /\ ~flags.stop => ledger.auxiliaryPending
    /\ turn.at = "in_postmortem" => ledger.auxiliaryPending
    /\ aborted => /\ ledger.primary # "none"
                  /\ engine \in {"spawned", "driving"} => turn.at = "unwind"
                  /\ ~Ended => ledger.auxiliaryPending
                  /\ turn.at \in {"close", "cleanup", "terminal"} /\ ~Ended => ~ledger.usageComplete
                  /\ ledger.terminal \in GraphResults => ~ledger.usageComplete

\* The inductive invariant.
IInv ==
    /\ TypeOK /\ TurnOwned /\ QueueOwned /\ LedgerSound /\ PlaceSound /\ WorkOwned /\ OrphanSound
    /\ DeadSound /\ IntentFirst /\ CutSound /\ AbortedSound

-----------------------------------------------------------------------------
(* Types *)

\* The updates the actions make keep the types of the records.
LEMMA FlagsUpdates ==
    ASSUME NEW f \in Flags
    PROVE  /\ [f EXCEPT !.force = TRUE] \in Flags
           /\ [f EXCEPT !.lost = TRUE] \in Flags
           /\ [f EXCEPT !.closed = TRUE] \in Flags
           /\ [f EXCEPT !.stop = TRUE, !.closed = TRUE] \in Flags
  BY DEF Flags

\* Moving the turn, with or without a result or targets, keeps its type.
LEMMA TurnUpdates ==
    ASSUME NEW t \in Turns, NEW at \in Locations
    PROVE  /\ [t EXCEPT !.at = at] \in Turns
           /\ [t EXCEPT !.at = at, !.program = TRUE] \in Turns
           /\ \A result \in Outcomes : [t EXCEPT !.at = at, !.result = result] \in Turns
           /\ \A targets \in SUBSET Executions : [t EXCEPT !.at = at, !.targets = targets] \in Turns
  BY DEF Turns

\* A free turn is a turn.
LEMMA FreeType == Free \in Turns
  BY DEF Free, Turns, Locations

\* A driver that returns, or fails, leaves the turn, the flags and both callers well-typed.
LEMMA ReturnType ==
    ASSUME DriverType, turn.who \in Drivers, NEW ok, Return(ok)
    PROVE  /\ turn' \in Turns
           /\ engine' \in {"spawned", "driving", "failed", "failing", "ended", "dead"}
           /\ force' \in {"idle", "flagged", "closing", "driving", "done"}
  BY FreeType DEF Return, DriverType, Drivers

\* The same for a driver that fails (drive_admitted's error path).
LEMMA FailType ==
    ASSUME DriverType, turn.who \in Drivers, Fail
    PROVE  /\ turn' \in Turns /\ flags' \in Flags
           /\ engine' \in {"spawned", "driving", "failed", "failing", "ended", "dead"}
           /\ force' \in {"idle", "flagged", "closing", "driving", "done"}
<1>1. CASE turn.program
      BY <1>1, TurnUpdates, FlagsUpdates DEF Fail, Goto, StopAndClose, DriverType, Locations, Outcomes
<1>2. CASE ~turn.program
      BY <1>2, ReturnType DEF Fail, DriverType
<1>. QED
      BY <1>1, <1>2, SMTT(20)

\* Only the holder of the turn is anywhere.
LEMMA Held ==
    ASSUME DriverType, TurnOwned, turn.at # "none"
    PROVE  turn.who \in Drivers
  BY DEF DriverType, TurnOwned, Turns, Drivers, Free

\* Tasks, processes and the two counters keep their types.
LEMMA WorkTypeStep ==
    ASSUME TypeOK, [Next]_vars
    PROVE  WorkType'
<1> USE DEF TypeOK, WorkType, Finished, Active
<1>1. CASE EngineAsks \/ TakeTurn
      BY <1>1, SMTT(20) DEF EngineAsks, TakeTurn, work
<1>2. CASE Drive
      BY <1>2 DEF Drive, initialize, RunStarted, drive_active_program, advance, dispatch, settle,
             latch_primary_graph, run_postmortem, PostmortemEnds, retry_latch, close_run,
             cleanup_runtime, append_terminal, drain_terminalizing_tasks, TasksDrained,
             append_stopped, drain_failed_tasks, DriveFailed, fail_runtime, append_runtime_failure,
             driver, work
<1>3. ASSUME DriverFaults PROVE WorkType'
      BY <1>3 DEF DriverFaults, work
<1>4. ASSUME PostmortemUnconfirmed PROVE WorkType'
      BY <1>4 DEF PostmortemUnconfirmed, work
<1>5. CASE \E e \in Executions : runner_start(e) \/ TaskEnds(e)
      BY <1>5 DEF runner_start, TaskEnds, PendingEnds, LiveEnds, Finish, driver, work
<1>6. CASE ForceStop \/ RuntimeLoss
      BY <1>6 DEF ForceStop, force_stop, ForceCloses, ForceRecords, ForceFails, RuntimeLoss,
             runtime_lost, LossCloses, driver, work
<1>7. ASSUME Crash PROVE WorkType'
      BY <1>7 DEF Crash, work
<1>8. CASE Reconcile
      BY <1>8 DEF Reconcile, fail_orphaned_runtime, OrphanOwned, finish_lost_runtime,
             append_interrupted, driver, work
<1>9. CASE UNCHANGED vars
      BY <1>9 DEF vars
<1>. QED
      BY <1>1, <1>2, <1>3, <1>4, <1>5, <1>6, <1>7, <1>8, <1>9 DEF Next, Drive, TaskEnds, ForceStop,
             RuntimeLoss, Reconcile

\* What initialize does with a run that has not ended.
LEMMA InitializeCases ==
    ASSUME initialize, ~Ended
    PROVE  \/ Goto("usage") \/ Goto("start")
           \/ \E result \in Interruptions : BeginStop(result)
  BY DEF initialize, Interruptions

\* The turn, its queue, the flags and the callers keep their types: the step that needs to know
\* who holds the turn is the driver's return to its caller.
LEMMA DriverTypeStep ==
    ASSUME TypeOK, TurnOwned, [Next]_vars
    PROVE  DriverType'
<1> USE DEF TypeOK, DriverType
<1>1. ASSUME EngineAsks PROVE DriverType'
      BY <1>1 DEF EngineAsks, work, Drivers
<1>2. ASSUME TakeTurn PROVE DriverType'
  <2>1. waiting' \in Seq(Drivers) /\ Head(waiting) \in Drivers
        BY <1>2 DEF TakeTurn
  <2>2. turn' \in Turns
        BY <1>2, <2>1, FreeType DEF TakeTurn, Turns, Free, Drivers, Locations
  <2>. QED
        BY <1>2, <2>1, <2>2 DEF TakeTurn
<1>3. ASSUME initialize PROVE DriverType'
  <2>1. CASE Ended
        BY <1>3, <2>1, Held, ReturnType DEF initialize, At
  <2>2. CASE ~Ended
    <3>1. turn \in Turns /\ flags \in Flags
          OBVIOUS
    <3>2. turn' \in Turns
      <4>1. {"usage", "start", "stop"} \subseteq Locations
            BY DEF Locations
      <4>2. Interruptions \subseteq Outcomes
            BY DEF Outcomes
      <4>3. CASE Goto("usage") \/ Goto("start")
            BY <3>1, <4>1, <4>3, TurnUpdates DEF Goto
      <4>4. ASSUME NEW result \in Interruptions, BeginStop(result) PROVE turn' \in Turns
            BY <3>1, <4>1, <4>2, <4>4, TurnUpdates DEF BeginStop
      <4>. QED
            BY <1>3, <2>2, <4>3, <4>4, InitializeCases
    <3>3. flags' \in Flags
          BY <1>3, <2>2, <3>1, FlagsUpdates, ZenonT(30) DEF initialize, BeginStop, StopAndClose
    <3>. QED
          BY <1>3, <2>2, <3>2, <3>3 DEF initialize, BeginStop
  <2>. QED
        BY <2>1, <2>2
<1>4. ASSUME RunStarted PROVE DriverType'
      BY <1>4, Held, ReturnType, TurnUpdates, ZenonT(30) DEF RunStarted, At, work, Locations, Outcomes
<1>5. ASSUME drive_active_program PROVE DriverType'
      BY <1>5, TurnUpdates, FlagsUpdates DEF drive_active_program, BeginStop, At, work,
             StopAndClose, Locations, Outcomes, Interruptions
<1>6. ASSUME advance PROVE DriverType'
  <2>1. Active(ledger) \subseteq Executions /\ Fresh \subseteq Executions /\ turn \in Turns
        BY DEF Active, Fresh
  <2>2. turn' \in Turns
    <3>1. \/ \E at \in Locations, S \in SUBSET Executions :
                turn' = [turn EXCEPT !.at = at, !.targets = S]
          \/ \E at \in Locations, result \in Outcomes :
                turn' = [turn EXCEPT !.at = at, !.result = result]
          \/ \E at \in Locations : turn' = [turn EXCEPT !.at = at]
          BY <1>6, <2>1 DEF advance, Goto, Locations, Outcomes
    <3>2. ASSUME NEW at \in Locations, NEW S \in SUBSET Executions
          PROVE  [turn EXCEPT !.at = at, !.targets = S] \in Turns
          BY <2>1, TurnUpdates
    <3>3. ASSUME NEW at \in Locations, NEW result \in Outcomes
          PROVE  [turn EXCEPT !.at = at, !.result = result] \in Turns
          BY <2>1, TurnUpdates
    <3>4. ASSUME NEW at \in Locations PROVE [turn EXCEPT !.at = at] \in Turns
          BY <2>1, TurnUpdates, ZenonT(30)
    <3>. QED
          BY <3>1, <3>2, <3>3, <3>4, ZenonT(30)
  <2>. QED
        BY <1>6, <2>2 DEF advance
<1>7. ASSUME dispatch PROVE DriverType'
      BY <1>7, TurnUpdates, ZenonT(30) DEF dispatch, At, work, Goto, Locations, Outcomes
<1>8. ASSUME NEW e \in Executions, settle(e) PROVE DriverType'
      BY <1>8, Held, FailType, TurnUpdates, ZenonT(30) DEF settle, settled_outcome, At, work, Goto, Locations,
             Outcomes
<1>9. CASE latch_primary_graph \/ run_postmortem \/ PostmortemEnds \/ close_run \/ fail_runtime
  <2>1. CASE latch_primary_graph \/ run_postmortem
        BY <2>1, TurnUpdates, FlagsUpdates, ZenonT(30) DEF latch_primary_graph, run_postmortem, At, work, Goto,
           Locations, Outcomes
  <2>2. CASE PostmortemEnds \/ close_run
        BY <2>2, TurnUpdates, FlagsUpdates, ZenonT(30) DEF PostmortemEnds, close_run, At, work, Goto, Locations,
           Outcomes
  <2>3. CASE fail_runtime
        BY <2>3, TurnUpdates, FlagsUpdates DEF fail_runtime, At, work, Goto, Locations, Outcomes
  <2>. QED
        BY <1>9, <2>1, <2>2, <2>3
<1>10. ASSUME retry_latch PROVE DriverType'
  <2>1. turn' \in Turns
        BY <1>10
        DEF retry_latch, TypeOK, DriverType, LedgerType, Ledgers, Turns, Locations, Outcomes
  <2>. QED
        BY <1>10, <2>1 DEF retry_latch, work
<1>11. ASSUME cleanup_runtime PROVE DriverType'
      BY <1>11, TurnUpdates DEF cleanup_runtime, At, work, Goto, Locations, Outcomes
<1>12. ASSUME append_terminal PROVE DriverType'
      BY <1>12, Held, ReturnType, FailType DEF append_terminal, At, work
<1>13. ASSUME NEW e \in Executions, drain_terminalizing_tasks(e) PROVE DriverType'
      BY <1>13, Held, FailType DEF drain_terminalizing_tasks, At, work
<1>14. ASSUME TasksDrained PROVE DriverType'
      BY <1>14, Held, ReturnType, TurnUpdates DEF TasksDrained, At, work, Goto, Locations, Outcomes
<1>15. ASSUME append_stopped PROVE DriverType'
      BY <1>15, Held, ReturnType DEF append_stopped, At, work
<1>16. ASSUME NEW e \in Executions, drain_failed_tasks(e) PROVE DriverType'
      BY <1>16 DEF drain_failed_tasks, At, driver, work
<1>17. ASSUME DriveFailed PROVE DriverType'
      BY <1>17, Held, ReturnType DEF DriveFailed, At, work
<1>18. ASSUME append_runtime_failure PROVE DriverType'
      BY <1>18, Held, ReturnType DEF append_runtime_failure, At, work
<1>19. ASSUME DriverFaults PROVE DriverType'
      BY <1>19, Held, FailType, TurnUpdates DEF DriverFaults, At, work, Goto, Locations, Outcomes
<1>20. ASSUME PostmortemUnconfirmed PROVE DriverType'
      BY <1>20, Held, FailType DEF PostmortemUnconfirmed, At, work
<1>21. CASE \E e \in Executions : runner_start(e) \/ TaskEnds(e)
      BY <1>21 DEF runner_start, TaskEnds, PendingEnds, LiveEnds, Finish, driver, work
<1>22. ASSUME force_stop PROVE DriverType'
      BY <1>22, FlagsUpdates DEF force_stop, driver, work
<1>23. ASSUME ForceCloses PROVE DriverType'
      BY <1>23, FlagsUpdates DEF ForceCloses, driver, work, StopAndClose
<1>24. ASSUME ForceRecords PROVE DriverType'
      BY <1>24 DEF ForceRecords, work, Drivers
<1>25. ASSUME ForceFails PROVE DriverType'
      BY <1>25 DEF ForceFails, driver, work
<1>26. ASSUME runtime_lost PROVE DriverType'
      BY <1>26, FlagsUpdates DEF runtime_lost, driver, work
<1>27. ASSUME LossCloses PROVE DriverType'
      BY <1>27, FlagsUpdates DEF LossCloses, driver, work, StopAndClose
<1>28. ASSUME Crash PROVE DriverType'
  <2>1. turn' \in Turns /\ waiting' \in Seq(Drivers)
        BY <1>28, FreeType DEF Crash
  <2>2. flags' \in Flags
        BY <1>28 DEF Crash, Flags
  <2>. QED
        BY <1>28, <2>1, <2>2 DEF Crash
<1>29. CASE Reconcile
      BY <1>29 DEF Reconcile, fail_orphaned_runtime, OrphanOwned, finish_lost_runtime,
             append_interrupted, driver, work
<1>30. CASE UNCHANGED vars
      BY <1>30 DEF vars
<1>. QED
      BY <1>1, <1>2, <1>3, <1>4, <1>5, <1>6, <1>7, <1>8, <1>9, <1>10, <1>11, <1>12, <1>13, <1>14,
         <1>15, <1>16, <1>17, <1>18, <1>19, <1>20, <1>21, <1>22, <1>23, <1>24, <1>25, <1>26, <1>27,
         <1>28, <1>29, <1>30 DEF Next, Drive, TaskEnds, ForceStop, RuntimeLoss, Reconcile

-----------------------------------------------------------------------------
(* What the steps of the driver do to the turn and to its callers *)

\* The driver returned: the turn is free, and the engine or the caller of force_stop goes on.
Returned ==
    /\ turn' = Free
    /\ turn.who = "engine" => engine' \in {"ended", "failed"} /\ force' = force
    /\ turn.who = "fail" => engine' = "ended" /\ force' = force
    /\ turn.who = "force" => engine' = engine /\ force' = "done"

\* The driver moved on and still holds the turn.
Moved(location) ==
    /\ turn'.who = turn.who /\ turn'.at = location /\ (turn.program => turn'.program)
    /\ engine' = engine /\ force' = force

\* A driver that fails unwinds, if it has tasks to drain, or returns.
Failed ==
    \/ /\ turn.program /\ turn'.program /\ Moved("unwind")
       /\ flags' = [flags EXCEPT !.stop = TRUE, !.closed = TRUE]
    \/ ~turn.program /\ Returned /\ flags' = flags

\* Where nothing has been decided about the end of the run.
Before == InGraph \cup {"init", "start"}

\* A driver that returns frees the turn and tells its own caller, nobody else.
LEMMA ReturnEffect ==
    ASSUME DriverType, TurnOwned, turn.at # "none", NEW ok, Return(ok)
    PROVE  Returned /\ turn'.at \notin Before
<1>1. turn.who \in Drivers
      BY Held
<1>. QED
      BY <1>1 DEF Return, Returned, Drivers, Free, Before, InGraph

\* A driver that fails does the same, or unwinds first when it runs the program.
LEMMA FailEffect ==
    ASSUME DriverType, TurnOwned, turn.at # "none", Fail
    PROVE  /\ Failed /\ turn'.at \notin Before
           /\ Returned \/ Moved("unwind")
           /\ flags'.force = flags.force /\ flags'.lost = flags.lost
           /\ (flags.stop => flags'.stop) /\ (flags.closed => flags'.closed)
<1>1. CASE turn.program
      BY <1>1
      DEF Fail, Failed, Moved, Goto, StopAndClose, DriverType, Turns, Flags, Before, InGraph
<1>2. CASE ~turn.program
      BY <1>2, ReturnEffect DEF Fail, Failed
<1>. QED
      BY <1>1, <1>2

\* The driver's steps, failures included.
DriverStep == Drive \/ DriverFaults \/ PostmortemUnconfirmed

\* initialize: where a drive goes when it has read the ledger.
LEMMA InitializeEffect ==
    ASSUME TypeOK, TurnOwned, initialize
    PROVE  \/ Ended /\ Returned /\ flags' = flags
           \/ Moved("usage") /\ ledger.primary # "none" /\ ~Ended /\ flags' = flags
           \/ Moved("start") /\ ledger.primary = "none" /\ ~Ended /\ flags' = flags /\ ~Stopped
           \/ /\ Moved("stop") /\ ledger.primary = "none" /\ ~Ended
              /\ turn'.result \in Interruptions /\ StopAndClose
<1>1. turn.at = "init" /\ turn \in Turns
      BY DEF initialize, At, TypeOK, DriverType
<1>2. CASE Ended
      BY <1>1, <1>2, ReturnEffect DEF initialize, TypeOK
<1>3. CASE ~Ended /\ ledger.primary # "none"
      BY <1>1, <1>3 DEF initialize, Goto, Moved, Turns
<1>4. CASE ~Ended /\ ledger.primary = "none" /\ ~Stopped /\ Active(ledger) = {}
      BY <1>1, <1>4 DEF initialize, Goto, Moved, Turns
<1>5. CASE ~Ended /\ ledger.primary = "none" /\ (Stopped \/ Active(ledger) # {})
      BY <1>1, <1>5 DEF initialize, BeginStop, Moved, Turns, Interruptions
<1>. QED
      BY <1>2, <1>3, <1>4, <1>5

\* RunStarted: the program is entered with the run marked as running, or the drive is over.
LEMMA RunStartedEffect ==
    ASSUME TypeOK, TurnOwned, RunStarted
    PROVE  \/ /\ Moved("loop") /\ turn'.program
              /\ ledger' = [ledger EXCEPT !.phase = "running"]
           \/ Returned /\ ledger' = ledger
<1>1. turn.at = "start" /\ turn \in Turns
      BY DEF RunStarted, At, TypeOK, DriverType
<1>2. CASE ledger.phase \in {"admitted", "running"}
      BY <1>1, <1>2 DEF RunStarted, Moved, Turns
<1>3. CASE ledger.phase \notin {"admitted", "running"}
      BY <1>1, <1>3, ReturnEffect DEF RunStarted, TypeOK
<1>. QED
      BY <1>2, <1>3

\* Every step of the driver keeps the turn or gives it back, and says nothing on behalf of others.
LEMMA DriverEffect ==
    ASSUME TypeOK, TurnOwned, DriverStep
    PROVE  /\ turn.at # "none"
           /\ waiting' = waiting /\ loss' = loss /\ orphan' = orphan
           /\ cut' = cut
           /\ flags'.force = flags.force /\ flags'.lost = flags.lost
           /\ (flags.stop => flags'.stop) /\ (flags.closed => flags'.closed)
           /\ turn'.at \in Before => turn.at \in Before /\ flags' = flags
           /\ Returned \/ \E location \in Locations \ {"none"} : Moved(location)
<1> DEFINE Kept == /\ turn.at # "none"
                   /\ waiting' = waiting /\ loss' = loss /\ orphan' = orphan /\ cut' = cut
                   /\ flags'.force = flags.force /\ flags'.lost = flags.lost
                   /\ (flags.stop => flags'.stop) /\ (flags.closed => flags'.closed)
           Goes == /\ turn'.at \in Before => turn.at \in Before /\ flags' = flags
                   /\ Returned \/ \E location \in Locations \ {"none"} : Moved(location)
<1>1. ASSUME initialize PROVE Kept /\ Goes
      BY <1>1, InitializeEffect DEF initialize, At, StopAndClose, work, TypeOK, DriverType, Flags,
             Locations, Moved, Before, InGraph, Returned, Free
<1>2. ASSUME RunStarted PROVE Kept /\ Goes
      BY <1>2, RunStartedEffect DEF RunStarted, At, work, TypeOK, DriverType, Flags, Locations,
             Moved, Before, InGraph, Returned, Free
<1>3. ASSUME drive_active_program PROVE Kept /\ Goes
      BY <1>3 DEF drive_active_program, BeginStop, At, Goto, StopAndClose, driver, work, TypeOK,
             DriverType, Turns, Flags, Locations, Moved, Before, InGraph
<1>4. ASSUME advance PROVE Kept /\ Goes
      BY <1>4 DEF advance, At, Goto, StopAndClose, driver, work, TypeOK, DriverType, Turns, Flags,
             Locations, Moved, Before, InGraph
<1>5. ASSUME dispatch PROVE Kept /\ Goes
      BY <1>5 DEF dispatch, At, Goto, StopAndClose, driver, work, TypeOK, DriverType, Turns, Flags,
             Locations, Moved, Before, InGraph
<1>6. ASSUME NEW e \in Executions, settle(e) PROVE Kept /\ Goes
      BY <1>6, FailEffect DEF settle, At, Goto, driver, work, TypeOK, DriverType, Turns, Locations,
             Moved, Before, InGraph
<1>7. ASSUME latch_primary_graph PROVE Kept /\ Goes
      BY <1>7 DEF latch_primary_graph, At, Goto, StopAndClose, driver, work, TypeOK, DriverType,
             Turns, Flags, Locations, Moved, Before, InGraph
<1>8. ASSUME run_postmortem PROVE Kept /\ Goes
      BY <1>8 DEF run_postmortem, At, Goto, StopAndClose, driver, work, TypeOK, DriverType, Turns,
             Flags, Locations, Moved, Before, InGraph
<1>9. ASSUME PostmortemEnds PROVE Kept /\ Goes
      BY <1>9 DEF PostmortemEnds, At, Goto, StopAndClose, driver, work, TypeOK, DriverType, Turns,
             Flags, Locations, Moved, Before, InGraph
<1>10. ASSUME retry_latch PROVE Kept /\ Goes
      BY <1>10 DEF retry_latch, At, Goto, StopAndClose, driver, work, TypeOK, DriverType, Turns,
             Flags, Locations, Moved, Before, InGraph
<1>11. ASSUME close_run PROVE Kept /\ Goes
      BY <1>11 DEF close_run, At, Goto, StopAndClose, driver, work, TypeOK, DriverType, Turns,
             Flags, Locations, Moved, Before, InGraph
<1>12. ASSUME cleanup_runtime PROVE Kept /\ Goes
      BY <1>12 DEF cleanup_runtime, At, Goto, StopAndClose, driver, work, TypeOK, DriverType,
             Turns, Flags, Locations, Moved, Before, InGraph
<1>13. ASSUME append_terminal PROVE Kept /\ Goes
      BY <1>13, ReturnEffect, FailEffect DEF append_terminal, At, Goto, StopAndClose, driver, work,
             TypeOK, DriverType, Turns, Flags, Locations, Moved, Before, InGraph
<1>14. ASSUME NEW e \in Executions, drain_terminalizing_tasks(e) PROVE Kept /\ Goes
      BY <1>14, FailEffect DEF drain_terminalizing_tasks, At, Goto, driver, work, TypeOK,
             DriverType, Turns, Locations, Moved, Before, InGraph
<1>15. ASSUME TasksDrained PROVE Kept /\ Goes
      BY <1>15, ReturnEffect DEF TasksDrained, At, Goto, StopAndClose, driver, work, TypeOK,
             DriverType, Turns, Flags, Locations, Moved, Before, InGraph
<1>16. ASSUME append_stopped PROVE Kept /\ Goes
      BY <1>16, ReturnEffect DEF append_stopped, At, Goto, StopAndClose, driver, work, TypeOK,
             DriverType, Turns, Flags, Locations, Moved, Before, InGraph
<1>17. ASSUME NEW e \in Executions, drain_failed_tasks(e) PROVE Kept /\ Goes
      BY <1>17 DEF drain_failed_tasks, At, Goto, StopAndClose, driver, work, TypeOK, DriverType,
             Turns, Flags, Locations, Moved, Before, InGraph
<1>18. ASSUME DriveFailed PROVE Kept /\ Goes
      BY <1>18, ReturnEffect DEF DriveFailed, At, Goto, StopAndClose, driver, work, TypeOK,
             DriverType, Turns, Flags, Locations, Moved, Before, InGraph
<1>19. ASSUME fail_runtime PROVE Kept /\ Goes
      BY <1>19 DEF fail_runtime, At, Goto, StopAndClose, driver, work, TypeOK, DriverType, Turns,
             Flags, Locations, Moved, Before, InGraph
<1>20. ASSUME append_runtime_failure PROVE Kept /\ Goes
      BY <1>20, ReturnEffect DEF append_runtime_failure, At, Goto, StopAndClose, driver, work,
             TypeOK, DriverType, Turns, Flags, Locations, Moved, Before, InGraph
<1>21. ASSUME DriverFaults PROVE Kept /\ Goes
      BY <1>21, FailEffect DEF DriverFaults, At, Goto, driver, work, TypeOK, DriverType, Turns,
             Locations, Moved, Before, InGraph
<1>22. ASSUME PostmortemUnconfirmed PROVE Kept /\ Goes
      BY <1>22, FailEffect DEF PostmortemUnconfirmed, At, Goto, driver, work, TypeOK, DriverType,
             Turns, Locations, Moved, Before, InGraph
<1>. QED
      BY <1>1, <1>2, <1>3, <1>4, <1>5, <1>6, <1>7, <1>8, <1>9, <1>10, <1>11, <1>12, <1>13, <1>14,
         <1>15, <1>16, <1>17, <1>18, <1>19, <1>20, <1>21, <1>22 DEF DriverStep, Drive

\* Every step leaves the turn with an owner that is where its caller thinks it is.
LEMMA TurnOwnedStep ==
    ASSUME TypeOK, TurnOwned, QueueOwned, [Next]_vars
    PROVE  TurnOwned'
<1> USE DEF TypeOK, DriverType, Turns, Flags, Free, TurnOwned, InGraph, InStop, InFail, InOutcome
<1>1. ASSUME EngineAsks PROVE TurnOwned'
      BY <1>1 DEF EngineAsks, Goto, work
<1>2. ASSUME TakeTurn PROVE TurnOwned'
      BY <1>2 DEF TakeTurn, Goto, work, QueueOwned, Drivers
<1>3. ASSUME initialize PROVE TurnOwned'
  <2>1. CASE Ended
        BY <1>3, <2>1 DEF initialize, Return, At
  <2>2. CASE ~Ended /\ (ledger.primary # "none" \/ (~Stopped /\ Active(ledger) = {}))
        BY <1>3, <2>2 DEF initialize, Goto, Stopped, At
  <2>3. CASE ~Ended /\ ledger.primary = "none" /\ (Stopped \/ Active(ledger) # {})
    <3>0. turn.at = "init" /\ \E result \in Interruptions : BeginStop(result)
          BY <1>3, <2>3 DEF initialize, At, Interruptions
    <3>1. /\ turn'.who = turn.who /\ turn'.at = "stop" /\ turn'.program = turn.program
          /\ flags'.force = flags.force /\ engine' = engine /\ turn.at = "init"
          BY <3>0 DEF BeginStop, StopAndClose, TypeOK, DriverType, Turns, Flags
    <3>. QED
          BY <3>1
  <2>. QED
        BY <2>1, <2>2, <2>3
<1>4. ASSUME RunStarted PROVE TurnOwned'
  <2>1. CASE ledger.phase \in {"admitted", "running"}
    <3>1. /\ turn'.who = turn.who /\ turn'.at = "loop" /\ turn'.program
          /\ flags' = flags /\ engine' = engine /\ turn.at = "start"
          BY <1>4, <2>1 DEF RunStarted, At
    <3>2. turn.who = "engine"
          BY <3>1, Held DEF Drivers
    <3>. QED
          BY <3>1, <3>2
  <2>2. CASE ledger.phase \notin {"admitted", "running"}
        BY <1>4, <2>2 DEF RunStarted, Return
  <2>. QED
        BY <2>1, <2>2
<1>5. ASSUME drive_active_program PROVE TurnOwned'
      BY <1>5 DEF drive_active_program, BeginStop, At, Goto, StopAndClose, work
<1>6. ASSUME advance PROVE TurnOwned'
      BY <1>6 DEF advance, At, Goto, work
<1>7. ASSUME dispatch PROVE TurnOwned'
      BY <1>7 DEF dispatch, At, Goto, work
<1>8. ASSUME NEW e \in Executions, settle(e) PROVE TurnOwned'
      BY <1>8 DEF settle, settled_outcome, At, Goto, StopAndClose, work, Fail, Return
<1>9. CASE latch_primary_graph \/ run_postmortem \/ PostmortemEnds \/ close_run \/ fail_runtime
      BY <1>9 DEF latch_primary_graph, run_postmortem, PostmortemEnds, close_run, fail_runtime, At,
             Goto, work
<1>10. ASSUME retry_latch PROVE TurnOwned'
      BY <1>10 DEF retry_latch, At, Goto, work
<1>11. ASSUME cleanup_runtime PROVE TurnOwned'
      BY <1>11 DEF cleanup_runtime, At, Goto, work
<1>12. ASSUME append_terminal PROVE TurnOwned'
      BY <1>12 DEF append_terminal, At, Goto, StopAndClose, work, Fail, Return
<1>13. ASSUME NEW e \in Executions, drain_terminalizing_tasks(e) PROVE TurnOwned'
      BY <1>13 DEF drain_terminalizing_tasks, At, Goto, StopAndClose, work, Fail, Return
<1>14. ASSUME TasksDrained PROVE TurnOwned'
      BY <1>14 DEF TasksDrained, At, Goto, work, Return
<1>15. ASSUME append_stopped PROVE TurnOwned'
      BY <1>15 DEF append_stopped, At, Goto, work, Return
<1>16. ASSUME NEW e \in Executions, drain_failed_tasks(e) PROVE TurnOwned'
      BY <1>16 DEF drain_failed_tasks, At, Goto, driver, work
<1>17. ASSUME DriveFailed PROVE TurnOwned'
      BY <1>17 DEF DriveFailed, At, Goto, work, Return
<1>18. ASSUME append_runtime_failure PROVE TurnOwned'
      BY <1>18 DEF append_runtime_failure, At, Goto, work, Return
<1>19. ASSUME DriverFaults PROVE TurnOwned'
      BY <1>19 DEF DriverFaults, At, Goto, StopAndClose, work, Fail, Return
<1>20. ASSUME PostmortemUnconfirmed PROVE TurnOwned'
      BY <1>20 DEF PostmortemUnconfirmed, At, Goto, StopAndClose, work, Fail, Return
<1>21. CASE \E e \in Executions : runner_start(e) \/ TaskEnds(e)
      BY <1>21 DEF runner_start, TaskEnds, PendingEnds, LiveEnds, Finish, Goto, driver, work
<1>22. CASE ForceStop \/ RuntimeLoss
      BY <1>22 DEF ForceStop, force_stop, ForceCloses, ForceRecords, ForceFails, RuntimeLoss,
             runtime_lost, LossCloses, Goto, StopAndClose, driver, work
<1>23. ASSUME Crash PROVE TurnOwned'
      BY <1>23 DEF Crash, At, Goto, work
<1>24. CASE Reconcile
      BY <1>24 DEF Reconcile, fail_orphaned_runtime, OrphanOwned, finish_lost_runtime,
             append_interrupted, Goto, driver, work
<1>25. CASE UNCHANGED vars
      BY <1>25 DEF vars
<1>. QED
      BY <1>1, <1>2, <1>3, <1>4, <1>5, <1>6, <1>7, <1>8, <1>9, <1>10, <1>11, <1>12, <1>13, <1>14,
         <1>15, <1>16, <1>17, <1>18, <1>19, <1>20, <1>21, <1>22, <1>23, <1>24, <1>25 DEF Next,
             Drive, TaskEnds, ForceStop, RuntimeLoss, Reconcile

\* The queue for drive_turn: every waiter is there for the state its caller is in.
LEMMA QueueOwnedStep ==
    ASSUME TypeOK, TurnOwned, QueueOwned, IntentFirst, [Next]_vars
    PROVE  QueueOwned'
<1> USE DEF TypeOK, DriverType
<1>1. ASSUME EngineAsks PROVE QueueOwned'
  <2>1. PICK x \in {"engine", "fail"} :
            /\ waiting' = Append(waiting, x)
            /\ engine' = IF x = "engine" THEN "driving" ELSE "failing"
            /\ \A i \in 1..Len(waiting) : waiting[i] = "force"
            /\ turn' = turn /\ turn.who \notin {"engine", "fail"} /\ flags' = flags
        BY <1>1 DEF EngineAsks, QueueOwned, TurnOwned, Drivers
  <2>2. /\ Len(waiting') = Len(waiting) + 1 /\ Len(waiting) \in Nat
        /\ \A i \in 1..Len(waiting) : waiting'[i] = "force"
        /\ waiting'[Len(waiting) + 1] = x
        BY <2>1 DEF Drivers
  <2>. QED
        BY <2>1, <2>2 DEF QueueOwned
<1>2. ASSUME TakeTurn PROVE QueueOwned'
  <2>1. /\ waiting \in Seq(Drivers) /\ waiting # <<>> /\ waiting' = Tail(waiting)
        /\ turn'.who = waiting[1] /\ engine' = engine /\ flags' = flags
        BY <1>2 DEF TakeTurn, Free
  <2>2. /\ Len(waiting') = Len(waiting) - 1 /\ Len(waiting) \in Nat
        /\ \A i \in 1..Len(waiting') : waiting'[i] = waiting[i + 1]
        BY <2>1
  <2>3. turn.who = "none"
        BY <1>2 DEF TakeTurn, Free
  <2>4. ASSUME NEW i \in 1..Len(waiting')
        PROVE  /\ i + 1 \in 1..Len(waiting) /\ 1 \in 1..Len(waiting) /\ i + 1 # 1
        BY <2>2
  <2>. QED
        BY <2>1, <2>2, <2>3, <2>4 DEF QueueOwned
<1>3. ASSUME DriverStep PROVE QueueOwned'
      BY <1>3, DriverEffect, Held DEF Returned, Moved, QueueOwned, TurnOwned, Free, Drivers
<1>4. CASE \E e \in Executions : runner_start(e) \/ TaskEnds(e)
      BY <1>4 DEF runner_start, TaskEnds, PendingEnds, LiveEnds, Finish, driver, QueueOwned
<1>5. CASE force_stop \/ ForceCloses \/ ForceFails
      BY <1>5 DEF force_stop, ForceCloses, ForceFails, StopAndClose, driver, Flags, QueueOwned
<1>6. ASSUME ForceRecords PROVE QueueOwned'
  <2>1. /\ waiting' = Append(waiting, "force") /\ engine' = engine /\ turn' = turn /\ flags' = flags
        /\ flags.force
        BY <1>6 DEF ForceRecords, IntentFirst
  <2>2. /\ Len(waiting') = Len(waiting) + 1 /\ Len(waiting) \in Nat
        /\ \A i \in 1..Len(waiting) : waiting'[i] = waiting[i]
        /\ waiting'[Len(waiting) + 1] = "force"
        BY <2>1 DEF Drivers
  <2>. QED
        BY <2>1, <2>2 DEF QueueOwned
<1>7. CASE RuntimeLoss
  <2>1. flags'.force = flags.force /\ UNCHANGED <<waiting, turn, engine>>
        BY <1>7 DEF RuntimeLoss, runtime_lost, LossCloses, StopAndClose, driver, Flags
  <2>. QED
        BY <2>1 DEF QueueOwned
<1>8. CASE Crash
      BY <1>8 DEF Crash, QueueOwned
<1>9. CASE Reconcile
      BY <1>9 DEF Reconcile, fail_orphaned_runtime, OrphanOwned, finish_lost_runtime,
                  append_interrupted, driver, QueueOwned
<1>10. CASE UNCHANGED vars
      BY <1>10 DEF vars, QueueOwned
<1>. QED
      BY <1>1, <1>2, <1>3, <1>4, <1>5, <1>6, <1>7, <1>8, <1>9, <1>10
      DEF Next, DriverStep, ForceStop

-----------------------------------------------------------------------------
(* Who writes what *)

\* The appends to the ledger; every other step leaves it alone.
Appends ==
    \/ RunStarted \/ dispatch \/ (\E e \in Executions : settle(e)) \/ latch_primary_graph
    \/ retry_latch \/ append_terminal \/ append_stopped \/ append_runtime_failure \/ ForceRecords
    \/ append_interrupted

\* The ten steps that append to the ledger are the only ones that change it.
LEMMA OnlyAppendsWrite ==
    ASSUME [Next]_vars, ~Appends
    PROVE  ledger' = ledger
<1>1. CASE Drive
      BY <1>1
      DEF Appends, Drive, initialize, drive_active_program, advance, run_postmortem, PostmortemEnds,
          close_run, cleanup_runtime, drain_terminalizing_tasks, TasksDrained, drain_failed_tasks,
          DriveFailed, fail_runtime
<1>2. CASE EngineAsks \/ TakeTurn \/ DriverFaults \/ PostmortemUnconfirmed \/ Crash
      BY <1>2 DEF EngineAsks, TakeTurn, DriverFaults, PostmortemUnconfirmed, Crash
<1>3. CASE \E e \in Executions : runner_start(e) \/ TaskEnds(e)
      BY <1>3 DEF runner_start, TaskEnds, PendingEnds, LiveEnds, Finish
<1>4. CASE ForceStop \/ RuntimeLoss \/ Reconcile
      BY <1>4
      DEF Appends, ForceStop, force_stop, ForceCloses, ForceFails, RuntimeLoss, runtime_lost,
          LossCloses, Reconcile, fail_orphaned_runtime, OrphanOwned, finish_lost_runtime
<1>5. CASE UNCHANGED vars
      BY <1>5 DEF vars
<1>. QED
      BY <1>1, <1>2, <1>3, <1>4, <1>5 DEF Next

\* Work is started by the program only; every other step at most ends some.
LEMMA OnlyTheProgramStarts ==
    ASSUME [Next]_vars
    PROVE  \/ \E e \in Executions : runner_start(e)
           \/ run_postmortem
           \/ processes' \subseteq processes
<1>1. CASE Drive
      BY <1>1
      DEF Drive, initialize, RunStarted, drive_active_program, advance, dispatch, settle,
          latch_primary_graph, PostmortemEnds, retry_latch, close_run, cleanup_runtime,
          append_terminal, drain_terminalizing_tasks, TasksDrained, append_stopped,
          drain_failed_tasks, DriveFailed, fail_runtime, append_runtime_failure, work
<1>2. CASE EngineAsks \/ TakeTurn \/ DriverFaults \/ PostmortemUnconfirmed \/ Crash
      BY <1>2 DEF EngineAsks, TakeTurn, DriverFaults, PostmortemUnconfirmed, Crash, work
<1>3. CASE \E e \in Executions : runner_start(e) \/ TaskEnds(e)
      BY <1>3 DEF TaskEnds, PendingEnds, LiveEnds
<1>4. CASE ForceStop \/ RuntimeLoss \/ Reconcile
      BY <1>4
      DEF ForceStop, force_stop, ForceCloses, ForceRecords, ForceFails, RuntimeLoss, runtime_lost,
          LossCloses, Reconcile, fail_orphaned_runtime, OrphanOwned, finish_lost_runtime,
          append_interrupted, work
<1>5. CASE UNCHANGED vars
      BY <1>5 DEF vars
<1>. QED
      BY <1>1, <1>2, <1>3, <1>4, <1>5 DEF Next

\* Only reconciliation, or a crash that ends it, changes what was read of an orphaned run.
LEMMA OnlyReconcileReads ==
    ASSUME TypeOK, TurnOwned, [Next]_vars
    PROVE  \/ orphan' = orphan \/ fail_orphaned_runtime \/ OrphanOwned \/ finish_lost_runtime
           \/ append_interrupted \/ Crash
<1>1. CASE DriverStep
      BY <1>1, DriverEffect
<1>2. CASE ~DriverStep
      BY <1>2
      DEF DriverStep, Next, EngineAsks, TakeTurn, runner_start, TaskEnds, PendingEnds, LiveEnds,
          Finish, ForceStop, force_stop, ForceCloses, ForceRecords, ForceFails, RuntimeLoss,
          runtime_lost, LossCloses, Reconcile, vars
<1>. QED
      BY <1>1, <1>2

-----------------------------------------------------------------------------
(* Types of the ledger and of reconciliation *)

\* Closing a run, and settling what was active, keeps the ledger's type.
LEMMA CloseType ==
    ASSUME ledger \in Ledgers, NEW result \in Outcomes
    PROVE  /\ Close(result) \in Ledgers
           /\ \A outcome \in Settled : SettleActive(Close(result), outcome) \in Ledgers
<1>1. Close(result) \in Ledgers
      BY DEF Close, Ledgers
<1>. QED
      BY <1>1 DEF SettleActive, Ledgers

\* The ledger and what reconciliation read of it keep their types.
LEMMA LedgerTypeStep ==
    ASSUME TypeOK, TurnOwned, PlaceSound, OrphanSound, [Next]_vars
    PROVE  LedgerType'
<1>0. ledger \in Ledgers /\ orphan \in Orphans
      BY DEF TypeOK, LedgerType
<1>1. CASE RunStarted \/ dispatch \/ retry_latch \/ ForceRecords
  <2>1. CASE RunStarted
        BY <1>0, <2>1 DEF RunStarted, LedgerType, Ledgers
  <2>2. CASE dispatch
        BY <1>0, <2>2 DEF dispatch, LedgerType, Ledgers
  <2>3. CASE retry_latch
        BY <1>0, <2>3 DEF retry_latch, LedgerType, Ledgers
  <2>4. CASE ForceRecords
        BY <1>0, <2>4 DEF ForceRecords, LedgerType, Ledgers
  <2>. QED
        BY <1>1, <2>1, <2>2, <2>3, <2>4
<1>2. ASSUME NEW e \in Executions, settle(e) PROVE LedgerType'
  <2>1. e \in voids \/ tasks[e] \in Finished \ {"unconfirmed", "fatal"} \/ Stopped =>
          (IF e \in voids THEN "voided" ELSE settled_outcome(tasks[e])) \in Settled
        BY DEF settled_outcome, Settled, Finished
  <2>2. \/ ledger' = ledger
        \/ \E outcome \in Settled : ledger' = [ledger EXCEPT !.executions[e] = outcome]
        BY <1>2, <2>1 DEF settle
  <2>3. \A outcome \in Settled : [ledger EXCEPT !.executions[e] = outcome] \in Ledgers
        BY <1>0 DEF Ledgers
  <2>. QED
        BY <1>0, <1>2, <2>2, <2>3 DEF settle, LedgerType
<1>3. ASSUME latch_primary_graph PROVE LedgerType'
  <2>1. turn.result \in GraphResults
        BY <1>3 DEF latch_primary_graph, At, PlaceSound
  <2>. QED
        BY <1>0, <1>3, <2>1 DEF latch_primary_graph, LedgerType, TypeOK, DriverType, Flags, Ledgers
<1>4. ASSUME append_terminal PROVE LedgerType'
  <2>1. turn.result \in Outcomes
        BY <1>0, <1>4 DEF append_terminal, At, PlaceSound, InOutcome, Outcomes, Ledgers
  <2>. QED
        BY <1>0, <1>4, <2>1, CloseType DEF append_terminal, LedgerType
<1>5. ASSUME append_stopped PROVE LedgerType'
  <2>1. turn.result \in Outcomes
        BY <1>5 DEF append_stopped, At, PlaceSound, InStop, Interruptions, Outcomes
  <2>. QED
        BY <1>0, <1>5, <2>1, CloseType DEF append_stopped, LedgerType, Settled
<1>6. ASSUME append_runtime_failure PROVE LedgerType'
      BY <1>0, <1>6, CloseType DEF append_runtime_failure, LedgerType, Outcomes, Settled
<1>7. ASSUME append_interrupted PROVE LedgerType'
  <2>1. orphan' \in Orphans
        BY <1>0, <1>7 DEF append_interrupted, Orphans
  <2>2. orphan.primary # "none" =>
          [Close(orphan.primary) EXCEPT !.usageComplete = @ /\ ~orphan.auxiliaryPending] \in Ledgers
        BY <1>0, CloseType DEF Orphans, Ledgers, Outcomes
  <2>3. SettleActive(Close("runtime_lost"), "crash") \in Ledgers
        BY <1>0, CloseType DEF Outcomes, Interruptions, Settled
  <2>. QED
        BY <1>0, <1>7, <2>1, <2>2, <2>3 DEF append_interrupted, LedgerType
<1>8. ASSUME ~Appends PROVE LedgerType'
  <2>1. ledger' = ledger
        BY <1>8, OnlyAppendsWrite
  <2>2. orphan' \in Orphans
    <3>1. CASE fail_orphaned_runtime
          BY <1>0, <3>1 DEF fail_orphaned_runtime, Active, Ledgers, Orphans
    <3>2. CASE OrphanOwned \/ finish_lost_runtime
          BY <1>0, <3>2 DEF OrphanOwned, finish_lost_runtime, Orphans
    <3>3. CASE Crash
          BY <3>3 DEF Crash, NoOrphan, Orphans
    <3>. QED
          BY <1>0, <1>8, <3>1, <3>2, <3>3, OnlyReconcileReads DEF Appends
  <2>. QED
        BY <1>0, <2>1, <2>2 DEF LedgerType
<1>. QED
      BY <1>1, <1>2, <1>3, <1>4, <1>5, <1>6, <1>7, <1>8 DEF Appends

-----------------------------------------------------------------------------
(* The durable record *)

\* The driver's program location belongs to the engine and to an open run.
LEMMA InProgram ==
    ASSUME TypeOK, TurnOwned, PlaceSound, turn.at \in InGraph \cup {"start", "postmortem", "unwind"}
    PROVE  turn.who = "engine" /\ engine = "driving" /\ ~Ended
<1>1. turn.who = "engine"
      BY Held DEF TypeOK, TurnOwned, InGraph, InStop, InFail, InOutcome, Drivers
<1>. QED
      BY <1>1 DEF TurnOwned, PlaceSound, InGraph

\* An ended run is never written to again, a latched outcome never changes, and the mark of a
\* pending postmortem stays until the run ends.
LEMMA LedgerKept ==
    ASSUME IInv, [Next]_vars
    PROVE  /\ Ended => ledger' = ledger
           /\ ledger.primary # "none" => ledger'.primary = ledger.primary
           /\ ledger.primary # "none" /\ ledger'.terminal = "none" =>
                  ledger'.auxiliaryPending = ledger.auxiliaryPending
           /\ ~ledger.usageComplete => ~ledger'.usageComplete
<1> DEFINE Kept == /\ Ended => ledger' = ledger
                   /\ ledger.primary # "none" => ledger'.primary = ledger.primary
                   /\ ledger.primary # "none" /\ ledger'.terminal = "none" =>
                          ledger'.auxiliaryPending = ledger.auxiliaryPending
                   /\ ~ledger.usageComplete => ~ledger'.usageComplete
<1>0. ledger \in Ledgers
      BY DEF IInv, TypeOK, LedgerType
<1>1. ASSUME RunStarted PROVE Kept
      BY <1>0, <1>1, InProgram DEF RunStarted, At, Ledgers, IInv
<1>2. ASSUME dispatch PROVE Kept
      BY <1>0, <1>2, InProgram DEF dispatch, At, Ledgers, IInv, InGraph
<1>3. ASSUME NEW e \in Executions, settle(e) PROVE Kept
      BY <1>0, <1>3, InProgram DEF settle, At, Ledgers, IInv, InGraph
<1>4. ASSUME latch_primary_graph PROVE Kept
      BY <1>0, <1>4, InProgram DEF latch_primary_graph, At, Ledgers, IInv, InGraph, PlaceSound
<1>5. ASSUME retry_latch PROVE Kept
      BY <1>0, <1>5 DEF retry_latch, Ledgers
<1>6. ASSUME append_terminal PROVE Kept
      BY <1>0, <1>6 DEF append_terminal, Close, Ledgers, Ended, At, IInv, PlaceSound, InOutcome
<1>7. ASSUME append_stopped PROVE Kept
      BY <1>0, <1>7 DEF append_stopped, SettleActive, Close, Ledgers, Ended, At, IInv, PlaceSound,
                        InStop, Interruptions
<1>8. ASSUME append_runtime_failure PROVE Kept
      BY <1>0, <1>8 DEF append_runtime_failure, SettleActive, Close, Ledgers, Ended
<1>9. ASSUME ForceRecords PROVE Kept
      BY <1>0, <1>9 DEF ForceRecords, Ledgers
<1>10. ASSUME append_interrupted PROVE Kept
      BY <1>0, <1>10 DEF append_interrupted, SettleActive, Close, Ledgers, Ended
<1>. QED
      BY <1>1, <1>2, <1>3, <1>4, <1>5, <1>6, <1>7, <1>8, <1>9, <1>10, OnlyAppendsWrite DEF Appends

\* No step leaves an active execution behind an outcome or a result.
LEMMA LedgerSoundStep ==
    ASSUME IInv, [Next]_vars
    PROVE  LedgerSound'
<1> USE DEF LedgerSound, Ended, Active
<1>0. ledger \in Ledgers
      BY DEF IInv, TypeOK, LedgerType
<1>1. ASSUME RunStarted PROVE LedgerSound'
      BY <1>0, <1>1, InProgram DEF RunStarted, At, Ledgers, IInv, PlaceSound
<1>2. ASSUME dispatch PROVE LedgerSound'
      BY <1>0, <1>2, InProgram DEF dispatch, At, Ledgers, IInv, PlaceSound, InGraph
<1>3. ASSUME NEW e \in Executions, settle(e) PROVE LedgerSound'
  <2>1. turn.at \in InGraph
        BY <1>3 DEF settle, At, InGraph
  <2>2. ledger.primary = "none" /\ ~Ended
        BY <2>1, InProgram DEF IInv, PlaceSound
  <2>3. ledger'.primary = ledger.primary /\ ledger'.terminal = ledger.terminal
        BY <1>0, <1>3 DEF settle, Ledgers
  <2>. QED
        BY <2>2, <2>3
<1>4. ASSUME latch_primary_graph PROVE LedgerSound'
      BY <1>0, <1>4, InProgram DEF latch_primary_graph, At, Ledgers, IInv, InGraph, PlaceSound
<1>5. ASSUME retry_latch PROVE LedgerSound'
      BY <1>0, <1>5 DEF retry_latch, Ledgers, IInv
<1>6. ASSUME append_terminal PROVE LedgerSound'
  <2>1. CASE Ended
        BY <1>6, <2>1 DEF append_terminal, IInv
  <2>2. CASE ~Ended
    <3>1. Active(ledger) = {}
          BY <1>6 DEF append_terminal, At, IInv, PlaceSound, InOutcome
    <3>2. ledger'.phase = "finished" /\ ledger'.executions = ledger.executions
          BY <1>0, <1>6, <2>2 DEF append_terminal, Close, Ledgers
    <3>. QED
          BY <3>1, <3>2
  <2>. QED
        BY <2>1, <2>2
<1>7. ASSUME append_stopped PROVE LedgerSound'
      BY <1>0, <1>7 DEF append_stopped, SettleActive, Close, Ledgers, IInv
<1>8. ASSUME append_runtime_failure PROVE LedgerSound'
      BY <1>0, <1>8 DEF append_runtime_failure, SettleActive, Close, Ledgers, IInv
<1>9. ASSUME ForceRecords PROVE LedgerSound'
      BY <1>0, <1>9 DEF ForceRecords, Ledgers, IInv
<1>10. ASSUME append_interrupted PROVE LedgerSound'
  <2>1. CASE Ended \/ orphan.active # Active(ledger)
        BY <1>10, <2>1 DEF append_interrupted, IInv
  <2>2. CASE ~Ended /\ orphan.primary # "none"
        BY <1>0, <1>10, <2>2 DEF append_interrupted, Close, Ledgers, IInv, OrphanSound
  <2>3. CASE ~Ended /\ orphan.primary = "none"
        BY <1>0, <1>10, <2>3 DEF append_interrupted, SettleActive, Close, Ledgers, IInv
  <2>. QED
        BY <2>1, <2>2, <2>3
<1>. QED
      BY <1>1, <1>2, <1>3, <1>4, <1>5, <1>6, <1>7, <1>8, <1>9, <1>10, OnlyAppendsWrite
      DEF Appends, IInv

\* Once the engine is gone it stays gone, and nothing is started.
LEMMA EngineGone ==
    ASSUME IInv, [Next]_vars, engine \in {"ended", "dead"}
    PROVE  engine' \in {"ended", "dead"} /\ processes' \subseteq processes
<1>1. ~turn.program /\ turn.who \notin {"engine", "fail"}
      BY DEF IInv, TurnOwned
<1>2. processes' \subseteq processes
  <2>1. ASSUME NEW e \in Executions, runner_start(e) PROVE FALSE
        BY <1>1, <2>1 DEF runner_start, IInv, WorkOwned
  <2>2. ~run_postmortem
        BY <1>1 DEF run_postmortem, At, IInv, TurnOwned
  <2>. QED
        BY <2>1, <2>2, OnlyTheProgramStarts
<1>3. CASE DriverStep
      BY <1>1, <1>2, <1>3, DriverEffect, Held DEF IInv, TypeOK, Returned, Moved, Drivers
<1>4. CASE ~DriverStep /\ Next
      BY <1>2, <1>4
      DEF DriverStep, Next, EngineAsks, TakeTurn, runner_start, TaskEnds, PendingEnds, LiveEnds,
          Finish, ForceStop, force_stop, ForceCloses, ForceRecords, ForceFails, RuntimeLoss,
          runtime_lost, LossCloses, Crash, Reconcile, fail_orphaned_runtime, OrphanOwned,
          finish_lost_runtime, append_interrupted, driver
<1>. QED
      BY <1>2, <1>3, <1>4 DEF vars

\* Whoever is anywhere, or runs the program, belongs to a living controller.
LEMMA TurnAlive ==
    ASSUME IInv, turn.at # "none" \/ turn.program
    PROVE  engine # "dead"
  BY DEF IInv, DeadSound, Free

\* No driver dies of its own step.
LEMMA DriverAlive ==
    ASSUME IInv, DriverStep
    PROVE  engine # "dead" /\ engine' # "dead"
<1>1. turn.at # "none" /\ turn.who \in Drivers
      BY DriverEffect, Held DEF IInv, TypeOK
<1>2. engine # "dead"
      BY <1>1, TurnAlive
<1>. QED
      BY <1>1, <1>2, DriverEffect DEF IInv, TypeOK, Returned, Moved, Drivers

\* Only a crash kills, and the dead stay as the crash left them.
LEMMA OnlyCrashKills ==
    ASSUME IInv, [Next]_vars
    PROVE  /\ DeadSound'
           /\ engine = "dead" => engine' = "dead"
           /\ engine # "dead" /\ engine' = "dead" => Crash
<1>1. CASE DriverStep
      BY <1>1, DriverAlive DEF DeadSound
<1>2. CASE Crash
      BY <1>2 DEF Crash, DeadSound
<1>3. CASE EngineAsks \/ TakeTurn
      BY <1>3 DEF EngineAsks, TakeTurn, IInv, DeadSound
<1>4. CASE \E e \in Executions : runner_start(e) \/ TaskEnds(e)
      BY <1>4
      DEF runner_start, TaskEnds, PendingEnds, LiveEnds, Finish, driver, IInv, DeadSound
<1>5. CASE ForceStop \/ RuntimeLoss \/ Reconcile
      BY <1>5
      DEF ForceStop, force_stop, ForceCloses, ForceRecords, ForceFails, RuntimeLoss, runtime_lost,
          LossCloses, Reconcile, fail_orphaned_runtime, OrphanOwned, finish_lost_runtime,
          append_interrupted, driver, IInv, DeadSound
<1>6. CASE UNCHANGED vars
      BY <1>6 DEF vars, IInv, DeadSound
<1>. QED
      BY <1>1, <1>2, <1>3, <1>4, <1>5, <1>6 DEF Next, DriverStep

\* After a death the outcome stays as it was recorded.
LEMMA OutcomeAfterDeath ==
    ASSUME IInv, [Next]_vars, engine = "dead"
    PROVE  ledger'.primary = ledger.primary
<1>0. ledger \in Ledgers /\ turn.at = "none"
      BY DEF IInv, TypeOK, LedgerType, DeadSound, Free
<1>1. CASE DriverStep
      BY <1>1, DriverAlive
<1>2. CASE ForceRecords
      BY <1>0, <1>2 DEF ForceRecords, Ledgers
<1>3. CASE append_interrupted
      BY <1>0, <1>3 DEF append_interrupted, SettleActive, Close, Ledgers
<1>4. CASE ~Appends
      BY <1>4, OnlyAppendsWrite
<1>. QED
      BY <1>1, <1>2, <1>3, <1>4 DEF Appends, DriverStep, Drive

\* What reconciliation read stays true while it destroys the runtime and until it appends.
LEMMA OrphanSoundStep ==
    ASSUME IInv, [Next]_vars
    PROVE  OrphanSound'
<1> USE DEF Ended
<1>0. ledger \in Ledgers /\ orphan \in Orphans /\ OrphanSound
      BY DEF IInv, TypeOK, LedgerType
<1>1. ASSUME fail_orphaned_runtime PROVE OrphanSound'
      BY <1>1 DEF fail_orphaned_runtime, OrphanSound
<1>2. ASSUME Crash PROVE OrphanSound'
      BY <1>2 DEF Crash, NoOrphan, OrphanSound
<1>3. ASSUME finish_lost_runtime PROVE OrphanSound'
      BY <1>0, <1>3 DEF finish_lost_runtime, driver, Orphans, OrphanSound
<1>4. CASE /\ orphan'.primary = orphan.primary
           /\ orphan'.auxiliaryPending = orphan.auxiliaryPending
           /\ orphan'.at \in {orphan.at, "idle"}
  <2>1. orphan'.at = "destroyed" => engine' = "dead" \/ (engine' = "ended" /\ processes' = {})
        BY <1>0, <1>4, EngineGone, OnlyCrashKills DEF OrphanSound
  <2>2. /\ orphan'.primary # "none" => orphan'.primary = ledger'.primary
        /\ orphan'.primary # "none" /\ ledger'.terminal = "none" =>
               orphan'.auxiliaryPending = ledger'.auxiliaryPending
        BY <1>0, <1>4, LedgerKept DEF OrphanSound
  <2>3. engine' = "dead" /\ orphan'.at # "idle" => orphan'.primary = ledger'.primary
        BY <1>0, <1>2, <1>4, OnlyCrashKills, OutcomeAfterDeath DEF OrphanSound
  <2>. QED
        BY <2>1, <2>2, <2>3 DEF OrphanSound
<1>5. CASE OrphanOwned \/ append_interrupted
      BY <1>0, <1>4, <1>5 DEF OrphanOwned, append_interrupted, Orphans
<1>6. CASE orphan' = orphan
      BY <1>4, <1>6
<1>. QED
      BY <1>1, <1>2, <1>3, <1>5, <1>6, OnlyReconcileReads DEF IInv

\* What a driver knows where it is stays true across everyone else's steps: this is where a
\* checked value could be stale when it is used.
LEMMA PlaceSoundStep ==
    ASSUME IInv, [Next]_vars
    PROVE  PlaceSound'
<1> USE DEF IInv, TypeOK, DriverType, LedgerType, Ledgers, Turns, Free, TurnOwned, PlaceSound,
           Ended, Active, Locations, Interruptions, InGraph, InStop, InFail, InOutcome
<1>1. ASSUME EngineAsks PROVE PlaceSound'
      BY <1>1 DEF EngineAsks, Goto, work
<1>2. ASSUME TakeTurn PROVE PlaceSound'
      BY <1>2 DEF TakeTurn, Goto, work
<1>3. ASSUME initialize PROVE PlaceSound'
  <2>1. CASE Ended
        BY <1>3, <2>1 DEF initialize, Return
  <2>2. CASE ~Ended /\ ledger.primary # "none"
        BY <1>3, <2>2
        DEF initialize, Goto, IInv, TypeOK, DriverType, Turns, PlaceSound, Ended, InGraph, InStop,
            InOutcome
  <2>3. CASE ~Ended /\ ledger.primary = "none" /\ ~Stopped /\ Active(ledger) = {}
        BY <1>3, <2>3
        DEF initialize, Goto, IInv, TypeOK, DriverType, Turns, PlaceSound, Ended, InGraph, InStop,
            InOutcome
  <2>4. CASE ~Ended /\ ledger.primary = "none" /\ (Stopped \/ Active(ledger) # {})
    <3>0. ledger' = ledger /\ \E result \in Interruptions : BeginStop(result)
          BY <1>3, <2>4 DEF initialize, Interruptions
    <3>1. /\ turn'.who = turn.who /\ turn'.at = "stop" /\ turn'.result \in Interruptions
          /\ ledger' = ledger
          BY <3>0 DEF BeginStop, IInv, TypeOK, DriverType, Turns
    <3>. QED
          BY <2>4, <3>1
  <2>. QED
        BY <2>1, <2>2, <2>3, <2>4
<1>4. ASSUME RunStarted PROVE PlaceSound'
  <2>1. CASE ledger.phase \in {"admitted", "running"}
    <3>1. /\ turn'.who = turn.who /\ turn'.at = "loop" /\ turn.at = "start"
          /\ ledger'.primary = ledger.primary /\ ledger'.terminal = ledger.terminal
          BY <1>4, <2>1
          DEF RunStarted, At, IInv, TypeOK, DriverType, LedgerType, Ledgers, Turns
    <3>. QED
          BY <3>1
  <2>2. CASE ledger.phase \notin {"admitted", "running"}
        BY <1>4, <2>2 DEF RunStarted, Return
  <2>. QED
        BY <2>1, <2>2
<1>5. ASSUME drive_active_program PROVE PlaceSound'
      BY <1>5 DEF drive_active_program, BeginStop, At, Goto, StopAndClose, work
<1>6. ASSUME advance PROVE PlaceSound'
  <2>1. turn.at = "loop" /\ ledger' = ledger /\ ledger.primary = "none" /\ ~Ended
        BY <1>6, InProgram DEF advance, At
  <2>2. turn'.at \in {"voiding", "await"} \/ turn'.at = "latch" \/ turn'.at = "dispatch"
        BY <1>6 DEF advance, Goto
  <2>3. turn'.at = "latch" => Active(ledger) = {} /\ turn'.result \in GraphResults
        BY <1>6 DEF advance, Goto
  <2>4. turn'.at = "dispatch" => turn'.targets \subseteq Fresh
        BY <1>6 DEF advance, Goto
  <2>. QED
        BY <2>1, <2>2, <2>3, <2>4 DEF Fresh
<1>7. ASSUME dispatch PROVE PlaceSound'
      BY <1>7 DEF dispatch, At, Goto, work
<1>8. ASSUME NEW e \in Executions, settle(e) PROVE PlaceSound'
      BY <1>8 DEF settle, settled_outcome, At, Goto, StopAndClose, work, Fail, Return
<1>9. ASSUME latch_primary_graph PROVE PlaceSound'
  <2>1. /\ turn.at = "latch" /\ turn'.at = "postmortem" /\ turn'.result = turn.result
        /\ ledger'.primary = turn.result /\ ledger'.terminal = ledger.terminal
        BY <1>9
        DEF latch_primary_graph, At, Goto, IInv, TypeOK, DriverType, LedgerType, Ledgers, Turns
  <2>2. turn.result \in GraphResults /\ ~Ended
        BY <2>1, InProgram
  <2>. QED
        BY <2>1, <2>2 DEF GraphResults
<1>10. ASSUME run_postmortem PROVE PlaceSound'
      BY <1>10 DEF run_postmortem, At, Goto, work
<1>11. ASSUME PostmortemEnds PROVE PlaceSound'
      BY <1>11 DEF PostmortemEnds, At, Goto, work
<1>12. ASSUME retry_latch PROVE PlaceSound'
      BY <1>12 DEF retry_latch, At, Goto, work
<1>13. ASSUME close_run PROVE PlaceSound'
      BY <1>13 DEF close_run, At, Goto, work
<1>14. ASSUME cleanup_runtime PROVE PlaceSound'
      BY <1>14 DEF cleanup_runtime, At, Goto, work
<1>15. ASSUME append_terminal PROVE PlaceSound'
      BY <1>15 DEF append_terminal, At, Goto, StopAndClose, work, Fail, Return
<1>16. ASSUME NEW e \in Executions, drain_terminalizing_tasks(e) PROVE PlaceSound'
      BY <1>16 DEF drain_terminalizing_tasks, At, Goto, StopAndClose, work, Fail, Return
<1>17. ASSUME TasksDrained PROVE PlaceSound'
      BY <1>17 DEF TasksDrained, At, Goto, work, Return
<1>18. ASSUME append_stopped PROVE PlaceSound'
      BY <1>18 DEF append_stopped, At, Goto, work, Return
<1>19. ASSUME NEW e \in Executions, drain_failed_tasks(e) PROVE PlaceSound'
      BY <1>19 DEF drain_failed_tasks, At, Goto, driver, work
<1>20. ASSUME DriveFailed PROVE PlaceSound'
      BY <1>20 DEF DriveFailed, At, Goto, work, Return
<1>21. ASSUME fail_runtime PROVE PlaceSound'
      BY <1>21 DEF fail_runtime, At, Goto, work
<1>22. ASSUME append_runtime_failure PROVE PlaceSound'
      BY <1>22 DEF append_runtime_failure, At, Goto, work, Return
<1>23. ASSUME DriverFaults PROVE PlaceSound'
  <2>1. CASE At("dispatch") /\ ledger.forceStop
        BY <1>23, <2>1
        DEF DriverFaults, At, Goto, IInv, TypeOK, DriverType, Turns, PlaceSound, Ended, InGraph,
            InStop, InOutcome
  <2>2. CASE ~(At("dispatch") /\ ledger.forceStop)
    <3>1. turn.at # "none" /\ Fail /\ ledger' = ledger
          BY <1>23, <2>2 DEF DriverFaults
    <3>2. Failed
          BY <3>1, FailEffect
    <3>3. turn.program /\ turn'.at = "unwind" /\ turn'.who = turn.who => ~Ended
          OBVIOUS
    <3>. QED
          BY <3>1, <3>2, <3>3
          DEF Failed, Moved, Returned, Free, PlaceSound, Ended, InGraph, InStop, InOutcome
  <2>. QED
        BY <2>1, <2>2
<1>24. ASSUME PostmortemUnconfirmed PROVE PlaceSound'
      BY <1>24 DEF PostmortemUnconfirmed, At, Goto, StopAndClose, work, Fail, Return
<1>25. CASE \E e \in Executions : runner_start(e) \/ TaskEnds(e)
      BY <1>25 DEF runner_start, TaskEnds, PendingEnds, LiveEnds, Finish, Goto, driver, work
<1>26. CASE force_stop \/ ForceCloses \/ ForceFails \/ RuntimeLoss
      BY <1>26 DEF force_stop, ForceCloses, ForceFails, RuntimeLoss, runtime_lost, LossCloses,
             Goto, StopAndClose, driver, work
<1>27. ASSUME ForceRecords PROVE PlaceSound'
      BY <1>27 DEF ForceRecords, Goto, work
<1>28. ASSUME Crash PROVE PlaceSound'
      BY <1>28 DEF Crash, At, Goto, work
<1>29. CASE fail_orphaned_runtime \/ OrphanOwned \/ finish_lost_runtime
      BY <1>29 DEF fail_orphaned_runtime, OrphanOwned, finish_lost_runtime, Goto, driver, work
<1>30. ASSUME append_interrupted PROVE PlaceSound'
  <2>1. turn' = turn /\ turn.who \notin {"engine", "fail"}
        BY <1>30 DEF append_interrupted, driver, OrphanSound
  <2>2. turn.at \notin InGraph \cup {"start"}
        BY <2>1, InProgram
  <2>3. ledger'.primary = ledger.primary
        BY <1>30 DEF append_interrupted, SettleActive, Close
  <2>. QED
        BY <2>1, <2>2, <2>3
<1>31. CASE UNCHANGED vars
      BY <1>31 DEF vars
<1>. QED
      BY <1>1, <1>2, <1>3, <1>4, <1>5, <1>6, <1>7, <1>8, <1>9, <1>10, <1>11, <1>12, <1>13, <1>14,
         <1>15, <1>16, <1>17, <1>18, <1>19, <1>20, <1>21, <1>22, <1>23, <1>24, <1>25, <1>26, <1>27,
         <1>28, <1>29, <1>30, <1>31 DEF Next, Drive, TaskEnds, ForceStop, RuntimeLoss, Reconcile

\* Tasks and processes belong to active executions, and nothing is alive at the three places
\* that append an end.
LEMMA WorkOwnedStep ==
    ASSUME IInv, [Next]_vars
    PROVE  WorkOwned'
<1> USE DEF IInv, TypeOK, DriverType, LedgerType, WorkType, Ledgers, Turns, Free, TurnOwned,
           WorkOwned, WithTasks
<1>1. ASSUME EngineAsks PROVE WorkOwned'
      BY <1>1 DEF EngineAsks, Goto, work
<1>2. ASSUME TakeTurn PROVE WorkOwned'
      BY <1>2 DEF TakeTurn, Goto, work
<1>3. ASSUME initialize PROVE WorkOwned'
  <2>1. \A e \in Executions : tasks[e] = "none"
        BY <1>3 DEF initialize, At
  <2>2. turn'.at \in {"none", "usage", "stop", "start"}
        BY <1>3, InitializeEffect DEF Returned, Moved
  <2>. QED
        BY <1>3, <2>1, <2>2, DriverAlive DEF initialize, work, DriverStep, Drive
<1>4. ASSUME RunStarted PROVE WorkOwned'
  <2>1. \A e \in Executions : tasks[e] = "none"
        BY <1>4 DEF RunStarted, At
  <2>2. turn'.at \in {"none", "loop"}
        BY <1>4, RunStartedEffect DEF Returned, Moved
  <2>3. ledger'.primary = ledger.primary /\ ledger'.executions = ledger.executions
        BY <1>4, RunStartedEffect
  <2>. QED
        BY <1>4, <2>1, <2>2, <2>3, DriverAlive DEF RunStarted, work, DriverStep, Drive
<1>5. ASSUME drive_active_program PROVE WorkOwned'
      BY <1>5 DEF drive_active_program, BeginStop, At, Goto, StopAndClose, work
<1>6. ASSUME advance PROVE WorkOwned'
  <2>1. /\ turn'.at \in {"voiding", "latch", "dispatch", "await"} /\ turn'.program = turn.program
        /\ turn'.at = "latch" => NoTask
        BY <1>6 DEF advance, Goto
  <2>. QED
        BY <1>6, <2>1 DEF advance, NoTask
<1>7. ASSUME dispatch PROVE WorkOwned'
  <2>1. /\ turn.at = "dispatch" /\ turn'.at = "loop" /\ turn.program /\ turn'.program
        /\ processes' = processes
        BY <1>7 DEF dispatch, At, Goto, InGraph
  <2>2. CASE flags.force \/ ledger.phase # "running"
        BY <1>7, <2>1, <2>2 DEF dispatch
  <2>3. CASE ~(flags.force \/ ledger.phase # "running")
    <3>1. /\ ledger'.primary = ledger.primary
          /\ \A e \in Executions : ledger'.executions[e] =
                IF e \in turn.targets THEN "active" ELSE ledger.executions[e]
          /\ \A e \in Executions : tasks'[e] = IF e \in turn.targets THEN "pending" ELSE tasks[e]
          BY <1>7, <2>3 DEF dispatch
    <3>2. \A e \in turn.targets : e \notin processes
          BY <2>1 DEF PlaceSound
    <3>. QED
          BY <2>1, <3>1, <3>2
  <2>. QED
        BY <2>2, <2>3
<1>8. ASSUME NEW e \in Executions, settle(e) PROVE WorkOwned'
      BY <1>8, SupervisorAssumption DEF settle, settled_outcome, At, Goto, StopAndClose, work,
             Fail, Return, Finished
<1>9. ASSUME latch_primary_graph PROVE WorkOwned'
      BY <1>9 DEF latch_primary_graph, At, Goto, work, PlaceSound, InGraph
<1>10. ASSUME run_postmortem PROVE WorkOwned'
      BY <1>10, SupervisorAssumption DEF run_postmortem, At, Goto, work, PlaceSound, InOutcome
<1>11. ASSUME PostmortemEnds PROVE WorkOwned'
      BY <1>11 DEF PostmortemEnds, At, Goto, work
<1>12. ASSUME retry_latch PROVE WorkOwned'
      BY <1>12 DEF retry_latch, At, Goto, work
<1>13. ASSUME close_run PROVE WorkOwned'
      BY <1>13 DEF close_run, At, Goto, work
<1>14. ASSUME cleanup_runtime PROVE WorkOwned'
      BY <1>14 DEF cleanup_runtime, At, Goto, work
<1>15. ASSUME append_terminal PROVE WorkOwned'
      BY <1>15 DEF append_terminal, At, Goto, StopAndClose, work, Fail, Return, Close
<1>16. ASSUME NEW e \in Executions, drain_terminalizing_tasks(e) PROVE WorkOwned'
      BY <1>16 DEF drain_terminalizing_tasks, At, Goto, StopAndClose, work, Fail, Return
<1>17. ASSUME TasksDrained PROVE WorkOwned'
  <2>1. engine # "dead"
        BY <1>17, TurnAlive DEF TasksDrained, At
  <2>2. \A e \in Executions : tasks[e] = "none" /\ tasks'[e] = "none"
        BY <1>17 DEF TasksDrained, NoTask, work
  <2>3. turn'.at \in {"none", "stop_cleanup"} /\ UNCHANGED <<ledger, processes>>
        BY <1>17 DEF TasksDrained, Goto, Return, work
  <2>. QED
        BY <2>1, <2>2, <2>3
<1>18. ASSUME append_stopped PROVE WorkOwned'
      BY <1>18 DEF append_stopped, At, Goto, work, Return, Close, SettleActive
<1>19. ASSUME NEW e \in Executions, drain_failed_tasks(e) PROVE WorkOwned'
      BY <1>19 DEF drain_failed_tasks, At, Goto, driver, work
<1>20. ASSUME DriveFailed PROVE WorkOwned'
      BY <1>20 DEF DriveFailed, At, Goto, work, Return, NoTask
<1>21. ASSUME fail_runtime PROVE WorkOwned'
      BY <1>21 DEF fail_runtime, At, Goto, work
<1>22. ASSUME append_runtime_failure PROVE WorkOwned'
      BY <1>22 DEF append_runtime_failure, At, Goto, work, Return, Close, SettleActive
<1>23. ASSUME DriverFaults PROVE WorkOwned'
  <2>1. engine # "dead"
        BY <1>23, DriverAlive DEF DriverStep
  <2>. QED
        BY <1>23, <2>1 DEF DriverFaults, At, Goto, StopAndClose, work, Fail, Return
<1>24. ASSUME PostmortemUnconfirmed PROVE WorkOwned'
      BY <1>24 DEF PostmortemUnconfirmed, At, Goto, StopAndClose, work, Fail, Return
<1>25. ASSUME NEW e \in Executions, runner_start(e) PROVE WorkOwned'
      BY <1>25, SupervisorAssumption DEF runner_start, Goto, driver, work
<1>26. ASSUME NEW e \in Executions, NEW r \in Finished, PendingEnds(e, r) PROVE WorkOwned'
      BY <1>26, SupervisorAssumption DEF PendingEnds, Finish, Goto, driver, work, Finished
<1>27. ASSUME NEW e \in Executions, NEW r \in Finished, LiveEnds(e, r) PROVE WorkOwned'
      BY <1>27, SupervisorAssumption DEF LiveEnds, Finish, Goto, driver, work, Finished
<1>28. CASE force_stop \/ ForceCloses \/ ForceFails \/ RuntimeLoss
      BY <1>28 DEF force_stop, ForceCloses, ForceFails, RuntimeLoss, runtime_lost, LossCloses,
             Goto, StopAndClose, driver, work
<1>29. ASSUME ForceRecords PROVE WorkOwned'
      BY <1>29 DEF ForceRecords, Goto, work
<1>30. ASSUME Crash PROVE WorkOwned'
      BY <1>30 DEF Crash, At, Goto, work
<1>31. CASE fail_orphaned_runtime \/ OrphanOwned \/ finish_lost_runtime
      BY <1>31 DEF fail_orphaned_runtime, OrphanOwned, finish_lost_runtime, Goto, driver, work
<1>32. ASSUME append_interrupted PROVE WorkOwned'
      BY <1>32 DEF append_interrupted, Goto, driver, work, Close, SettleActive, OrphanSound
<1>33. CASE UNCHANGED vars
      BY <1>33 DEF vars
<1>. QED
      BY <1>1, <1>2, <1>3, <1>4, <1>5, <1>6, <1>7, <1>8, <1>9, <1>10, <1>11, <1>12, <1>13, <1>14,
         <1>15, <1>16, <1>17, <1>18, <1>19, <1>20, <1>21, <1>22, <1>23, <1>24, <1>25, <1>26, <1>27,
         <1>28, <1>29, <1>30, <1>31, <1>32, <1>33 DEF Next, Drive, TaskEnds, ForceStop,
             RuntimeLoss, Reconcile

-----------------------------------------------------------------------------
(* Intent, interrupted work and interrupted postmortems *)

\* Whoever cancels or closes the work has set its flag first.
LEMMA IntentFirstStep ==
    ASSUME IInv, [Next]_vars
    PROVE  IntentFirst'
<1> USE DEF IntentFirst
<1>0. /\ turn \in Turns /\ flags \in Flags /\ TypeOK /\ TurnOwned /\ IntentFirst
      BY DEF IInv, TypeOK, DriverType
<1>1. ASSUME EngineAsks PROVE IntentFirst'
      BY <1>0, <1>1 DEF EngineAsks, Stopping, TurnOwned
<1>2. ASSUME TakeTurn PROVE IntentFirst'
  <2>1. turn.who = "none" /\ engine' = engine /\ flags' = flags /\ force' = force /\ loss' = loss
        BY <1>2 DEF TakeTurn, Free
  <2>. QED
        BY <1>0, <2>1 DEF Stopping
<1>3. ASSUME DriverStep PROVE IntentFirst'
  <2>1. /\ loss' = loss /\ flags'.force = flags.force /\ flags'.lost = flags.lost
        /\ turn.who \in Drivers
        BY <1>0, <1>3, DriverEffect, Held DEF TypeOK
  <2>2. force' \in {"flagged", "closing"} => force' = force
        BY <1>0, <1>3, <2>1, DriverEffect DEF Returned, Moved, Drivers
  <2>3. ASSUME engine' \in {"spawned", "driving"}, Stopping',
               turn'.who # "engine" \/ turn'.at \in Before
        PROVE  flags.force \/ flags.lost
    <3>1. CASE turn.who = "force"
          BY <1>0, <3>1 DEF TurnOwned
    <3>2. CASE turn.who = "fail"
          BY <1>0, <1>3, <2>3, <3>2, DriverEffect DEF TurnOwned, Returned, Moved
    <3>3. CASE turn.who = "engine"
      <4>1. engine' = engine /\ turn'.who = "engine"
            BY <1>0, <1>3, <2>3, <3>3, DriverEffect DEF Returned, Moved
      <4>2. turn.at \in Before /\ flags' = flags
            BY <1>0, <1>3, <2>3, <4>1, DriverEffect
      <4>. QED
            BY <1>0, <2>3, <4>1, <4>2 DEF Stopping, Before
    <3>. QED
          BY <2>1, <3>1, <3>2, <3>3 DEF Drivers
  <2>. QED
        BY <1>0, <2>1, <2>2, <2>3 DEF Before
<1>4. CASE \E e \in Executions : runner_start(e) \/ TaskEnds(e)
      BY <1>0, <1>4 DEF runner_start, TaskEnds, PendingEnds, LiveEnds, Finish, driver, Stopping
<1>5. CASE ForceStop
      BY <1>0, <1>5 DEF ForceStop, force_stop, ForceCloses, ForceRecords, ForceFails, StopAndClose,
                        driver, Flags, Stopping
<1>6. CASE RuntimeLoss
      BY <1>0, <1>6 DEF RuntimeLoss, runtime_lost, LossCloses, StopAndClose, driver, Flags, Stopping
<1>7. CASE Crash
      BY <1>7 DEF Crash
<1>8. CASE Reconcile
      BY <1>0, <1>8 DEF Reconcile, fail_orphaned_runtime, OrphanOwned, finish_lost_runtime,
                  append_interrupted, driver, Stopping
<1>9. CASE UNCHANGED vars
      BY <1>0, <1>9 DEF vars, Stopping
<1>. QED
      BY <1>1, <1>2, <1>3, <1>4, <1>5, <1>6, <1>7, <1>8, <1>9 DEF Next, DriverStep

\* What settling records of a task that ended while the run was being stopped.
LEMMA SettledCut ==
    ASSUME IInv, NEW e \in Executions, settle(e), e \in cut, ledger'.executions[e] = "crash"
    PROVE  flags.lost
<1>1. ledger \in Ledgers /\ flags \in Flags /\ turn.at \in InGraph
      BY DEF IInv, TypeOK, DriverType, LedgerType, settle, At, InGraph
<1>2. turn.who = "engine" /\ engine = "driving"
      BY <1>1, InProgram DEF IInv
<1>3. flags.force \/ flags.lost
      BY <1>1, <1>2 DEF IInv, CutSound, IntentFirst
<1>4. ledger.executions[e] = "active"
      BY DEF IInv, WorkOwned, settle, Finished
<1>5. ledger' # ledger
      BY <1>4
<1>6. ledger'.executions[e] = IF e \in voids THEN "voided" ELSE settled_outcome(tasks[e])
      BY <1>1, <1>5 DEF settle, Ledgers
<1>7. Stopped => settled_outcome(tasks[e]) = "refusal"
      BY DEF settled_outcome
<1>. QED
      BY <1>3, <1>6, <1>7 DEF Stopped

\* An execution cut off by a stop is seen as a crash only by a drive that also sees the loss.
LEMMA CutSoundStep ==
    ASSUME IInv, [Next]_vars
    PROVE  CutSound'
<1> USE DEF CutSound
<1> DEFINE Crashed == \E e \in cut : ledger.executions[e] = "crash"
           Third == turn.at \in InGraph /\ Crashed => turn.at \in {"loop", "voiding"} /\ flags.lost
<1>0. /\ turn \in Turns /\ flags \in Flags /\ ledger \in Ledgers /\ cut \subseteq Executions
      /\ TypeOK /\ TurnOwned /\ CutSound /\ Third
      BY DEF IInv, TypeOK, DriverType, LedgerType, WorkType
<1>1. ASSUME EngineAsks PROVE CutSound'
      BY <1>0, <1>1 DEF EngineAsks, Stopping, TurnOwned, work
<1>2. ASSUME TakeTurn PROVE CutSound'
  <2>1. /\ turn.program = FALSE /\ turn'.at \notin InGraph
        /\ UNCHANGED <<engine, flags, cut, ledger>>
        BY <1>2 DEF TakeTurn, Free, work, InGraph
  <2>. QED
        BY <1>0, <2>1 DEF Stopping
<1>3. ASSUME DriverStep PROVE CutSound'
  <2>1. cut' = cut /\ (Stopping => Stopping') /\ flags'.lost = flags.lost /\ turn.who \in Drivers
        BY <1>0, <1>3, DriverEffect, Held DEF Stopping, TypeOK
  <2>2. engine' \in {"spawned", "driving"} => engine' = engine /\ (turn.program => turn'.program)
        BY <1>0, <1>3, <2>1, DriverEffect DEF Returned, Moved, TurnOwned, Drivers
  <2>3. ASSUME turn'.at \in InGraph PROVE Third'
    <3>1. turn.at \in Before /\ flags' = flags
          BY <1>0, <1>3, <2>3, DriverEffect DEF Before
    <3>2. ASSUME RunStarted PROVE cut = {}
      <4>1. turn.at = "start"
            BY <3>2 DEF RunStarted, At
      <4>2. engine = "driving" /\ ~turn.program
            BY <1>0, <4>1, InProgram DEF IInv, TurnOwned
      <4>. QED
            BY <1>0, <4>2
    <3>3. ASSUME advance PROVE Third'
          BY <1>0, <3>3 DEF advance, At, InGraph
    <3>4. ASSUME dispatch PROVE Third'
      <4>1. ~Crashed
            BY <1>0, <3>4 DEF dispatch, At, InGraph
      <4>2. \A e \in Executions : \/ ledger'.executions[e] = ledger.executions[e]
                                 \/ ledger'.executions[e] = "active"
            BY <1>0, <3>4 DEF dispatch, Ledgers
      <4>. QED
            BY <1>0, <2>1, <4>1, <4>2
    <3>5. ASSUME NEW e \in Executions, settle(e) PROVE Third'
      <4>1. \A f \in Executions \ {e} : ledger'.executions[f] = ledger.executions[f]
            BY <1>0, <3>5 DEF settle, Ledgers
      <4>2. turn.at \in {"await", "voiding"} /\ turn'.at \in {"loop", "voiding"}
        <5>1. turn.at \in {"await", "voiding"} /\ turn.at # "none"
              BY <3>5 DEF settle, At
        <5>2. ~Fail
              BY <1>0, <2>3, <5>1, FailEffect DEF Before, TypeOK
        <5>. QED
              BY <1>0, <3>5, <5>1, <5>2 DEF settle, At, Goto, Turns
      <4>3. Crashed' => flags.lost
            BY <1>0, <2>1, <3>5, <4>1, <4>2, SettledCut DEF InGraph
      <4>. QED
            BY <2>1, <4>2, <4>3
    <3>6. ASSUME DriverFaults PROVE Third'
      <4>1. turn.at = "dispatch" /\ ledger' = ledger
        <5>1. turn.at # "none" /\ ledger' = ledger
              BY <3>6 DEF DriverFaults
        <5>2. ~Fail
              BY <1>0, <2>3, <5>1, FailEffect DEF Before, TypeOK
        <5>. QED
              BY <3>6, <5>1, <5>2 DEF DriverFaults, At
      <4>. QED
            BY <1>0, <2>1, <4>1 DEF InGraph
    <3>7. \/ RunStarted \/ advance \/ dispatch \/ (\E e \in Executions : settle(e)) \/ DriverFaults
      <4>1. ~initialize
            BY <1>0, <2>3, InitializeEffect DEF Moved, Returned, Free, InGraph
      <4>2. ~append_terminal /\ ~TasksDrained /\ ~append_stopped /\ ~DriveFailed
            /\ ~append_runtime_failure /\ ~PostmortemUnconfirmed
            BY <1>0, <3>1
            DEF append_terminal, TasksDrained, append_stopped, DriveFailed, append_runtime_failure,
                PostmortemUnconfirmed, At, Before, InGraph
      <4>3. \A e \in Executions : ~drain_terminalizing_tasks(e) /\ ~drain_failed_tasks(e)
            BY <1>0, <3>1 DEF drain_terminalizing_tasks, drain_failed_tasks, At, Before, InGraph
      <4>4. ~latch_primary_graph
            BY <1>0, <2>3 DEF latch_primary_graph, Goto, Turns, InGraph
      <4>5. ASSUME drive_active_program PROVE FALSE
        <5>1. turn'.at = "stop"
              BY <1>0, <4>5 DEF drive_active_program, BeginStop, Turns
        <5>. QED
              BY <2>3, <5>1 DEF InGraph
      <4>6. ~run_postmortem /\ ~PostmortemEnds /\ ~retry_latch /\ ~close_run /\ ~cleanup_runtime
            /\ ~fail_runtime
            BY <1>0, <3>1
            DEF run_postmortem, PostmortemEnds, retry_latch, close_run, cleanup_runtime, fail_runtime,
                At, Before, InGraph
      <4>. QED
            BY <1>3, <4>1, <4>2, <4>3, <4>4, <4>5, <4>6 DEF DriverStep, Drive
    <3>. QED
          BY <2>1, <3>2, <3>3, <3>4, <3>5, <3>6, <3>7
  <2>. QED
        BY <1>0, <2>1, <2>2, <2>3
<1>4. ASSUME NEW e \in Executions, runner_start(e) PROVE CutSound'
      BY <1>0, <1>4 DEF runner_start, driver, Stopping
<1>5. ASSUME NEW e \in Executions, NEW r \in Finished, PendingEnds(e, r) \/ LiveEnds(e, r)
      PROVE  CutSound'
  <2>1. /\ tasks[e] # "none" /\ UNCHANGED <<turn, engine, flags, ledger>>
        /\ cut' = IF Stopping THEN cut \cup {e} ELSE cut
        BY <1>5 DEF PendingEnds, LiveEnds, Finish, driver
  <2>2. turn.program /\ ledger.executions[e] = "active"
        BY <2>1 DEF IInv, WorkOwned
  <2>. QED
        BY <1>0, <2>1, <2>2 DEF Stopping
<1>6. CASE ForceStop
  <2>1. /\ UNCHANGED <<turn, engine, cut>> /\ ledger'.executions = ledger.executions
        /\ flags'.lost = flags.lost /\ (Stopping => Stopping')
        BY <1>0, <1>6 DEF ForceStop, force_stop, ForceCloses, ForceRecords, ForceFails, StopAndClose,
                          driver, work, Flags, Ledgers, Stopping
  <2>. QED
        BY <1>0, <2>1
<1>7. CASE RuntimeLoss
  <2>1. /\ UNCHANGED <<turn, engine, cut, ledger>>
        /\ (flags.lost => flags'.lost) /\ (Stopping => Stopping')
        BY <1>0, <1>7 DEF RuntimeLoss, runtime_lost, LossCloses, StopAndClose, driver, work, Flags,
                          Stopping
  <2>. QED
        BY <1>0, <2>1
<1>8. CASE Crash
      BY <1>8 DEF Crash, Free, InGraph
<1>9. CASE fail_orphaned_runtime \/ OrphanOwned \/ finish_lost_runtime
      BY <1>0, <1>9 DEF fail_orphaned_runtime, OrphanOwned, finish_lost_runtime, driver, work,
                        Stopping
<1>10. ASSUME append_interrupted PROVE CutSound'
  <2>1. engine \in {"ended", "dead"} /\ UNCHANGED <<turn, engine, flags, cut>>
        BY <1>10 DEF append_interrupted, driver, work, IInv, OrphanSound
  <2>2. turn.at \notin InGraph
        BY <2>1, InProgram DEF IInv
  <2>. QED
        BY <1>0, <2>1, <2>2 DEF Stopping
<1>11. CASE UNCHANGED vars
      BY <1>0, <1>11 DEF vars, Stopping
<1>. QED
      BY <1>1, <1>2, <1>3, <1>4, <1>5, <1>6, <1>7, <1>8, <1>9, <1>10, <1>11
      DEF Next, DriverStep, TaskEnds, Reconcile

\* How a driver gets to the end of its run.
Late == {"close", "cleanup", "terminal"}

\* How a driver comes to the postmortem or to one of the places after it.
LEMMA Arrivals ==
    ASSUME TypeOK, TurnOwned, DriverStep, turn'.at \in Late \cup {"postmortem", "in_postmortem"}
    PROVE  \/ turn.at \in Late /\ turn'.at \in Late
           \/ latch_primary_graph \/ run_postmortem \/ PostmortemEnds \/ retry_latch
<1> USE DEF Late
<1>0. turn \in Turns
      BY DEF TypeOK, DriverType
<1>1. ASSUME turn.at # "none", NEW ok, Return(ok) PROVE FALSE
      BY <1>1, ReturnEffect DEF Returned, Free, TypeOK
<1>2. ASSUME turn.at # "none", Fail PROVE FALSE
      BY <1>2, FailEffect DEF Returned, Moved, Free, TypeOK
<1>3. ~initialize /\ ~RunStarted
      BY InitializeEffect, RunStartedEffect DEF Moved, Returned, Free
<1>4. ~drive_active_program /\ ~advance /\ ~dispatch
      BY <1>0 DEF drive_active_program, BeginStop, advance, dispatch, Goto, Turns
<1>5. ASSUME NEW e \in Executions, settle(e) PROVE FALSE
      BY <1>0, <1>2, <1>5 DEF settle, At, Goto, Turns
<1>6. close_run \/ cleanup_runtime \/ fail_runtime => turn.at \in Late /\ turn'.at \in Late
      BY <1>0 DEF close_run, cleanup_runtime, fail_runtime, At, Goto, Turns
<1>7. ~append_terminal /\ ~append_stopped /\ ~DriveFailed /\ ~append_runtime_failure
      BY <1>1, <1>2 DEF append_terminal, append_stopped, DriveFailed, append_runtime_failure, At
<1>8. ASSUME NEW e \in Executions, drain_terminalizing_tasks(e) \/ drain_failed_tasks(e)
      PROVE  FALSE
      BY <1>0, <1>2, <1>8 DEF drain_terminalizing_tasks, drain_failed_tasks, driver, At
<1>9. ~TasksDrained
      BY <1>0, <1>1 DEF TasksDrained, At, Goto, Turns
<1>10. ~DriverFaults /\ ~PostmortemUnconfirmed
      BY <1>0, <1>2 DEF DriverFaults, PostmortemUnconfirmed, At, Goto, Turns
<1>. QED
      BY <1>3, <1>4, <1>5, <1>6, <1>7, <1>8, <1>9, <1>10 DEF DriverStep, Drive

\* The mark of a pending postmortem, and the usage it leaves incomplete, survive every step.
LEMMA AbortedSoundStep ==
    ASSUME IInv, [Next]_vars
    PROVE  AbortedSound'
<1> DEFINE Pending == /\ turn.at = "postmortem" /\ PostmortemEnabled /\ ~flags.stop =>
                            ledger.auxiliaryPending
                      /\ turn.at = "in_postmortem" => ledger.auxiliaryPending
           Marked == /\ ledger.primary # "none"
                     /\ engine \in {"spawned", "driving"} => turn.at = "unwind"
                     /\ ~Ended => ledger.auxiliaryPending
                     /\ turn.at \in Late /\ ~Ended => ~ledger.usageComplete
                     /\ ledger.terminal \in GraphResults => ~ledger.usageComplete
<1>0. /\ turn \in Turns /\ flags \in Flags /\ ledger \in Ledgers /\ orphan \in Orphans
      /\ TypeOK /\ TurnOwned /\ Pending /\ (aborted => Marked)
      BY DEF IInv, TypeOK, DriverType, LedgerType, AbortedSound, Late
<1>1. Pending'
  <2>1. ASSUME turn'.at = turn.at, ledger' = ledger, flags.stop => flags'.stop PROVE Pending'
        BY <1>0, <2>1
  <2>2. ASSUME turn'.at \notin {"postmortem", "in_postmortem"} PROVE Pending'
        BY <2>2
  <2>3. CASE EngineAsks \/ TakeTurn
        BY <1>0, <2>1, <2>2, <2>3 DEF EngineAsks, TakeTurn, Free
  <2>4. ASSUME latch_primary_graph PROVE Pending'
        BY <1>0, <2>4 DEF latch_primary_graph, Goto, Turns, Ledgers
  <2>5. ASSUME run_postmortem PROVE Pending'
        BY <1>0, <2>5 DEF run_postmortem, At, Goto, Turns
  <2>6. ASSUME DriverStep, ~latch_primary_graph, ~run_postmortem,
               turn'.at \in {"postmortem", "in_postmortem"}
        PROVE  FALSE
    <3>1. ~PostmortemEnds /\ ~retry_latch
          BY <1>0, <2>6 DEF PostmortemEnds, retry_latch, Goto, Turns
    <3>. QED
          BY <1>0, <2>6, <3>1, Arrivals DEF Late
  <2>7. CASE \E e \in Executions : runner_start(e) \/ TaskEnds(e)
        BY <1>0, <2>1, <2>7 DEF runner_start, TaskEnds, PendingEnds, LiveEnds, Finish, driver
  <2>8. CASE ForceStop
    <3>1. /\ turn' = turn /\ (flags.stop => flags'.stop)
          /\ ledger'.auxiliaryPending = ledger.auxiliaryPending
          BY <1>0, <2>8 DEF ForceStop, force_stop, ForceCloses, ForceRecords, ForceFails, StopAndClose,
                            driver, Flags, Ledgers
    <3>. QED
          BY <1>0, <3>1
  <2>9. CASE RuntimeLoss
    <3>1. turn' = turn /\ (flags.stop => flags'.stop) /\ ledger' = ledger
          BY <1>0, <2>9 DEF RuntimeLoss, runtime_lost, LossCloses, StopAndClose, driver, Flags
    <3>. QED
          BY <2>1, <3>1
  <2>10. CASE Crash
        BY <2>2, <2>10 DEF Crash, Free
  <2>11. CASE fail_orphaned_runtime \/ OrphanOwned \/ finish_lost_runtime
        BY <1>0, <2>1, <2>11 DEF fail_orphaned_runtime, OrphanOwned, finish_lost_runtime, driver
  <2>12. ASSUME append_interrupted PROVE Pending'
    <3>1. engine \in {"ended", "dead"} /\ turn' = turn
          BY <2>12 DEF append_interrupted, driver, IInv, OrphanSound
    <3>2. turn.at \notin {"postmortem", "in_postmortem"}
          BY <1>0, <3>1 DEF TurnOwned
    <3>. QED
          BY <2>2, <3>1, <3>2
  <2>13. CASE UNCHANGED vars
        BY <2>1, <2>13 DEF vars
  <2>. QED
        BY <2>2, <2>3, <2>4, <2>5, <2>6, <2>7, <2>8, <2>9, <2>10, <2>11, <2>12, <2>13
        DEF Next, DriverStep, Reconcile
<1>2. ASSUME aborted', ~aborted PROVE Marked'
  <2>1. CASE Crash
    <3>1. turn.at = "in_postmortem" /\ ledger' = ledger /\ engine' = "dead" /\ turn' = Free
          BY <1>2, <2>1 DEF Crash, At
    <3>2. ledger.primary # "none" /\ turn.who = "engine" /\ ~Ended
          BY <1>0, <3>1 DEF IInv, PlaceSound, InOutcome, TurnOwned
    <3>. QED
          BY <1>0, <3>1, <3>2 DEF Free, Ended, GraphResults, Late
  <2>2. CASE PostmortemUnconfirmed
    <3>1. turn.at = "in_postmortem" /\ ledger' = ledger /\ Failed
          BY <1>0, <2>2, FailEffect DEF PostmortemUnconfirmed, At, TypeOK
    <3>2. ledger.primary # "none" /\ turn.who = "engine" /\ ~Ended /\ turn.program
          BY <1>0, <3>1 DEF IInv, PlaceSound, InOutcome, TurnOwned
    <3>. QED
          BY <1>0, <3>1, <3>2 DEF Failed, Moved, Ended, GraphResults, Late
  <2>3. Crash \/ PostmortemUnconfirmed
    <3>1. aborted' # aborted
          BY <1>2
    <3>2. ~Drive
          BY <3>1
          DEF Drive, initialize, RunStarted, drive_active_program, advance, dispatch, settle,
              latch_primary_graph, run_postmortem, PostmortemEnds, retry_latch, close_run,
              cleanup_runtime, append_terminal, drain_terminalizing_tasks, TasksDrained,
              append_stopped, drain_failed_tasks, DriveFailed, fail_runtime, append_runtime_failure
    <3>3. ~EngineAsks /\ ~TakeTurn /\ ~DriverFaults /\ ~UNCHANGED vars
          BY <3>1 DEF EngineAsks, TakeTurn, DriverFaults, vars
    <3>4. ASSUME NEW e \in Executions, runner_start(e) \/ TaskEnds(e) PROVE FALSE
          BY <3>1, <3>4 DEF runner_start, TaskEnds, PendingEnds, LiveEnds, Finish
    <3>5. ~ForceStop /\ ~RuntimeLoss /\ ~Reconcile
          BY <3>1
          DEF ForceStop, force_stop, ForceCloses, ForceRecords, ForceFails, RuntimeLoss, runtime_lost,
              LossCloses, Reconcile, fail_orphaned_runtime, OrphanOwned, finish_lost_runtime,
              append_interrupted
    <3>. QED
          BY <3>2, <3>3, <3>4, <3>5 DEF Next
  <2>. QED
        BY <2>1, <2>2, <2>3
<1>3. ASSUME aborted PROVE Marked'
  <2>0. Marked /\ LedgerSound /\ PlaceSound /\ OrphanSound
        BY <1>0, <1>3 DEF IInv
  <2>1. ledger'.primary # "none"
        BY <2>0, LedgerKept
  <2>2. ~Ended' => ~Ended /\ ledger'.auxiliaryPending
        BY <2>0, LedgerKept DEF Ended
  <2>3. ASSUME ledger'.terminal \in GraphResults PROVE ~ledger'.usageComplete
    <3>1. CASE Ended
          BY <2>0, <2>3, <3>1, LedgerKept
    <3>2. CASE ~Ended
      <4>1. ledger' # ledger
            BY <2>3, <3>2 DEF Ended, GraphResults
      <4>2. ASSUME append_terminal PROVE ~ledger'.usageComplete
            BY <1>0, <2>0, <3>2, <4>2 DEF append_terminal, At, Close, Ledgers, Late
      <4>3. ASSUME append_interrupted PROVE ~ledger'.usageComplete
            BY <1>0, <2>0, <2>3, <3>2, <4>1, <4>3
            DEF append_interrupted, SettleActive, Close, Ledgers, OrphanSound, GraphResults
      <4>4. ASSUME append_stopped PROVE FALSE
        <5>1. turn.result \in Interruptions
              BY <2>0, <4>4 DEF append_stopped, At, PlaceSound, InStop
        <5>2. ledger'.terminal = turn.result
              BY <1>0, <3>2, <4>4 DEF append_stopped, SettleActive, Close, Ledgers
        <5>. QED
              BY <2>3, <5>1, <5>2 DEF Interruptions, GraphResults
      <4>5. ASSUME append_runtime_failure PROVE FALSE
            BY <1>0, <2>3, <3>2, <4>5
            DEF append_runtime_failure, SettleActive, Close, Ledgers, GraphResults
      <4>6. ASSUME RunStarted \/ dispatch \/ latch_primary_graph \/ retry_latch \/ ForceRecords
            PROVE  FALSE
        <5>1. ledger'.terminal = ledger.terminal
              BY <1>0, <4>6 DEF RunStarted, dispatch, latch_primary_graph, retry_latch, ForceRecords,
                                Ledgers
        <5>. QED
              BY <2>3, <3>2, <5>1 DEF Ended, GraphResults
      <4>7. ASSUME NEW e \in Executions, settle(e) PROVE FALSE
        <5>1. ledger'.terminal = ledger.terminal
              BY <1>0, <4>7 DEF settle, Ledgers
        <5>. QED
              BY <2>3, <3>2, <5>1 DEF Ended, GraphResults
      <4>. QED
            BY <4>1, <4>2, <4>3, <4>4, <4>5, <4>6, <4>7, OnlyAppendsWrite DEF Appends
    <3>. QED
          BY <3>1, <3>2
  <2>4. ASSUME engine' \in {"spawned", "driving"} PROVE turn'.at = "unwind"
    <3>1. CASE DriverStep
      <4>1. engine' = engine /\ turn.at = "unwind" /\ turn.who = "engine"
        <5>1. turn.who \in Drivers
              BY <1>0, <3>1, DriverEffect, Held DEF TypeOK
        <5>2. engine' = engine
              BY <1>0, <2>4, <3>1, <5>1, DriverEffect DEF Returned, Moved, Drivers
        <5>. QED
              BY <1>0, <2>0, <2>4, <5>2 DEF TurnOwned
      <4>2. CASE \E e \in Executions : drain_failed_tasks(e)
            BY <4>1, <4>2 DEF drain_failed_tasks, driver
      <4>3. ASSUME DriveFailed PROVE FALSE
            BY <1>0, <2>4, <4>1, <4>3, ReturnEffect DEF DriveFailed, Returned, TypeOK
      <4>4. \A e \in Executions : ~settle(e) /\ ~drain_terminalizing_tasks(e)
            BY <4>1 DEF settle, drain_terminalizing_tasks, At
      <4>. QED
            BY <3>1, <4>1, <4>2, <4>3, <4>4
            DEF DriverStep, Drive, initialize, RunStarted, drive_active_program, advance, dispatch,
                latch_primary_graph, run_postmortem, PostmortemEnds, retry_latch, close_run,
                cleanup_runtime, append_terminal, TasksDrained, append_stopped, fail_runtime,
                append_runtime_failure, DriverFaults, PostmortemUnconfirmed, At
    <3>2. CASE ~DriverStep
      <4>1. ~Crash /\ ~EngineAsks
            BY <2>0, <2>4 DEF Crash, EngineAsks, IInv, TurnOwned
      <4>2. ~TakeTurn
            BY <2>0, <2>4 DEF TakeTurn, Free
      <4>3. turn' = turn /\ engine' = engine
            BY <3>2, <4>1, <4>2
            DEF DriverStep, Next, runner_start, TaskEnds, PendingEnds, LiveEnds, Finish, ForceStop,
                force_stop, ForceCloses, ForceRecords, ForceFails, RuntimeLoss, runtime_lost,
                LossCloses, Reconcile, fail_orphaned_runtime, OrphanOwned, finish_lost_runtime,
                append_interrupted, driver, vars
      <4>. QED
            BY <2>0, <2>4, <4>3
    <3>. QED
          BY <3>1, <3>2
  <2>5. ASSUME turn'.at \in Late, ~Ended' PROVE ~ledger'.usageComplete
    <3>1. ASSUME turn.at \in Late PROVE ~ledger'.usageComplete
          BY <2>0, <2>2, <2>5, <3>1, LedgerKept
    <3>2. ASSUME retry_latch PROVE ~ledger'.usageComplete
          BY <1>0, <2>0, <2>2, <2>5, <3>2 DEF retry_latch, Ledgers
    <3>3. ~run_postmortem /\ ~PostmortemEnds
          BY <1>0, <2>0 DEF run_postmortem, PostmortemEnds, At, TurnOwned
    <3>4. turn.at \in Late \/ retry_latch \/ run_postmortem \/ PostmortemEnds
      <4>1. CASE DriverStep
        <5>1. ~latch_primary_graph
              BY <1>0, <2>5 DEF latch_primary_graph, Goto, Turns, Late
        <5>. QED
              BY <1>0, <2>5, <4>1, <5>1, Arrivals
      <4>2. CASE ~DriverStep
        <5>1. ~Crash
              BY <2>5 DEF Crash, Free, Late
        <5>2. ASSUME TakeTurn PROVE FALSE
          <6>1. turn'.at \in {"init", "fail"}
                BY <5>2 DEF TakeTurn, Free
          <6>. QED
                BY <2>5, <6>1 DEF Late
        <5>3. turn' = turn
              BY <4>2, <5>1, <5>2
              DEF DriverStep, Next, EngineAsks, runner_start, TaskEnds, PendingEnds, LiveEnds, Finish,
                  ForceStop, force_stop, ForceCloses, ForceRecords, ForceFails, RuntimeLoss,
                  runtime_lost, LossCloses, Reconcile, fail_orphaned_runtime, OrphanOwned,
                  finish_lost_runtime, append_interrupted, driver, vars
        <5>. QED
              BY <2>5, <5>3
      <4>. QED
            BY <4>1, <4>2
    <3>. QED
          BY <3>1, <3>2, <3>3, <3>4
  <2>. QED
        BY <2>1, <2>2, <2>3, <2>4, <2>5
<1>. QED
      BY <1>1, <1>2, <1>3 DEF AbortedSound, Late

-----------------------------------------------------------------------------
(* The invariant and the safety properties *)

\* The invariant holds of a run that was just admitted.
LEMMA InitIInv == Init => IInv
<1> SUFFICES ASSUME Init PROVE IInv
      OBVIOUS
<1> USE DEF Init
<1>1. TypeOK
  <2>1. ledger \in Ledgers
        BY DEF Ledgers
  <2>2. orphan \in Orphans
        BY DEF NoOrphan, Orphans
  <2>3. flags \in Flags
        BY DEF Flags
  <2>4. waiting \in Seq(Drivers) /\ turn \in Turns
        BY FreeType
  <2>. QED
        BY <2>1, <2>2, <2>3, <2>4 DEF TypeOK, LedgerType, DriverType, WorkType
<1>2. TurnOwned /\ QueueOwned
      BY DEF TurnOwned, QueueOwned, Free, InGraph
<1>3. LedgerSound /\ PlaceSound /\ OrphanSound
      BY DEF LedgerSound, PlaceSound, OrphanSound, Ended, Free, NoOrphan, InGraph, InStop, InOutcome
<1>4. DeadSound /\ WorkOwned /\ IntentFirst /\ CutSound /\ AbortedSound
      BY DEF DeadSound, WorkOwned, IntentFirst, CutSound, AbortedSound, Stopping, Free, InGraph
<1>. QED
      BY <1>1, <1>2, <1>3, <1>4 DEF IInv

\* The invariant is inductive.
LEMMA StepIInv == IInv /\ [Next]_vars => IInv'
  BY LedgerTypeStep, DriverTypeStep, WorkTypeStep, TurnOwnedStep, QueueOwnedStep, LedgerSoundStep,
     PlaceSoundStep, WorkOwnedStep, OrphanSoundStep, OnlyCrashKills, IntentFirstStep, CutSoundStep, AbortedSoundStep
  DEF IInv, TypeOK

\* The supervisor's inductive invariant, for every set of executions and any number of faults,
\* crashes, force stops and reconciliations.
THEOREM Invariant == Spec => []IInv
  BY InitIInv, StepIInv, PTL DEF Spec

\* Work that ended because the run was being stopped (runner_failure, settled_outcome) never
\* reaches the reducer as a crash it would retry.
THEOREM StoppedWork == Spec => []StoppedWorkIsNotRetried
<1>1. IInv => StoppedWorkIsNotRetried
      BY DEF IInv, CutSound, StoppedWorkIsNotRetried, InGraph
<1>. QED
      BY <1>1, Invariant, PTL

\* A graph outcome never claims complete usage when its postmortem was interrupted
\* (latch_primary_graph, append_interrupted).
THEOREM InterruptedPostmortem == Spec => []InterruptedPostmortemIsAccounted
<1>1. IInv => InterruptedPostmortemIsAccounted
      BY DEF IInv, AbortedSound, InterruptedPostmortemIsAccounted
<1>. QED
      BY <1>1, Invariant, PTL

\* Nothing is appended to a run that ended, and a latched outcome is never replaced: not by a
\* second driver, a late force stop, or a reconciliation that read the run before it moved on.
THEOREM LedgerIsFinal ==
    Spec => [][/\ Ended => ledger' = ledger
               /\ ledger.primary # "none" => ledger'.primary = ledger.primary]_vars
<1>1. IInv /\ [Next]_vars => [/\ Ended => ledger' = ledger
                              /\ ledger.primary # "none" => ledger'.primary = ledger.primary]_vars
      BY LedgerKept
<1>. QED
      BY <1>1, Invariant, PTL DEF Spec

-----------------------------------------------------------------------------
(* The refinement *)

\* The contract sees no change where the ledger's executions do not change.
LEMMA SeenUnchanged ==
    ASSUME ledger'.executions = ledger.executions
    PROVE  executionsSeen' = executionsSeen
  BY DEF executionsSeen

\* The contract's active executions are the ledger's.
LEMMA ActiveSeen ==
    ASSUME ledger \in Ledgers
    PROVE  {e \in Executions : executionsSeen[e] = "active"} = Active(ledger)
  BY DEF executionsSeen, Active, Ledgers, Settled

\* SettleActive is the contract's settlement of everything active.
LEMMA SettleActiveSeen ==
    ASSUME ledger \in Ledgers, NEW outcome \in Settled,
           ledger'.executions = [e \in Executions |-> IF ledger.executions[e] = "active" THEN outcome
                                                      ELSE ledger.executions[e]]
    PROVE  executionsSeen' = [e \in Executions |-> IF e \in Active(ledger) THEN "settled"
                                                   ELSE executionsSeen[e]]
  BY DEF executionsSeen, Active, Ledgers, Settled

\* Whether the run is still served.
Served == engine # "dead"

\* The end of a run: nothing is alive unless its controller died, what was active is settled.
LEMMA EndRefines ==
    ASSUME IInv, ~Ended, processes' = processes, Served' = Served,
           Served => processes = {},
           ~Served => ledger'.terminal = IF ledger.primary = "none" THEN "runtime_lost"
                                         ELSE ledger.primary,
           ledger'.primary = ledger.primary,
           ledger'.terminal \in Outcomes,
           ledger'.terminal \in GraphResults => ledger'.terminal = ledger.primary,
           ledger'.terminal = "force_stopped" => ledger.primary = "none",
           \/ Active(ledger) = {} /\ ledger'.executions = ledger.executions
           \/ \E outcome \in Settled :
                 ledger'.executions = [e \in Executions |-> IF ledger.executions[e] = "active"
                                                            THEN outcome ELSE ledger.executions[e]]
    PROVE  Contract!Next
<1>0. ledger \in Ledgers
      BY DEF IInv, TypeOK, LedgerType
<1>1. Contract!Active = Active(ledger)
      BY <1>0, ActiveSeen DEF Contract!Active
<1>2. executionsSeen' = [e \in Executions |-> IF e \in Active(ledger) THEN "settled"
                                              ELSE executionsSeen[e]]
  <2>1. CASE Active(ledger) = {} /\ ledger'.executions = ledger.executions
        BY <2>1 DEF executionsSeen
  <2>2. CASE \E outcome \in Settled :
                 ledger'.executions = [e \in Executions |-> IF ledger.executions[e] = "active"
                                                            THEN outcome ELSE ledger.executions[e]]
        BY <1>0, <2>2, SettleActiveSeen
  <2>. QED
        BY <2>1, <2>2
<1>3. Contract!End
      BY <1>1, <1>2
      DEF Contract!End, Contract!Open, Contract!settled, Contract!GraphResults,
          Contract!RuntimeFailures, Ended, Outcomes, GraphResults, Interruptions, Served
<1>. QED
      BY <1>3 DEF Contract!Next

\* Every step of the supervisor but a death is a step of the contract, or stutters.
LEMMA ServedStepRefines ==
    ASSUME IInv, [Next]_vars, Served' = Served
    PROVE  [Contract!Next]_(Contract!vars)
<1>0. ledger \in Ledgers /\ TypeOK /\ TurnOwned /\ PlaceSound
      BY DEF IInv, TypeOK, LedgerType
<1>1. ASSUME ledger'.executions = ledger.executions, ledger'.primary = ledger.primary,
             ledger'.terminal = ledger.terminal, processes' = processes
      PROVE  UNCHANGED Contract!vars
      BY <1>1, SeenUnchanged DEF Contract!vars, Served
<1>2. ASSUME ledger' = ledger, processes' \subseteq processes
      PROVE  Contract!Next
  <2>1. Contract!Exit
        BY <1>2, SeenUnchanged DEF Contract!Exit, Served
  <2>. QED
        BY <2>1 DEF Contract!Next
<1>3. ASSUME NEW e \in Executions, runner_start(e) PROVE Contract!Next
  <2>1. ledger.executions[e] = "active" /\ e \notin processes
        BY <1>3 DEF runner_start, IInv, WorkOwned
  <2>2. ~Ended /\ e \in Active(ledger)
        BY <2>1 DEF IInv, LedgerSound, Active
  <2>3. Served
        BY <1>3, TurnAlive DEF runner_start, IInv, WorkOwned, Served
  <2>4. Contract!Launch(e)
        BY <1>0, <1>3, <2>1, <2>2, <2>3, SeenUnchanged, ActiveSeen
        DEF Served, runner_start, Contract!Launch, Contract!Open, Contract!Active, Ended
  <2>. QED
        BY <2>4 DEF Contract!Next
<1>4. ASSUME run_postmortem PROVE [Contract!Next]_(Contract!vars)
  <2>1. CASE PostmortemEnabled /\ ~flags.stop
    <3>1. ~Ended /\ ledger.primary # "none" /\ Postmortem \notin processes
          BY <1>0, <1>4, InProgram DEF run_postmortem, At, IInv, PlaceSound, WorkOwned, InOutcome
    <3>2. Served
          BY <1>4, TurnAlive DEF run_postmortem, At, Served
    <3>3. Contract!Launch(Postmortem)
          BY <1>4, <2>1, <3>1, <3>2, SeenUnchanged
          DEF Served, run_postmortem, Contract!Launch, Contract!Open, Ended
    <3>. QED
          BY <3>3 DEF Contract!Next
  <2>2. CASE ~(PostmortemEnabled /\ ~flags.stop)
        BY <1>1, <1>4, <2>2 DEF run_postmortem
  <2>. QED
        BY <2>1, <2>2
<1>5. ASSUME RunStarted \/ retry_latch \/ ForceRecords PROVE UNCHANGED Contract!vars
  <2>1. ledger'.executions = ledger.executions /\ ledger'.primary = ledger.primary
        /\ ledger'.terminal = ledger.terminal
    <3>1. CASE RunStarted
          BY <1>0, <3>1 DEF RunStarted, Ledgers
    <3>2. CASE retry_latch
          BY <1>0, <3>2 DEF retry_latch, Ledgers
    <3>3. CASE ForceRecords
          BY <1>0, <3>3 DEF ForceRecords, Ledgers
    <3>. QED
          BY <1>5, <3>1, <3>2, <3>3
  <2>. QED
        BY <1>1, <1>5, <2>1 DEF RunStarted, retry_latch, ForceRecords, work
<1>6. ASSUME dispatch PROVE [Contract!Next]_(Contract!vars)
  <2>1. CASE flags.force \/ ledger.phase # "running"
        BY <1>1, <1>6, <2>1 DEF dispatch
  <2>2. CASE ~(flags.force \/ ledger.phase # "running")
    <3>1. ~Ended /\ ledger.primary = "none" /\ turn.targets \subseteq Executions
          BY <1>0, <1>6, InProgram
          DEF dispatch, At, PlaceSound, InGraph, TypeOK, DriverType, Turns
    <3>2. \A e \in turn.targets : executionsSeen[e] = "absent"
          BY <1>0, <1>6, <3>1 DEF dispatch, At, PlaceSound, executionsSeen
    <3>3. /\ ledger'.executions = [e \in Executions |-> IF e \in turn.targets THEN "active"
                                                       ELSE ledger.executions[e]]
          /\ ledger'.primary = ledger.primary /\ ledger'.terminal = ledger.terminal
          /\ processes' = processes
          BY <1>0, <1>6, <2>2 DEF dispatch, Ledgers
    <3>4. executionsSeen' = [e \in Executions |-> IF e \in turn.targets THEN "active"
                                                 ELSE executionsSeen[e]]
          BY <3>3 DEF executionsSeen
    <3>5. Served
          BY <1>6, TurnAlive DEF dispatch, At, Served
    <3>6. Contract!Start
          BY <3>1, <3>2, <3>3, <3>4, <3>5 DEF Contract!Start, Contract!Open, Ended, Served
    <3>. QED
          BY <3>6 DEF Contract!Next
  <2>. QED
        BY <2>1, <2>2
<1>7. ASSUME NEW e \in Executions, settle(e) PROVE [Contract!Next]_(Contract!vars)
  <2>1. CASE ledger' = ledger
        BY <1>1, <1>7, <2>1 DEF settle
  <2>2. CASE ledger' # ledger
    <3>1. ledger.executions[e] = "active" /\ e \notin processes
          BY <1>7, <2>2 DEF settle, IInv, WorkOwned, Finished
    <3>2. ~Ended /\ e \in Active(ledger)
          BY <3>1 DEF IInv, LedgerSound, Active
    <3>3. /\ ledger'.executions[e] \in Settled
          /\ \A f \in Executions \ {e} : ledger'.executions[f] = ledger.executions[f]
          /\ ledger'.primary = ledger.primary /\ ledger'.terminal = ledger.terminal
          /\ processes' = processes
      <4>1. (IF e \in voids THEN "voided" ELSE settled_outcome(tasks[e])) \in Settled
            BY <1>7, <2>2 DEF settle, settled_outcome, Settled, Finished
      <4>. QED
            BY <1>0, <1>7, <2>2, <4>1 DEF settle, Ledgers
    <3>4. executionsSeen' = [f \in Executions |-> IF f \in {e} THEN "settled"
                                                 ELSE executionsSeen[f]]
          BY <3>3 DEF executionsSeen, Settled
    <3>5. {e} \in SUBSET (Contract!Active \ processes)
          BY <1>0, <3>1, <3>2, ActiveSeen DEF Contract!Active
    <3>6. Served
          BY <1>7, <2>2, TurnAlive DEF settle, IInv, WorkOwned, Finished, Served
    <3>7. Contract!Settle
          BY <3>2, <3>3, <3>4, <3>5, <3>6
          DEF Contract!Settle, Contract!settled, Contract!Open, Ended, Served
    <3>. QED
          BY <3>7 DEF Contract!Next
  <2>. QED
        BY <2>1, <2>2
<1>8. ASSUME latch_primary_graph PROVE Contract!Next
  <2>1. /\ ~Ended /\ ledger.primary = "none" /\ Active(ledger) = {}
        /\ turn.result \in GraphResults
        BY <1>0, <1>8, InProgram DEF latch_primary_graph, At, PlaceSound, InGraph
  <2>2. /\ ledger'.executions = ledger.executions /\ ledger'.primary = turn.result
        /\ ledger'.terminal = ledger.terminal /\ processes' = processes
        BY <1>0, <1>8 DEF latch_primary_graph, Ledgers, work
  <2>3. Served
        BY <1>8, TurnAlive DEF latch_primary_graph, At, Served
  <2>4. Contract!Latch
        BY <1>0, <2>1, <2>2, <2>3, SeenUnchanged, ActiveSeen
        DEF Served, Contract!Latch, Contract!Open, Contract!Active, Contract!GraphResults, GraphResults, Ended
  <2>. QED
        BY <2>4 DEF Contract!Next
<1>9. ASSUME append_terminal PROVE [Contract!Next]_(Contract!vars)
  <2>1. CASE Ended
        BY <1>1, <1>9, <2>1 DEF append_terminal, work
  <2>2. CASE ~Ended
    <3>1. /\ processes = {} /\ processes' = processes /\ turn.result = ledger.primary
          /\ ledger.primary \in GraphResults /\ Active(ledger) = {}
          BY <1>0, <1>9
          DEF append_terminal, At, IInv, WorkOwned, PlaceSound, LedgerSound, InOutcome, work, Ledgers
    <3>3. Served
          BY <1>9, TurnAlive DEF append_terminal, At, Served
    <3>2. /\ ledger'.terminal = turn.result /\ ledger'.primary = ledger.primary
          /\ ledger'.executions = ledger.executions
          BY <1>0, <1>9, <2>2 DEF append_terminal, Close, Ledgers
    <3>. QED
          BY <2>2, <3>1, <3>2, <3>3, EndRefines DEF GraphResults, Outcomes
  <2>. QED
        BY <2>1, <2>2
<1>10. ASSUME append_stopped PROVE [Contract!Next]_(Contract!vars)
  <2>1. CASE Ended
        BY <1>1, <1>10, <2>1 DEF append_stopped, work
  <2>2. CASE ~Ended
    <3>1. /\ processes = {} /\ processes' = processes /\ turn.result \in Interruptions
          /\ ledger.primary = "none"
          BY <1>0, <1>10 DEF append_stopped, At, IInv, WorkOwned, PlaceSound, InStop, work
    <3>2. PICK outcome \in Settled : ledger' = SettleActive(Close(turn.result), outcome)
          BY <1>10, <2>2 DEF append_stopped, Settled
    <3>3. /\ ledger'.terminal = turn.result /\ ledger'.primary = ledger.primary
          /\ ledger'.executions = [e \in Executions |-> IF ledger.executions[e] = "active"
                                                        THEN outcome ELSE ledger.executions[e]]
          BY <1>0, <3>2 DEF SettleActive, Close, Ledgers
    <3>4. Served
          BY <1>10, TurnAlive DEF append_stopped, At, Served
    <3>. QED
          BY <2>2, <3>1, <3>3, <3>4, EndRefines DEF GraphResults, Interruptions, Outcomes
  <2>. QED
        BY <2>1, <2>2
<1>11. ASSUME append_runtime_failure PROVE [Contract!Next]_(Contract!vars)
  <2>1. CASE Ended
        BY <1>1, <1>11, <2>1 DEF append_runtime_failure, work
  <2>2. CASE ~Ended
    <3>1. processes = {} /\ processes' = processes
          BY <1>11 DEF append_runtime_failure, At, IInv, WorkOwned, work
    <3>2. /\ ledger'.terminal = "runtime_failed" /\ ledger'.primary = ledger.primary
          /\ ledger'.executions = [e \in Executions |-> IF ledger.executions[e] = "active"
                                                        THEN "crash" ELSE ledger.executions[e]]
          BY <1>0, <1>11, <2>2 DEF append_runtime_failure, SettleActive, Close, Ledgers
    <3>3. Served
          BY <1>11, TurnAlive DEF append_runtime_failure, At, Served
    <3>. QED
          BY <2>2, <3>1, <3>2, <3>3, EndRefines DEF GraphResults, Outcomes, Settled
  <2>. QED
        BY <2>1, <2>2
<1>12. ASSUME append_interrupted PROVE [Contract!Next]_(Contract!vars)
  <2>1. CASE ledger' = ledger
        BY <1>1, <1>12, <2>1 DEF append_interrupted, work
  <2>2. CASE ledger' # ledger
    <3>1. ~Ended /\ (Served => processes = {}) /\ processes' = processes
          BY <1>12, <2>2 DEF append_interrupted, IInv, OrphanSound, work, Served
    <3>2. CASE orphan.primary # "none"
      <4>1. /\ orphan.primary = ledger.primary /\ ledger.primary \in GraphResults
            /\ Active(ledger) = {}
            BY <1>0, <3>2 DEF IInv, OrphanSound, LedgerSound, Ledgers
      <4>2. /\ ledger'.terminal = ledger.primary /\ ledger'.primary = ledger.primary
            /\ ledger'.executions = ledger.executions
            BY <1>0, <1>12, <2>2, <3>1, <3>2, <4>1 DEF append_interrupted, Close, Ledgers
      <4>. QED
            BY <3>1, <4>1, <4>2, EndRefines DEF GraphResults, Outcomes
    <3>3. CASE orphan.primary = "none"
      <4>1. /\ ledger'.terminal = "runtime_lost" /\ ledger'.primary = ledger.primary
            /\ ledger'.executions = [e \in Executions |-> IF ledger.executions[e] = "active"
                                                          THEN "crash" ELSE ledger.executions[e]]
            BY <1>0, <1>12, <2>2, <3>1, <3>3 DEF append_interrupted, SettleActive, Close, Ledgers
      <4>2. ~Served => ledger.primary = "none"
            BY <1>12, <3>3 DEF append_interrupted, IInv, OrphanSound, Served
      <4>. QED
            BY <3>1, <4>1, <4>2, EndRefines DEF GraphResults, Interruptions, Outcomes, Settled
    <3>. QED
          BY <3>2, <3>3
  <2>. QED
        BY <2>1, <2>2
<1>13. ASSUME ~Appends PROVE [Contract!Next]_(Contract!vars)
      BY <1>2, <1>3, <1>4, <1>13, OnlyAppendsWrite, OnlyTheProgramStarts
<1>. QED
      BY <1>5, <1>6, <1>7, <1>8, <1>9, <1>10, <1>11, <1>12, <1>13 DEF Appends

\* Every step of the supervisor is a step of the contract, or stutters.
LEMMA StepRefines ==
    ASSUME IInv, [Next]_vars
    PROVE  [Contract!Next]_(Contract!vars)
<1>1. CASE Served' = Served
      BY <1>1, ServedStepRefines
<1>2. CASE Served' # Served
  <2>1. Crash
        BY <1>2, OnlyCrashKills DEF Served
  <2>2. (engine' # "dead") = FALSE /\ ledger' = ledger /\ processes' = processes
        BY <2>1 DEF Crash
  <2>3. Contract!Die
        BY <2>2, SeenUnchanged DEF Contract!Die
  <2>. QED
        BY <2>3 DEF Contract!Next
<1>. QED
      BY <1>1, <1>2

\* The supervisor, its engine, force stops, faults, crashes and reconciliation together keep the
\* contract of a run (native_v2_supervisor.rs, native_v2_platform.rs against the events of
\* v2_run_ledger.rs): processes only for durably active executions, gone before anything is
\* settled or the run ended by the controller that started them; one latched outcome; one result.
\* After a death nothing starts and the run is closed as latched or lost, over what survived.
THEOREM Refinement == Spec => ImplementsRunContract
<1>1. Init => Contract!Init
      BY DEF Init, Contract!Init, executionsSeen
<1>2. IInv /\ [Next]_vars => [Contract!Next]_(Contract!vars)
      BY StepRefines
<1>. QED
      BY <1>1, <1>2, Invariant, PTL DEF Spec, ImplementsRunContract, Contract!Spec
=============================================================================
