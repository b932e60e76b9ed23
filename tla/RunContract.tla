---------------------------- MODULE RunContract ----------------------------
(***************************************************************************)
(* What a run promises to whoever reads its ledger or shares its machine,  *)
(* without a word on how: the durable states of its executions and of its  *)
(* outcome, and the provider processes that may be alive, from the events  *)
(* of zeroshot/src/v2_run_ledger.rs and the promise of RunRuntimeCleanup.  *)
(* Supervisor, with its driver turn, tasks, force stops, faults, crashes   *)
(* and reconciliation, is shown to implement it.                           *)
(*                                                                         *)
(* A controller that dies takes the authority over its processes with it:  *)
(* they may survive, and the controller that closes the run afterwards     *)
(* confirms an absence it does not look for.  The promise that a result    *)
(* finds nothing alive is therefore made while the run is served; after    *)
(* that nothing is started or judged any more, and the run is only closed. *)
(***************************************************************************)

CONSTANTS Executions, Postmortem

VARIABLES executions,   \* absent, active or settled
          alive,        \* executions, or the postmortem, with a provider process
          primary,      \* the outcome of the graph
          result,       \* the terminal result of the run
          served        \* the controller that starts its processes lives

vars == <<executions, alive, primary, result, served>>

GraphResults == {"succeeded", "failed"}
RuntimeFailures == {"runtime_failed", "runtime_lost"}

Init ==
    /\ executions = [e \in Executions |-> "absent"]
    /\ alive = {}
    /\ primary = "none" /\ result = "none"
    /\ served = TRUE

Open == result = "none"
Active == {e \in Executions : executions[e] = "active"}

settled(over) == [e \in Executions |-> IF e \in over THEN "settled" ELSE executions[e]]

\* NodeStarted, for the executions of one reduction: each begins once, and none after the
\* graph's outcome.
Start ==
    /\ Open /\ served /\ primary = "none"
    /\ \E begun \in SUBSET {e \in Executions : executions[e] = "absent"} :
           executions' = [e \in Executions |-> IF e \in begun THEN "active" ELSE executions[e]]
    /\ UNCHANGED <<alive, primary, result, served>>

\* A provider process starts for an execution that is durably active, or for the
\* postmortem of a run whose outcome is latched.
Launch(p) ==
    /\ Open /\ served /\ p \notin alive
    /\ p \in Active \/ (p = Postmortem /\ primary # "none")
    /\ alive' = alive \cup {p}
    /\ UNCHANGED <<executions, primary, result, served>>

Exit ==
    /\ alive' \in SUBSET alive
    /\ UNCHANGED <<executions, primary, result, served>>

\* NodeCompleted and ExecutionVoided: only once the processes are gone.
Settle ==
    /\ Open /\ served
    /\ \E over \in SUBSET (Active \ alive) : executions' = settled(over)
    /\ UNCHANGED <<alive, primary, result, served>>

\* PrimaryGraphCompleted: once, over nothing active.
Latch ==
    /\ Open /\ served /\ primary = "none" /\ Active = {}
    /\ primary' \in GraphResults
    /\ UNCHANGED <<executions, alive, result, served>>

\* The controller dies; what it started may go on.
Die ==
    /\ served' = FALSE
    /\ UNCHANGED <<executions, alive, primary, result>>

\* Terminal: what was active is voided, and while the run is served nothing is alive.  A graph's
\* result is the latched one; a force stop never overrules it; only a failure of the runtime
\* does.  A run whose controller died keeps a latched outcome or is lost: its result may find
\* processes alive.
End ==
    /\ Open
    /\ served => alive = {}
    /\ result' \in GraphResults \cup RuntimeFailures \cup {"force_stopped"}
    /\ result' \in GraphResults => result' = primary
    /\ result' = "force_stopped" => primary = "none"
    /\ ~served => result' = IF primary = "none" THEN "runtime_lost" ELSE primary
    /\ executions' = settled(Active)
    /\ UNCHANGED <<alive, primary, served>>

Next ==
    \/ Start
    \/ \E p \in Executions \cup {Postmortem} : Launch(p)
    \/ Exit \/ Settle \/ Latch \/ Die \/ End

Spec == Init /\ [][Next]_vars
=============================================================================
