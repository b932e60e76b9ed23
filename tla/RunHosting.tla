------------------------------- MODULE RunHosting -------------------------------
(***************************************************************************)
(* The platform controller of a hosting target and its capsule allocator:  *)
(* how a run is accepted, prepared, handed to its engine, forced, resumed  *)
(* from the workspace another run left, torn down, and found again after   *)
(* the controller process died.                                            *)
(*                                                                         *)
(* The actors are the client calls (submit, resume, force; discard is one  *)
(* step), the controller's own startup, one preparation task per run and   *)
(* one engine per run.  Mutexes are not variables: who holds one is told   *)
(* by where the actors are (SubmissionFree, AllocationTurn, ...).          *)
(*                                                                         *)
(* What one run leaves on disk is a run directory, a recovery document and *)
(* a checkpoint repository.  A run directory is named by the lineage whose *)
(* work is in it: the run that checked the source out; None is no          *)
(* directory.  A run's process identity is an element of Identities.       *)
(***************************************************************************)
EXTENDS Naturals, FiniteSets

CONSTANTS
    N,              \* run ids are 1..N
    Fresh,          \* the runs clients submit; the others are resume successors
    Identities,     \* the process identities the host can lease, naturals
    NoIdentity,     \* none of them
    MaxCrashes,     \* how often the controller process dies
    MaxFaults       \* how many storage or cleanup operations fail

ASSUME HostingAssumption ==
    /\ N \in Nat /\ Fresh \subseteq 1..N /\ Identities \subseteq Nat
    /\ NoIdentity \notin Identities
    /\ MaxCrashes \in Nat /\ MaxFaults \in Nat

Runs == 1..N
None == 0

VARIABLES
    \* durable
    ledger,         \* run -> [state, latched: a success is latched, force]
    root,           \* run -> the lineage whose workspace its directory holds
    doc,            \* run -> its recovery document
    repository,     \* the delivery lineages whose checkpoint repository exists
    process,        \* identity -> the runs with processes alive under it
    \* the controller process
    runtimes,       \* run -> its slot in NativeV2PlatformController.runtimes
    task,           \* run -> its preparation task
    capsule,        \* run -> what the allocator knows of it
    engine,         \* run -> its engine
    job,            \* caller or preparing run -> the teardown it is running
    call,           \* caller -> where it is
    \* bounds and history
    budget,         \* crashes and faults so far
    kept            \* lineages with agent work nobody asked to be disposed of

durable == <<ledger, root, doc, repository>>
vars == <<ledger, root, doc, repository, process, runtimes, task, capsule, engine,
          job, call, budget, kept>>

\* The calls, numbered after the runs, whose preparation tasks are workers too.
submit == N + 1
resume == N + 2
force == N + 3
boot == N + 4
Callers == {submit, resume, force, boot}
Workers == Callers \cup Runs

NoDoc == [recoverable |-> FALSE, present |-> FALSE, delivery |-> None,
          from |-> None, successor |-> None]
NoTask == [at |-> "none", cancel |-> FALSE, failure |-> "none", from |-> None]
Done == [NoTask EXCEPT !.at = "finished"]
NoCapsule == [active |-> FALSE, allocated |-> FALSE, identity |-> NoIdentity,
              endpoint |-> FALSE, inherited |-> FALSE, delivery |-> None]
NoEngine == [at |-> "off", exit |-> "none", again |-> FALSE]
NoJob == [kind |-> "none", run |-> None, step |-> "none", forced |-> FALSE]
Idle == [at |-> "idle", run |-> None, from |-> None]

Init ==
    /\ ledger = [r \in Runs |-> [state |-> "absent", latched |-> FALSE, force |-> FALSE]]
    /\ root = [r \in Runs |-> None]
    /\ doc = [r \in Runs |-> NoDoc]
    /\ repository = {}
    /\ process = [i \in Identities |-> {}]
    /\ runtimes = [r \in Runs |-> "none"]
    /\ task = [r \in Runs |-> NoTask]
    /\ capsule = [r \in Runs |-> NoCapsule]
    /\ engine = [r \in Runs |-> NoEngine]
    /\ job = [w \in Workers |-> NoJob]
    /\ call = [c \in Callers |-> Idle]
    /\ budget = [crashes |-> 0, faults |-> 0]
    /\ kept = {}

-----------------------------------------------------------------------------
(* Who is where. *)

Up == call[boot].at = "idle"
Open(r) == ledger[r].state = "open"
Terminal(r) == ledger[r].state \in {"failed", "stopped", "succeeded"}
Finished(r) == task[r].at = "finished"

\* A storage or cleanup operation fails.
Faulty == budget.faults < MaxFaults
Fault == budget' = [budget EXCEPT !.faults = @ + 1]
Sound == UNCHANGED budget

\* submission_turn: a submission holds it over the orphan's reconstruction too.
SubmissionFree == call[submit].at = "idle" /\ call[resume].at = "idle"

\* reconstructed_turn.
ReconstructedFree ==
    /\ call[submit].at # "job"
    /\ job[force].kind # "rebuild"

\* A run's allocation turn: held by its own allocation, and by a handoff from
\* the run until the workspace is renamed.
AllocationTurn(r) ==
    \/ task[r].at \in {"link", "rename", "register", "build", "installed"}
    \/ \E s \in Runs : task[s].from = r /\ task[s].at \in {"link", "rename"}

\* The run's exclusive controller claim: shared by its preparation task and
\* its engine, or taken by a call that reconstructs a run nobody owns.
Claimed(r) ==
    \/ runtimes[r] = "preparing"
    \/ task[r].at \notin {"none", "finished"}
    \/ engine[r].at \notin {"off", "gone"}
    \/ call[force].run = r /\ (call[force].at = "wait" \/ job[force].kind = "settle")
    \/ \E c \in Callers : job[c].run = r /\ job[c].kind \in {"lost", "rebuild"}

HasWorkspace(r) == root[r] # None

-----------------------------------------------------------------------------
(* The allocator's cleanup.  exit is "completed", "failed", "lost" or        *)
(* "forced".                                                                 *)

\* retain_failed_workspace: the work stays, and its document offers it.
retain_failed_workspace(r, delivery) ==
    /\ doc' = [doc EXCEPT ![r].present = TRUE,
                          ![r].recoverable = TRUE,
                          ![r].delivery = IF @ = None THEN delivery ELSE @]
    /\ UNCHANGED <<root, repository, kept>>

\* dispose_run_directory: the directory goes, and with it the checkpoints,
\* unless another run took them over or their collection waits for the
\* terminal event.
dispose_run_directory(r, exit, defer, delivery) ==
    /\ root' = [root EXCEPT ![r] = None]
    /\ repository' = IF doc[r].successor # None \/ (defer /\ exit = "completed")
                     THEN repository ELSE repository \ {delivery}
    /\ kept' = IF exit \in {"forced", "completed"} THEN kept \ {root[r]} ELSE kept
    /\ UNCHANGED doc

cleanup_run_directory(r, exit, eligible, defer, delivery) ==
    IF eligible /\ exit \in {"failed", "lost"} /\ HasWorkspace(r)
    THEN retain_failed_workspace(r, delivery)
    ELSE dispose_run_directory(r, exit, defer, delivery)

\* Only a capsule that was handed over, or that took over retained work, may
\* leave its workspace behind.
Bug_recovery_eligible(r) == capsule[r].endpoint
recovery_eligible(r) == capsule[r].endpoint \/ capsule[r].inherited

untouched == UNCHANGED <<root, repository, kept, doc>>

\* cleanup_state: processes first, the directory next, the identity last.
cleanup_state(r, exit) ==
    /\ process' = [process EXCEPT ![capsule[r].identity] = {}]
    /\ cleanup_run_directory(r, exit, recovery_eligible(r), TRUE, capsule[r].delivery)
    /\ capsule' = [capsule EXCEPT ![r] = [NoCapsule EXCEPT
                        !.allocated = capsule[r].allocated, !.delivery = capsule[r].delivery]]

\* It gives up before or after the processes are proven gone.  A failure between
\* the removal of the directory and that of the checkpoints is left out: the
\* next attempt finds the directory absent and removes the rest.
cleanup_state_fails(r, exit) ==
    /\ UNCHANGED capsule
    /\ \/ UNCHANGED process /\ untouched
       \/ process' = [process EXCEPT ![capsule[r].identity] = {}] /\ untouched

\* confirmed_retained_workspace.
confirmed_retained(r) == doc[r].recoverable /\ HasWorkspace(r)

delivery_of(r) == IF doc[r].delivery = None THEN r ELSE doc[r].delivery

Bug_destroy(r, exit) ==
    /\ ~AllocationTurn(r)
    /\ IF capsule[r].active THEN cleanup_state(r, exit)
       ELSE /\ UNCHANGED <<process, capsule>>
            /\ IF capsule[r].allocated
               THEN (~HasWorkspace(r) \/ confirmed_retained(r)) /\ untouched
               ELSE (\A i \in Identities : r \notin process[i])
                    /\ cleanup_run_directory(r, exit, TRUE, FALSE, delivery_of(r))

\* destroy_or_confirm_absent, when it confirms: an active capsule is torn down;
\* a failed attempt that registered nothing must have left nothing; a run of an
\* earlier process is cleaned up from what is on disk.
destroy(r, exit) ==
    /\ ~AllocationTurn(r)
    /\ IF capsule[r].active THEN cleanup_state(r, exit)
       ELSE /\ UNCHANGED <<process, capsule>>
            /\ IF capsule[r].allocated
               THEN (~HasWorkspace(r) \/ confirmed_retained(r)) /\ untouched
               ELSE cleanup_run_directory(r, exit, TRUE, FALSE, delivery_of(r))

destroy_fails(r, exit) ==
    /\ ~AllocationTurn(r)
    /\ IF capsule[r].active THEN cleanup_state_fails(r, exit)
       ELSE /\ UNCHANGED <<process, capsule>>
            /\ \/ untouched
               \/ /\ ~capsule[r].allocated
                  /\ ~(exit = "lost" /\ HasWorkspace(r))
                  /\ root' = [root EXCEPT ![r] = None]
                  /\ kept' = IF exit = "forced" THEN kept \ {root[r]} ELSE kept
                  /\ UNCHANGED <<repository, doc>>

-----------------------------------------------------------------------------
(* A teardown a worker runs: retry_preparation_cleanup ("settle"), the        *)
(* failed start of an allocated capsule ("init"), finish_lost_runtime         *)
(* ("lost"), force_reconstructed ("rebuild") and the drive a force call adds  *)
(* to an engine that gave up ("engine").                                     *)

begin(w, kind, r, f) ==
    job' = [job EXCEPT ![w] = [kind |-> kind, run |-> r, forced |-> f,
                               step |-> IF kind = "settle" THEN "check" ELSE "destroy"]]

exit_of(w) ==
    LET r == job[w].run IN
    CASE job[w].kind = "settle" ->
           IF job[w].forced \/ task[r].failure = "force_stopped" THEN "forced" ELSE "lost"
      [] job[w].kind \in {"rebuild", "engine"} -> "forced"
      [] OTHER -> "lost"

step(w, s) == job' = [job EXCEPT ![w].step = s]

Bug_ends(w, ok) ==
    IF w \in Runs
    THEN /\ IF job[w].kind = "init"
            THEN begin(w, "settle", w, FALSE) /\ UNCHANGED task
            ELSE /\ job' = [job EXCEPT ![w] = NoJob]
                 /\ task' = [task EXCEPT ![w] = IF runtimes'[w] = "none" THEN Done
                                                ELSE @]
         /\ UNCHANGED call
    ELSE /\ job' = [job EXCEPT ![w] = NoJob]
         /\ call' = [call EXCEPT ![w] =
                        CASE w = boot -> [Idle EXCEPT !.at = IF ok THEN "runs" ELSE "down"]
                          [] w = force /\ ok -> [Idle EXCEPT !.at = "done", !.run = job[w].run]
                          [] OTHER -> Idle]
         /\ UNCHANGED task

\* How the worker goes on: a preparation task finishes (after "init" it still
\* settles), a call returns, startup goes on to the next run or fails.
ends(w, ok) ==
    IF w \in Runs
    THEN /\ IF job[w].kind = "init"
            THEN begin(w, "settle", w, FALSE) /\ UNCHANGED task
            ELSE /\ job' = [job EXCEPT ![w] = NoJob]
                 /\ task' = [task EXCEPT ![w] = IF runtimes'[w] = "none" THEN Done
                                                ELSE [task[w] EXCEPT !.at = "finished"]]
         /\ UNCHANGED call
    ELSE /\ job' = [job EXCEPT ![w] = NoJob]
         /\ call' = [call EXCEPT ![w] =
                        CASE w = boot -> [Idle EXCEPT !.at = IF ok THEN "runs" ELSE "down"]
                          [] w = force /\ ok -> [Idle EXCEPT !.at = "done", !.run = job[w].run]
                          [] OTHER -> Idle]
         /\ UNCHANGED task

\* cleanup_turn: one teardown of a preparation at a time.
SettleTurn(w) ==
    \A v \in Workers \ {w} :
        ~(job[v].kind = "settle" /\ job[v].run = job[w].run /\ job[v].step # "check")

JobCheck(w) ==
    /\ job[w].step = "check" /\ SettleTurn(w)
    /\ step(w, IF Terminal(job[w].run) THEN "unslot" ELSE "destroy")
    /\ UNCHANGED <<durable, process, runtimes, task, capsule, engine, call, budget,
                   kept>>

JobDestroy(w) ==
    /\ job[w].step = "destroy"
    /\ destroy(job[w].run, exit_of(w))
    /\ step(w, "append")
    /\ UNCHANGED <<ledger, runtimes, task, engine, call, budget>>

Bug_JobDestroyFails(w) ==
    LET r == job[w].run IN
    /\ job[w].step = "destroy" /\ UNCHANGED runtimes
    /\ destroy_fails(r, exit_of(w))
    /\ Faulty /\ Fault
    /\ step(w, "append")
    /\ UNCHANGED <<ledger, runtimes, engine, task, call>>

\* The cleanup is not confirmed: a fault, or a directory that is in the way.
JobDestroyFails(w) ==
    LET r == job[w].run IN
    /\ job[w].step = "destroy" /\ UNCHANGED runtimes
    /\ destroy_fails(r, exit_of(w))
    /\ IF ~capsule[r].active /\ capsule[r].allocated /\ HasWorkspace(r)
          /\ ~confirmed_retained(r) THEN Sound ELSE Faulty /\ Fault
    /\ ends(w, FALSE)
    /\ UNCHANGED <<ledger, runtimes, engine>>

result_of(w) ==
    LET r == job[w].run IN
    CASE job[w].kind \in {"lost", "rebuild"} /\ ledger[r].latched -> "succeeded"
      [] exit_of(w) = "forced" -> "stopped"
      [] OTHER -> "failed"

\* The terminal event; a run that ended meanwhile keeps its result.
JobAppend(w) ==
    LET r == job[w].run IN
    /\ job[w].step = "append" /\ UNCHANGED runtimes
    /\ ledger' = [ledger EXCEPT ![r].state = IF Terminal(r) THEN @ ELSE result_of(w),
                                ![r].force = @ \/ exit_of(w) = "forced"]
    /\ CASE job[w].kind \in {"settle", "engine"} ->
              step(w, "unslot") /\ UNCHANGED <<task, call>>
         [] job[w].kind = "lost" /\ ledger[r].latched ->
              step(w, "discard") /\ UNCHANGED <<task, call>>
         [] OTHER -> ends(w, TRUE)
    /\ UNCHANGED <<root, doc, repository, process, runtimes, capsule, engine,
                   budget, kept>>

JobAppendFails(w) ==
    /\ job[w].step = "append" /\ UNCHANGED runtimes
    /\ Faulty /\ Fault
    /\ ends(w, FALSE)
    /\ UNCHANGED <<durable, process, runtimes, capsule, engine, kept>>

JobUnslot(w) ==
    /\ job[w].step = "unslot"
    /\ runtimes' = [runtimes EXCEPT ![job[w].run] = "none"]
    /\ ends(w, TRUE)
    /\ UNCHANGED <<durable, process, capsule, engine, budget, kept>>

\* discard_workspace: the checkpoints, the directory, then the document.
discard_workspace(r) ==
    /\ ~AllocationTurn(r)
    /\ IF doc[r].recoverable
       THEN /\ repository' = repository \ {delivery_of(r)}
            /\ root' = [root EXCEPT ![r] = None]
            /\ kept' = kept \ {root[r]}
            /\ doc' = [doc EXCEPT ![r].recoverable = FALSE]
       ELSE untouched

\* ... it fails part of the way.
discard_fails(r) ==
    /\ ~AllocationTurn(r) /\ doc[r].recoverable
    /\ repository' = repository \ {delivery_of(r)}
    /\ \/ root' = [root EXCEPT ![r] = None]
       \/ UNCHANGED root
    /\ kept' = kept \ {root[r]}
    /\ UNCHANGED doc

\* finish_lost_runtime's last, best-effort step.
JobDiscard(w) ==
    /\ job[w].step = "discard" /\ UNCHANGED runtimes
    /\ \/ discard_workspace(job[w].run) /\ Sound
       \/ Faulty /\ Fault /\ discard_fails(job[w].run)
    /\ ends(w, TRUE)
    /\ UNCHANGED <<ledger, process, runtimes, capsule, engine>>

JobStep(w) ==
    \/ JobCheck(w) \/ JobDestroy(w) \/ JobDestroyFails(w) \/ JobAppend(w)
    \/ JobAppendFails(w) \/ JobUnslot(w) \/ JobDiscard(w)

Discard(r) ==
    /\ Up /\ ledger[r].state # "absent" /\ doc[r].recoverable
    /\ \/ discard_workspace(r) /\ Sound
       \/ Faulty /\ Fault /\ discard_fails(r)
    /\ UNCHANGED <<ledger, process, runtimes, task, capsule, engine, job, call>>

-----------------------------------------------------------------------------
(* Submission and resume. *)

go(c, at) == call' = [call EXCEPT ![c].at = at]
returns(c) == call' = [call EXCEPT ![c] = Idle]

\* submit_inner under submission_turn: create_or_get.
Submit(r) ==
    /\ Up /\ SubmissionFree /\ r \in Fresh
    /\ IF ledger[r].state = "absent"
       THEN /\ ledger' = [ledger EXCEPT ![r].state = "open"]
            /\ call' = [call EXCEPT ![submit] = [at |-> "start", run |-> r, from |-> None]]
       ELSE /\ call' = [call EXCEPT ![submit] = [at |-> "orphan", run |-> r, from |-> None]]
            /\ UNCHANGED ledger
    /\ UNCHANGED <<root, doc, repository, process, runtimes, task, capsule, engine,
                   job, budget, kept>>

\* recoverable_resume_source, under submission_turn.
Resume(s, r) ==
    /\ Up /\ SubmissionFree /\ r \notin Fresh /\ s # r
    /\ ledger[s].state \in {"failed", "stopped"}
    /\ doc[s].recoverable /\ HasWorkspace(s)
    /\ ledger[r].state = "absent" /\ ~Claimed(r)
    /\ call' = [call EXCEPT ![resume] = [at |-> "create", run |-> r, from |-> s]]
    /\ UNCHANGED <<durable, process, runtimes, task, capsule, engine, job, budget,
                   kept>>

CreateSuccessor ==
    LET r == call[resume].run IN
    /\ call[resume].at = "create"
    /\ ledger' = [ledger EXCEPT ![r].state = "open"]
    /\ go(resume, "start")
    /\ UNCHANGED <<root, doc, repository, process, runtimes, task, capsule, engine,
                   job, budget, kept>>

Bug_StartPreparation(c) ==
    LET r == call[c].run IN
    /\ c \in {submit, resume} /\ call[c].at = "start"
    /\ UNCHANGED runtimes
    /\ task' = [task EXCEPT ![r] = [NoTask EXCEPT !.at = "queued", !.from = call[c].from]]
    /\ returns(c)
    /\ UNCHANGED <<durable, process, capsule, engine, job, budget, kept>>

\* start_created and start_preparation: claim, slot, task.
StartPreparation(c) ==
    LET r == call[c].run IN
    /\ c \in {submit, resume} /\ call[c].at = "start"
    /\ runtimes' = [runtimes EXCEPT ![r] = "preparing"]
    /\ task' = [task EXCEPT ![r] = [NoTask EXCEPT !.at = "queued", !.from = call[c].from]]
    /\ returns(c)
    /\ UNCHANGED <<durable, process, capsule, engine, job, budget, kept>>

\* The claim or track_runtime fails: the run stays accepted and unowned.
StartPreparationFails(c) ==
    /\ c \in {submit, resume} /\ call[c].at = "start"
    /\ Faulty /\ Fault
    /\ returns(c)
    /\ UNCHANGED <<durable, process, runtimes, task, capsule, engine, job, kept>>

\* fail_orphaned_runtime, on an exact resubmission.  The reads of the ledger and
\* of the slot and the claim are one step under reconstructed_turn; Supervisor
\* takes them apart.
FailOrphaned ==
    LET r == call[submit].run IN
    /\ call[submit].at = "orphan" /\ ReconstructedFree
    /\ \/ /\ Open(r) /\ runtimes[r] = "preparing" /\ Finished(r)
          /\ begin(submit, "settle", r, FALSE) /\ go(submit, "job")
       \/ /\ Open(r) /\ runtimes[r] = "none" /\ ~Claimed(r)
          /\ begin(submit, "lost", r, FALSE) /\ go(submit, "job")
       \/ /\ \/ Terminal(r)
             \/ runtimes[r] = "running"
             \/ runtimes[r] = "preparing" /\ ~Finished(r)
             \/ runtimes[r] = "none" /\ Claimed(r)
          /\ returns(submit) /\ UNCHANGED job
    /\ UNCHANGED <<durable, process, runtimes, task, capsule, engine, budget, kept>>

-----------------------------------------------------------------------------
(* The preparation task. *)

\* prepare_run returned a failure: the task settles it.
fails(r, failure) ==
    /\ task' = [task EXCEPT ![r].at = "settle", ![r].failure = failure]
    /\ begin(r, "settle", r, FALSE)

Leased == {capsule[r].identity : r \in Runs} \ {NoIdentity}

\* ActiveRunProcessPools::acquire takes the lowest free identity, if there is
\* one, and prepare_git_identity refuses one with processes of an earlier run.
Acquired == {i \in Identities \ Leased : \A j \in Identities \ Leased : i <= j}
Bug_MayLease == Acquired # {}
MayLease == \E i \in Acquired : process[i] = {}

\* allocate: once per run and process.
Allocate(r) ==
    /\ task[r].at = "queued" /\ task[r].from = None /\ ~AllocationTurn(r)
    /\ IF capsule[r].allocated \/ ~MayLease
       THEN fails(r, "unavailable") /\ capsule' = [capsule EXCEPT ![r].allocated = TRUE]
       ELSE /\ \E i \in Acquired :
                 capsule' = [capsule EXCEPT ![r].allocated = TRUE,
                                            ![r].identity = i,
                                            ![r].delivery = r]
            /\ task' = [task EXCEPT ![r].at = "register"]
            /\ UNCHANGED job
    /\ UNCHANGED <<durable, process, runtimes, engine, call, budget, kept>>

\* rollback_retained_claim: the source is offered again and the successor's
\* document removed; a fault may keep either from happening.
rollback_retained_claim(r, broken) ==
    LET s == task[r].from IN
    doc' = [doc EXCEPT ![s] = IF "source" \in broken THEN doc[s]
                              ELSE [doc[s] EXCEPT !.recoverable = TRUE, !.successor = None],
                       ![r] = IF "successor" \in broken THEN doc[r] ELSE NoDoc]

\* claim_retained_allocation's first write, with both turns held: the source
\* is no longer offered and names its successor.
ClaimRetained(r) ==
    LET s == task[r].from IN
    /\ task[r].at = "queued" /\ s # None
    /\ ~AllocationTurn(r) /\ ~AllocationTurn(s)
    /\ IF doc[s].recoverable /\ doc[s].successor = None /\ ~HasWorkspace(r)
       THEN /\ doc' = [doc EXCEPT ![s].recoverable = FALSE, ![s].successor = r,
                                  ![s].delivery = delivery_of(s)]
            /\ task' = [task EXCEPT ![r].at = "link"]
            /\ UNCHANGED job
       ELSE fails(r, "unavailable") /\ UNCHANGED doc
    /\ UNCHANGED <<ledger, root, repository, process, runtimes, capsule, engine,
                   call, budget, kept>>

\* The second: the successor's document.
LinkRetained(r) ==
    LET s == task[r].from IN
    /\ task[r].at = "link"
    /\ doc' = [doc EXCEPT ![r] = [present |-> TRUE, recoverable |-> FALSE,
                                  delivery |-> doc[s].delivery, from |-> s,
                                  successor |-> None]]
    /\ task' = [task EXCEPT ![r].at = "rename"]
    /\ UNCHANGED <<ledger, root, repository, process, runtimes, capsule, engine,
                   job, call, budget, kept>>

\* A write or the rename fails, and the claim is rolled back, if it can be.
RetainedFails(r) ==
    /\ task[r].at \in {"link", "rename"}
    /\ \E broken \in SUBSET {"source", "successor"} :
        LET gone == task[r].at = "rename" /\ ~HasWorkspace(task[r].from)
            cost == Cardinality(broken) + IF gone THEN 0 ELSE 1 IN
        /\ budget.faults + cost <= MaxFaults
        /\ budget' = [budget EXCEPT !.faults = @ + cost]
        /\ rollback_retained_claim(r, broken)
    /\ fails(r, "unavailable")
    /\ UNCHANGED <<ledger, root, repository, process, runtimes, capsule, engine,
                   call, kept>>

\* The workspace moves, and an identity is leased for it in the same breath; a
\* refused lease keeps the work for the successor.  The write that keeps it may
\* fail in the code (CleanupUnconfirmed); here it succeeds.
RenameRetained(r) ==
    LET s == task[r].from IN
    /\ task[r].at = "rename" /\ HasWorkspace(s)
    /\ root' = [root EXCEPT ![r] = root[s], ![s] = None]
    /\ IF MayLease
       THEN /\ \E i \in Acquired :
                 capsule' = [capsule EXCEPT ![r].identity = i,
                                            ![r].delivery = doc[r].delivery,
                                            ![r].inherited = TRUE]
            /\ task' = [task EXCEPT ![r].at = "register"]
            /\ UNCHANGED <<job, doc>>
       ELSE /\ doc' = [doc EXCEPT ![r].recoverable = TRUE]
            /\ fails(r, "unavailable")
            /\ UNCHANGED capsule
    /\ UNCHANGED <<ledger, repository, process, runtimes, engine, call, budget, kept>>

\* build_capsule registers the capsule before anything of it runs, makes or
\* adopts the run directory and starts the setup hook.
Register(r) ==
    /\ task[r].at = "register"
    /\ capsule' = [capsule EXCEPT ![r].active = TRUE]
    /\ root' = [root EXCEPT ![r] = IF capsule[r].inherited THEN @ ELSE r]
    /\ process' = [process EXCEPT ![capsule[r].identity] = @ \cup {r}]
    /\ task' = [task EXCEPT ![r].at = "build"]
    /\ UNCHANGED <<ledger, doc, repository, runtimes, engine, job, call, budget, kept>>

\* The checkout, or the restored workspace, is in place.
Install(r) ==
    /\ task[r].at = "build"
    /\ task' = [task EXCEPT ![r].at = "installed"]
    /\ repository' = repository \cup {capsule[r].delivery}
    /\ UNCHANGED <<ledger, root, doc, process, runtimes, capsule, engine, job,
                   call, budget, kept>>

\* finish_capsule: the allocation returned a capsule, its turn is free.
FinishCapsule(r) ==
    /\ task[r].at = "installed"
    /\ capsule' = [capsule EXCEPT ![r].endpoint = TRUE, ![r].allocated = TRUE]
    /\ task' = [task EXCEPT ![r].at = "ready"]
    /\ UNCHANGED <<durable, process, runtimes, engine, job, call, budget, kept>>

\* A hook, the checkout or the restore fails; the allocation cleans up as far
\* as it can, and the controller confirms it.
BuildFails(r) ==
    LET exit == IF capsule[r].inherited THEN "lost" ELSE "completed" IN
    /\ task[r].at \in {"build", "installed"}
    /\ \/ cleanup_state(r, exit) /\ Sound
       \/ cleanup_state_fails(r, exit) /\ Faulty /\ Fault
    /\ fails(r, "unavailable")
    /\ UNCHANGED <<ledger, runtimes, engine, call>>

\* The select of prepare_run drops the allocation, wherever it awaits.
dropped(r) ==
    capsule' = [capsule EXCEPT ![r].identity =
                    IF task[r].at = "register" THEN NoIdentity ELSE @]

Awaiting(r) == task[r].at \in {"queued", "register", "build", "installed"}

PreparationCancelled(r) ==
    /\ Awaiting(r) /\ task[r].cancel
    /\ dropped(r) /\ fails(r, "force_stopped")
    /\ UNCHANGED <<durable, process, runtimes, engine, call, budget, kept>>

PreparationTimeout(r) ==
    /\ Awaiting(r) /\ ~task[r].cancel
    /\ dropped(r) /\ fails(r, "unavailable")
    /\ UNCHANGED <<durable, process, runtimes, engine, call, budget, kept>>

\* Handoff: a last look at the cancellation, then the engine owns the run.
Handoff(r) ==
    /\ task[r].at = "ready"
    /\ IF task[r].cancel THEN fails(r, "force_stopped") /\ UNCHANGED <<runtimes,
                                                                     engine, kept>>
       ELSE /\ runtimes' = [runtimes EXCEPT ![r] = "running"]
            /\ engine' = [engine EXCEPT ![r].at = "driving"]
            /\ task' = [task EXCEPT ![r] = Done]
            /\ kept' = kept \cup {root[r]}
            /\ UNCHANGED job
    /\ UNCHANGED <<durable, process, capsule, call, budget>>

\* initialize_allocated cannot record the seed.
HandoffFails(r) ==
    /\ task[r].at = "ready" /\ ~task[r].cancel /\ Faulty /\ Fault
    /\ task' = [task EXCEPT ![r].at = "settle", ![r].failure = "unavailable"]
    /\ begin(r, "init", r, FALSE)
    /\ UNCHANGED <<durable, process, runtimes, capsule, engine, call, kept>>

PreparationStep(r) ==
    \/ Allocate(r) \/ ClaimRetained(r) \/ LinkRetained(r) \/ RetainedFails(r)
    \/ RenameRetained(r) \/ Register(r) \/ Install(r) \/ FinishCapsule(r)
    \/ BuildFails(r) \/ PreparationCancelled(r) \/ PreparationTimeout(r)
    \/ Handoff(r) \/ HandoffFails(r)

-----------------------------------------------------------------------------
(* The engine, as far as hosting sees it. *)

EngineOutcome(r) ==
    /\ engine[r].at = "driving"
    /\ \E exit \in {"completed", "failed", "lost"} :
        /\ engine' = [engine EXCEPT ![r].at = "cleanup", ![r].exit = exit]
        /\ ledger' = [ledger EXCEPT ![r].latched = exit = "completed"]
    /\ UNCHANGED <<root, doc, repository, process, runtimes, task, capsule, job,
                   call, budget, kept>>

EngineStopped(r) ==
    /\ engine[r].at = "driving" /\ ledger[r].force
    /\ engine' = [engine EXCEPT ![r].at = "cleanup", ![r].exit = "forced"]
    /\ UNCHANGED <<durable, process, runtimes, task, capsule, job, call, budget, kept>>

\* drive failed: fail_runtime tries once more, as a lost runtime, and then the
\* engine gives up with the run still open.
gives_up(r) ==
    engine' = [engine EXCEPT ![r] =
                   [at |-> IF engine[r].again THEN "removable" ELSE "cleanup",
                    exit |-> IF engine[r].again THEN "none" ELSE "lost", again |-> TRUE]]

\* The capsule's own cleanup handle takes no allocation turn; a capsule that is
\* already cleaned up is confirmed.
EngineCleanup(r) ==
    /\ engine[r].at = "cleanup"
    /\ IF capsule[r].active
       THEN \/ /\ cleanup_state(r, engine[r].exit) /\ Sound
               /\ engine' = [engine EXCEPT ![r].at = "append"]
            \/ cleanup_state_fails(r, engine[r].exit) /\ Faulty /\ Fault /\ gives_up(r)
       ELSE /\ engine' = [engine EXCEPT ![r].at = "append"]
            /\ UNCHANGED <<process, capsule>> /\ untouched /\ Sound
    /\ UNCHANGED <<ledger, runtimes, task, job, call>>

\* The terminal event and, after a success, the checkpoints' collection.
EngineAppend(r) ==
    /\ engine[r].at = "append"
    /\ \/ /\ ledger' = [ledger EXCEPT ![r].state =
                            CASE engine[r].exit = "completed" -> "succeeded"
                              [] engine[r].exit = "forced" -> "stopped"
                              [] OTHER -> "failed"]
          /\ repository' = IF engine[r].exit = "completed"
                           THEN repository \ {capsule[r].delivery} ELSE repository
          /\ engine' = [engine EXCEPT ![r].at = "removable", ![r].exit = "none"] /\ Sound
       \/ Faulty /\ Fault /\ gives_up(r) /\ UNCHANGED <<ledger, repository>>
    /\ UNCHANGED <<root, doc, process, runtimes, task, capsule, job, call, kept>>

\* remove_finished_runtime, and the claim the engine's task drops last.
RemoveFinished(r) ==
    /\ engine[r].at \in {"removable", "gone"} /\ runtimes[r] = "running"
    /\ runtimes' = [runtimes EXCEPT ![r] = "none"]
    /\ UNCHANGED <<durable, process, task, capsule, engine, job, call, budget, kept>>

DropClaim(r) ==
    /\ engine[r].at = "removable"
    /\ engine' = [engine EXCEPT ![r].at = "gone"]
    /\ UNCHANGED <<durable, process, runtimes, task, capsule, job, call, budget, kept>>

EngineStep(r) ==
    \/ EngineOutcome(r) \/ EngineStopped(r) \/ EngineCleanup(r) \/ EngineAppend(r)
    \/ RemoveFinished(r) \/ DropClaim(r)

-----------------------------------------------------------------------------
(* Force. *)

force_ok(r) == call' = [call EXCEPT ![force] = [Idle EXCEPT !.at = "done", !.run = r]]

\* prepare_force: an existing runtime owns the cancellation.
RequestForce(r) ==
    /\ Up /\ call[force].at \in {"idle", "done"} /\ ledger[r].state # "absent"
    /\ call' = [call EXCEPT ![force] =
                   [at |-> CASE runtimes[r] = "running" -> "signal"
                             [] runtimes[r] = "preparing" -> "cancel"
                             [] OTHER -> "turn",
                    run |-> r, from |-> None]]
    /\ UNCHANGED <<durable, process, runtimes, task, capsule, engine, job, budget,
                   kept>>

\* ... without one it waits out submissions and looks again.
ForceTurn ==
    LET r == call[force].run IN
    /\ call[force].at = "turn" /\ SubmissionFree
    /\ \/ /\ runtimes[r] # "none"
          /\ go(force, IF runtimes[r] = "running" THEN "signal" ELSE "cancel")
          /\ UNCHANGED ledger
       \/ runtimes[r] = "none" /\ Terminal(r) /\ force_ok(r) /\ UNCHANGED ledger
       \/ /\ runtimes[r] = "none" /\ Open(r)
          /\ ledger' = [ledger EXCEPT ![r].force = TRUE]
          /\ go(force, "rebuild")
    /\ UNCHANGED <<root, doc, repository, process, runtimes, task, capsule, engine,
                   job, budget, kept>>

ForceCancel ==
    LET r == call[force].run IN
    /\ call[force].at = "cancel"
    /\ task' = [task EXCEPT ![r].cancel = TRUE]
    /\ go(force, "wait")
    /\ UNCHANGED <<durable, process, runtimes, capsule, engine, job, budget, kept>>

Bug_ForceWaited ==
    LET r == call[force].run IN
    /\ call[force].at = "wait" /\ Finished(r)
    /\ \/ runtimes[r] = "running" /\ go(force, "signal")
       \/ runtimes[r] # "running" /\ force_ok(r)
    /\ UNCHANGED <<durable, process, runtimes, task, capsule, engine, job, budget, kept>>

\* force_preparing, once the task has finished.
ForceWaited ==
    LET r == call[force].run IN
    /\ call[force].at = "wait" /\ Finished(r)
    /\ \/ runtimes[r] = "running" /\ go(force, "signal") /\ UNCHANGED job
       \/ /\ runtimes[r] = "preparing"
          /\ begin(force, "settle", r, TRUE) /\ go(force, "job")
       \/ runtimes[r] = "none" /\ force_ok(r) /\ UNCHANGED job
    /\ UNCHANGED <<durable, process, runtimes, task, capsule, engine, budget, kept>>

\* force_running: the request is recorded, then the call drives the engine too.
ForceSignal ==
    LET r == call[force].run IN
    /\ call[force].at = "signal"
    /\ ledger' = [ledger EXCEPT ![r].force = @ \/ Open(r)]
    /\ go(force, "drive")
    /\ UNCHANGED <<root, doc, repository, process, runtimes, task, capsule, engine,
                   job, budget, kept>>

\* The call's own drive, once the engine is through.  A drive queued between a
\* failed one and fail_runtime is not told apart from one that comes after it;
\* and a run that it closes ends as stopped, also where the code would finish
\* an outcome latched before the engine gave up: Supervisor has both.
ForceDriven ==
    LET r == call[force].run IN
    /\ call[force].at = "drive" /\ engine[r].at \in {"removable", "gone"}
    /\ IF Terminal(r)
       THEN /\ runtimes' = [runtimes EXCEPT ![r] = "none"]
            /\ force_ok(r) /\ UNCHANGED job
       ELSE /\ begin(force, "engine", r, TRUE) /\ go(force, "job")
            /\ UNCHANGED runtimes
    /\ UNCHANGED <<durable, process, task, capsule, engine, budget, kept>>

\* force_reconstructed.
ForceRebuild ==
    LET r == call[force].run IN
    /\ call[force].at = "rebuild" /\ ReconstructedFree
    /\ \/ Terminal(r) /\ force_ok(r) /\ UNCHANGED job
       \/ Open(r) /\ Claimed(r) /\ returns(force) /\ UNCHANGED job
       \/ /\ Open(r) /\ ~Claimed(r)
          /\ begin(force, "rebuild", r, TRUE) /\ go(force, "job")
    /\ UNCHANGED <<durable, process, runtimes, task, capsule, engine, budget, kept>>

ForceStep ==
    \/ ForceTurn \/ ForceCancel \/ ForceWaited \/ ForceSignal \/ ForceDriven
    \/ ForceRebuild

-----------------------------------------------------------------------------
(* The controller process dies and starts again. *)

Crash ==
    /\ budget.crashes < MaxCrashes
    /\ budget' = [budget EXCEPT !.crashes = @ + 1]
    /\ runtimes' = [r \in Runs |-> "none"]
    /\ task' = [r \in Runs |-> NoTask]
    /\ capsule' = [r \in Runs |-> NoCapsule]
    /\ engine' = [r \in Runs |-> NoEngine]
    /\ job' = [w \in Workers |-> NoJob]
    /\ call' = [c \in Callers |-> IF c = boot THEN [Idle EXCEPT !.at = "down"] ELSE Idle]
    /\ process' \in {process, [i \in Identities |-> {}]}
    /\ UNCHANGED <<durable, kept>>

\* A process that outlived its controller exits.
SurvivorExits(i) ==
    /\ \E r \in process[i] : /\ capsule[r].identity # i
                             /\ process' = [process EXCEPT ![i] = @ \ {r}]
    /\ UNCHANGED <<durable, runtimes, task, capsule, engine, job, call, budget, kept>>

\* reconcile_retained_allocations: what a source's document claims against
\* where the workspace is.
Claims == {s \in Runs : doc[s].present /\ doc[s].successor # None}
Unfinished(s) ==
    LET r == doc[s].successor IN
    \/ HasWorkspace(s)
    \/ HasWorkspace(r) /\ (doc[r].from # s \/ doc[r].delivery # doc[s].delivery)

ReconcileDocument(s) ==
    LET r == doc[s].successor IN
    /\ call[boot].at = "down" /\ s \in Claims /\ Unfinished(s)
    /\ \/ /\ HasWorkspace(s) /\ ~HasWorkspace(r)
          /\ doc' = [doc EXCEPT ![s].recoverable = TRUE, ![s].successor = None]
          /\ call' = [call EXCEPT ![boot] = [at |-> "unlink", run |-> r, from |-> None]]
       \/ /\ ~HasWorkspace(s) /\ doc[r].from \in {None, s}
          /\ doc' = [doc EXCEPT ![r].present = TRUE, ![r].from = s,
                                ![r].delivery = doc[s].delivery]
          /\ UNCHANGED call
    /\ UNCHANGED <<ledger, root, repository, process, runtimes, task, capsule,
                   engine, job, budget, kept>>

\* rollback_reconciled_claim's second write.
UnlinkSuccessor ==
    /\ call[boot].at = "unlink"
    /\ doc' = [doc EXCEPT ![call[boot].run] = NoDoc]
    /\ call' = [call EXCEPT ![boot] = [Idle EXCEPT !.at = "down"]]
    /\ UNCHANGED <<ledger, root, repository, process, runtimes, task, capsule,
                   engine, job, budget, kept>>

Reconciled ==
    /\ call[boot].at = "down" /\ \A s \in Claims : ~Unfinished(s)
    /\ go(boot, "runs")
    /\ UNCHANGED <<durable, process, runtimes, task, capsule, engine, job, budget,
                   kept>>

\* reconcile_persisted_runs: every open run is finished as lost, and only then
\* does the controller serve.
ReconcileRun(r) ==
    /\ call[boot].at = "runs" /\ Open(r)
    /\ begin(boot, "lost", r, FALSE) /\ go(boot, "job")
    /\ UNCHANGED <<durable, process, runtimes, task, capsule, engine, budget, kept>>

Serve ==
    /\ call[boot].at = "runs" /\ \A r \in Runs : ~Open(r)
    /\ returns(boot)
    /\ UNCHANGED <<durable, process, runtimes, task, capsule, engine, job, budget,
                   kept>>

BootStep ==
    \/ \E s \in Runs : ReconcileDocument(s) \/ ReconcileRun(s)
    \/ UnlinkSuccessor \/ Reconciled \/ Serve

-----------------------------------------------------------------------------
CallStep ==
    \/ FailOrphaned \/ CreateSuccessor \/ ForceStep
    \/ \E c \in {submit, resume} : StartPreparation(c) \/ StartPreparationFails(c)

Next ==
    \/ \E r \in Runs : \/ Submit(r) \/ RequestForce(r) \/ Discard(r)
                       \/ PreparationStep(r) \/ EngineStep(r)
                       \/ \E s \in Runs : Resume(s, r)
    \/ \E w \in Workers : JobStep(w)
    \/ CallStep \/ BootStep \/ Crash
    \/ \E i \in Identities : SurvivorExits(i)

Spec == Init /\ [][Next]_vars

\* What the runtime owes: every task that can go on does, the preparation's
\* timer fires, a stop request reaches a driving engine.  Clients, agents,
\* hooks and faults owe nothing.  tokio's mutexes are first come, first served,
\* so a call waiting for a turn gets it however many others follow.
PreparationMoves(r) ==
    \/ Allocate(r) \/ ClaimRetained(r) \/ LinkRetained(r) \/ RetainedFails(r)
    \/ RenameRetained(r) \/ Register(r) \/ PreparationCancelled(r)
    \/ PreparationTimeout(r) \/ Handoff(r)

EngineMoves(r) == EngineStopped(r) \/ EngineCleanup(r) \/ EngineAppend(r)

Fairness ==
    /\ \A r \in Runs : /\ WF_vars(PreparationMoves(r)) /\ WF_vars(EngineMoves(r))
                       /\ WF_vars(RemoveFinished(r)) /\ WF_vars(DropClaim(r))
    /\ \A w \in Workers : WF_vars(JobStep(w))
    /\ WF_vars(BootStep)
    /\ \A c \in {submit, resume} : WF_vars(StartPreparation(c))
    /\ WF_vars(CreateSuccessor) /\ SF_vars(FailOrphaned)
    /\ SF_vars(ForceTurn \/ ForceRebuild)
    /\ WF_vars(ForceCancel \/ ForceWaited \/ ForceSignal \/ ForceDriven)

FairSpec == Spec /\ Fairness

-----------------------------------------------------------------------------
(* Properties. *)

Holds(l) == {r \in Runs : root[r] = l}

\* Work an agent may have written, and nobody asked to be thrown away, is in
\* exactly one run directory, and that run is still open, offers it, or is
\* the source of a claim that startup reconciles.
WorkIsKept ==
    \A l \in kept :
        \E r \in Runs :
            /\ Holds(l) = {r}
            /\ Open(r) \/ doc[r].recoverable \/ doc[r].successor # None

\* A recoverable run still has the checkpoints of its lineage.
RecoverableKeepsCheckpoints ==
    \A r \in Runs :
        doc[r].recoverable /\ root[r] \in kept => delivery_of(r) \in repository

\* No two capsules share a process identity, and none runs under an identity
\* in which processes of another run are alive.
IdentitiesAreExclusive ==
    /\ \A i \in Identities : Cardinality({r \in Runs : capsule[r].identity = i}) <= 1
    /\ \A r \in Runs : capsule[r].active => process[capsule[r].identity] \subseteq {r}

\* A run of this process ends only after its processes are gone and its
\* capsule is deregistered.
EndsAfterTeardown ==
    \A r \in Runs : Terminal(r) => ~capsule[r].active

\* A force call that succeeds leaves a run that has ended, unless the run's engine
\* asks for a second drive: force_preparing, told that the preparation handed
\* over, returns before that drive.
ForceEndsTheRun ==
    LET r == call[force].run IN
    call[force].at = "done" => Terminal(r) \/ engine[r].again

\* While serving, a run without an owner is one whose start or cleanup failed.
OpenRunsAreOwned ==
    Up /\ budget.faults = 0 =>
        \A r \in Runs : Open(r) =>
            \/ runtimes[r] # "none"
            \/ \E c \in Callers : call[c].run = r

\* Every force call returns; and whatever preparations are under way, the time comes when
\* none is: each is handed over, or settled as far as it can be.
Preparing(r) == task[r].at \notin {"none", "finished"}
CallsEnd ==
    /\ call[force].at # "idle" ~> call[force].at \in {"idle", "done"}
    /\ (\E r \in Runs : Preparing(r)) ~> (\A r \in Runs : ~Preparing(r))

\* A restarted controller comes to serve.
StartupServes == ~Up ~> Up
=============================================================================
