---------------------------- MODULE RunHostingProofs ----------------------------
(***************************************************************************)
(* Proofs about RunHosting.                                                *)
(*                                                                         *)
(* The invariant IInv relates who is where: the preparation task, the      *)
(* engine and the runtime slot of each run (RunOK), the teardown a worker  *)
(* carries (JobOK), the calls (CallInv) and startup (DownInv), the leased  *)
(* identities (IdentityInv).  A step is first reduced to its effect on     *)
(* these (Effect: what a preparation, an engine, a teardown, a call or     *)
(* startup may touch); each part of the invariant is then shown to         *)
(* survive every effect.  Identities are argued from the actions           *)
(* themselves: a step leases, populates or releases.                       *)
(***************************************************************************)
EXTENDS RunHosting, FiniteSetTheorems, TLAPS

(* Types. *)

States == {"absent", "open", "failed", "stopped", "succeeded"}
TaskAts == {"none", "queued", "link", "rename", "register", "build", "installed",
            "ready", "settle", "finished"}
EngineAts == {"off", "driving", "cleanup", "append", "removable", "gone"}
Exits == {"none", "completed", "failed", "lost", "forced"}
Kinds == {"none", "settle", "init", "lost", "rebuild", "engine"}
Steps == {"none", "check", "destroy", "append", "unslot", "discard"}
CallAts == {"idle", "start", "orphan", "job", "create", "signal", "cancel", "turn",
            "rebuild", "wait", "drive", "done", "down", "unlink", "runs"}
Lineages == Runs \cup {None}

LedgerRecord == [state : States, latched : BOOLEAN, force : BOOLEAN]
DocRecord == [recoverable : BOOLEAN, present : BOOLEAN, delivery : Lineages,
              from : Lineages, successor : Lineages]
TaskRecord == [at : TaskAts, cancel : BOOLEAN,
               failure : {"none", "unavailable", "force_stopped"}, from : Lineages]
CapsuleRecord == [active : BOOLEAN, allocated : BOOLEAN,
                  identity : Identities \cup {NoIdentity},
                  endpoint : BOOLEAN, inherited : BOOLEAN, delivery : Lineages]
EngineRecord == [at : EngineAts, exit : Exits, again : BOOLEAN]
JobRecord == [kind : Kinds, run : Lineages, step : Steps, forced : BOOLEAN]
CallRecord == [at : CallAts, run : Lineages, from : Lineages]

\* What is on disk.
DiskOK ==
    /\ root \in [Runs -> Lineages]
    /\ doc \in [Runs -> DocRecord]
    /\ repository \subseteq Lineages
    /\ kept \subseteq Lineages

\* What the controller process and the host hold.
HostOK ==
    /\ process \in [Identities -> SUBSET Runs]
    /\ capsule \in [Runs -> CapsuleRecord]

\* Where everybody is.
ControlOK ==
    /\ ledger \in [Runs -> LedgerRecord]
    /\ runtimes \in [Runs -> {"none", "preparing", "running"}]
    /\ task \in [Runs -> TaskRecord]
    /\ engine \in [Runs -> EngineRecord]
    /\ job \in [Workers -> JobRecord]
    /\ call \in [Callers -> CallRecord]
    /\ budget \in [crashes : Nat, faults : Nat]

\* The type invariant.
TypeOK == DiskOK /\ HostOK /\ ControlOK

\* Where a preparation is under way, where its capsule is not yet registered, and
\* where there is none.
Preparation == {"queued", "link", "rename", "register", "build", "installed", "ready"}
Unbuilt == {"queued", "link", "rename", "register"}
Resting == {"none", "finished"}

\* A teardown concerns an accepted run at rest, or the run whose own task carries
\* it; by the time it appends the capsule is inactive, and after it the run ended.
JobOK(w) ==
    LET r == job[w].run IN
    job[w].step # "none" =>
        /\ r \in Runs /\ ledger[r].state # "absent"
        /\ w \in Runs => r = w /\ task[w].at = "settle"
        /\ w \in Callers => call[w].at = "job" /\ task[r].at \in Resting
        /\ w = force => call[w].run = r
        /\ job[w].kind = "init" => job[w].step \in {"destroy", "append"}
        /\ job[w].step = "append" => ~capsule[r].active
        /\ job[w].step \in {"unslot", "discard"} => Terminal(r)

JobInv == \A w \in Workers : JobOK(w)

\* Where each call can be, and that one submission or resume is under way at most.
CallPlaces ==
    /\ call[submit].at \in {"idle", "start", "orphan", "job"}
    /\ call[resume].at \in {"idle", "create", "start"}
    /\ call[force].at \notin {"create", "start"}
    /\ call[submit].at = "idle" \/ call[resume].at = "idle"
    /\ \A c \in Callers \ {boot} : call[c].at # "idle" => call[c].run \in Runs
    /\ call[boot].at = "unlink" => call[boot].run \in Runs

\* A run that is about to be started is open and nobody else's.
StartInv ==
    \A c \in {submit, resume} : call[c].at = "start" =>
        LET r == call[c].run IN
        /\ Open(r) /\ task[r].at = "none" /\ engine[r].at = "off"
        /\ call[force].at \in {"rebuild", "job"} => call[force].run # r

\* A resume creates a run that does not exist; a force call is about one that does.
AcceptedInv ==
    /\ call[resume].at = "create" => ledger[call[resume].run].state = "absent"
    /\ call[force].at # "idle" => ledger[call[force].run].state # "absent"

CallInv == CallPlaces /\ StartInv /\ AcceptedInv

\* A handoff has a source.
HandoffInv ==
    \A r \in Runs : task[r].at \in {"link", "rename"} => task[r].from \in Runs

\* The task, the engine, the capsule, the slot and the ledger of one run agree.
RunOK(r) ==
    /\ ledger[r].state = "absent" => task[r].at = "none"
    /\ task[r].at = "none" => ~capsule[r].active /\ engine[r].at = "off"
    /\ task[r].at \in Unbuilt => ~capsule[r].active
    /\ task[r].at \notin Resting => runtimes[r] = "preparing"
    /\ engine[r].at # "off" => Finished(r)
    /\ engine[r].at = "append" => ~capsule[r].active
    /\ engine[r].at \in {"removable", "gone"} => Terminal(r) \/ engine[r].again
    /\ engine[r].again => budget.faults # 0
    /\ Terminal(r) => ~capsule[r].active /\ task[r].at \notin Preparation
    /\ Finished(r) /\ runtimes[r] = "none" => Terminal(r) \/ engine[r].again

RunInv == \A r \in Runs : RunOK(r)

\* A leased identity has the processes of its run only, a registered or registering
\* capsule has one, and no two runs have the same.
IdentityInv ==
    /\ \A r \in Runs :
        /\ capsule[r].identity \in Identities => process[capsule[r].identity] \subseteq {r}
        /\ capsule[r].active \/ task[r].at = "register" => capsule[r].identity \in Identities
    /\ \A q, r \in Runs :
        q # r /\ capsule[q].identity = capsule[r].identity => capsule[q].identity = NoIdentity

\* A controller that does not serve yet has no tasks and no calls.
DownInv ==
    ~Up => /\ \A r \in Runs : task[r].at = "none"
           /\ \A c \in Callers \ {boot} : call[c].at = "idle"

\* OpenRunsAreOwned, with the call named that has yet to start the run.
OwnedInv ==
    Up /\ budget.faults = 0 =>
        \A r \in Runs : Open(r) =>
            \/ runtimes[r] # "none"
            \/ \E c \in {submit, resume} : call[c].at = "start" /\ call[c].run = r

\* The inductive invariant.
IInv == TypeOK /\ HandoffInv /\ JobInv /\ CallInv /\ RunInv /\ IdentityInv /\ DownInv
        /\ ForceEndsTheRun /\ OwnedInv

-----------------------------------------------------------------------------
(* Facts about the names. *)

\* The calls are four different workers and none of them is a run.
LEMMA Names ==
    /\ None \notin Runs
    /\ submit \notin Runs /\ resume \notin Runs /\ force \notin Runs /\ boot \notin Runs
    /\ submit # resume /\ submit # force /\ submit # boot
    /\ resume # force /\ resume # boot /\ force # boot
BY HostingAssumption DEF Runs, None, submit, resume, force, boot

\* The workers are the calls and the runs.
LEMMA WorkerNames ==
    /\ Callers \subseteq Workers /\ Runs \subseteq Workers /\ Runs \cap Callers = {}
    /\ {submit, resume, force, boot} \subseteq Callers
    /\ \A w \in Workers : w \in Runs \/ w \in Callers
    /\ \A w \in Callers : w \in {submit, resume, force, boot}
BY Names DEF Workers, Callers

\* A lineage is a run's or none.
LEMMA LineageNames == None \in Lineages /\ Runs \subseteq Lineages
BY DEF Lineages

\* The constant records are of their types.
LEMMA ConstantTypes ==
    /\ NoDoc \in DocRecord /\ NoTask \in TaskRecord /\ Done \in TaskRecord
    /\ NoCapsule \in CapsuleRecord /\ NoEngine \in EngineRecord
    /\ NoJob \in JobRecord /\ Idle \in CallRecord
BY DEF NoDoc, DocRecord, NoTask, Done, TaskRecord, NoCapsule, CapsuleRecord, NoEngine,
       EngineRecord, NoJob, JobRecord, Idle, CallRecord, Lineages, TaskAts, EngineAts,
       Exits, Kinds, Steps, CallAts

\* The initial state is of the type.
LEMMA TypeInit == Init => TypeOK
<1>1. Init => DiskOK
  BY ConstantTypes DEF Init, DiskOK, Lineages
<1>2. Init => HostOK
  BY ConstantTypes DEF Init, HostOK
<1>3. Init => ControlOK
  BY ConstantTypes DEF Init, ControlOK, LedgerRecord, States
<1> QED
  BY <1>1, <1>2, <1>3 DEF TypeOK

-----------------------------------------------------------------------------
(* What the operators do to the type. *)

\* cleanup_run_directory keeps what is on disk of its type.
LEMMA CleanupDirectoryType ==
    ASSUME DiskOK, NEW r \in Runs, NEW exit, NEW eligible, NEW defer,
           NEW delivery \in Lineages,
           cleanup_run_directory(r, exit, eligible, defer, delivery)
    PROVE  DiskOK'
<1>1. CASE retain_failed_workspace(r, delivery)
  <2> DEFINE new == [doc[r] EXCEPT !.present = TRUE, !.recoverable = TRUE,
                         !.delivery = IF doc[r].delivery = None THEN delivery ELSE doc[r].delivery]
  <2>1. doc \in [Runs -> DocRecord] /\ doc[r] \in DocRecord
    BY DEF DiskOK
  <2>2. new \in DocRecord
    BY <2>1 DEF DocRecord
  <2>3. doc' = [doc EXCEPT ![r] = new]
    BY <1>1, <2>1 DEF retain_failed_workspace, DocRecord
  <2> HIDE DEF new
  <2>4. doc' \in [Runs -> DocRecord]
    BY <2>1, <2>2, <2>3
  <2> QED
    BY <1>1, <2>4 DEF retain_failed_workspace, DiskOK
<1>2. CASE dispose_run_directory(r, exit, defer, delivery)
  BY <1>2 DEF dispose_run_directory, DiskOK, Lineages
<1> QED
  BY <1>1, <1>2 DEF cleanup_run_directory

\* cleanup_state keeps the types.
LEMMA CleanupStateType ==
    ASSUME DiskOK, HostOK, NEW r \in Runs, NEW exit, cleanup_state(r, exit)
    PROVE  DiskOK' /\ HostOK'
<1>1. capsule[r].delivery \in Lineages /\ capsule[r].allocated \in BOOLEAN
  BY DEF HostOK, CapsuleRecord
<1>2. DiskOK'
  BY <1>1, CleanupDirectoryType DEF cleanup_state
<1>3. HostOK'
  BY <1>1, ConstantTypes DEF cleanup_state, HostOK, CapsuleRecord
<1> QED
  BY <1>2, <1>3

\* So does one that fails.
LEMMA CleanupFailsType ==
    ASSUME DiskOK, HostOK, NEW r \in Runs, NEW exit, cleanup_state_fails(r, exit)
    PROVE  DiskOK' /\ HostOK'
BY DEF cleanup_state_fails, untouched, DiskOK, HostOK

\* So does destroy.
LEMMA DestroyType ==
    ASSUME DiskOK, HostOK, NEW r \in Runs, NEW exit, destroy(r, exit)
    PROVE  DiskOK' /\ HostOK'
<1>1. CASE capsule[r].active
  BY <1>1, CleanupStateType DEF destroy
<1>2. CASE ~capsule[r].active
  <2>1. HostOK'
    BY <1>2 DEF destroy, HostOK
  <2>2. CASE untouched
    BY <2>1, <2>2 DEF untouched, DiskOK
  <2>3. CASE cleanup_run_directory(r, exit, TRUE, FALSE, delivery_of(r))
    <3>1. delivery_of(r) \in Lineages
      BY DEF delivery_of, DiskOK, DocRecord, Lineages
    <3> QED
      BY <2>1, <2>3, <3>1, CleanupDirectoryType
  <2> QED
    BY <1>2, <2>2, <2>3 DEF destroy
<1> QED
  BY <1>1, <1>2

\* So does a destroy that fails.
LEMMA DestroyFailsType ==
    ASSUME DiskOK, HostOK, NEW r \in Runs, NEW exit, destroy_fails(r, exit)
    PROVE  DiskOK' /\ HostOK'
<1>1. CASE capsule[r].active
  BY <1>1, CleanupFailsType DEF destroy_fails
<1>2. CASE ~capsule[r].active
  BY <1>2 DEF destroy_fails, untouched, DiskOK, HostOK, Lineages
<1> QED
  BY <1>1, <1>2

\* So does discard_workspace, to its end or part of the way.
LEMMA DiscardType ==
    ASSUME DiskOK, NEW r \in Runs, discard_workspace(r) \/ discard_fails(r)
    PROVE  DiskOK'
<1>1. CASE discard_workspace(r)
  <2>1. doc' \in [Runs -> DocRecord]
    <3>1. [doc[r] EXCEPT !.recoverable = FALSE] \in DocRecord
      BY DEF DiskOK, DocRecord
    <3>2. \/ doc' = [doc EXCEPT ![r] = [doc[r] EXCEPT !.recoverable = FALSE]]
          \/ doc' = doc
      BY <1>1 DEF discard_workspace, untouched, DiskOK
    <3> QED
      BY <3>1, <3>2 DEF DiskOK
  <2>2. /\ root' \in [Runs -> Lineages] /\ repository' \subseteq Lineages
        /\ kept' \subseteq Lineages
    BY <1>1 DEF discard_workspace, untouched, DiskOK, Lineages
  <2> QED
    BY <2>1, <2>2 DEF DiskOK
<1>2. CASE discard_fails(r)
  BY <1>2 DEF discard_fails, DiskOK, DocRecord, Lineages
<1> QED
  BY <1>1, <1>2

\* A teardown that begins is a job.
LEMMA BeginType ==
    ASSUME job \in [Workers -> JobRecord], NEW w \in Workers, NEW kind \in Kinds,
           NEW r \in Runs, NEW f \in BOOLEAN, begin(w, kind, r, f)
    PROVE  /\ job' \in [Workers -> JobRecord]
           /\ \A v \in Workers : v # w => job'[v] = job[v]
           /\ job'[w].kind = kind /\ job'[w].run = r
           /\ job'[w].step = IF kind = "settle" THEN "check" ELSE "destroy"
<1> DEFINE new == [kind |-> kind, run |-> r, forced |-> f,
                   step |-> IF kind = "settle" THEN "check" ELSE "destroy"]
<1>1. new \in JobRecord
  BY DEF JobRecord, Steps, Lineages
<1>2. /\ new.kind = kind /\ new.run = r
      /\ new.step = IF kind = "settle" THEN "check" ELSE "destroy"
  OBVIOUS
<1>3. job' = [job EXCEPT ![w] = new]
  BY DEF begin
<1> HIDE DEF new
<1> QED
  BY <1>1, <1>2, <1>3

\* A document that offers its work again is a document.
LEMMA OfferedDoc ==
    ASSUME NEW d \in DocRecord
    PROVE  [d EXCEPT !.recoverable = TRUE, !.successor = None] \in DocRecord
BY LineageNames DEF DocRecord

\* A preparation that fails settles.
LEMMA FailsType ==
    ASSUME ControlOK, NEW r \in Runs, NEW failure \in {"unavailable", "force_stopped"},
           fails(r, failure)
    PROVE  /\ task' \in [Runs -> TaskRecord] /\ job' \in [Workers -> JobRecord]
           /\ \A q \in Runs : q # r => task'[q] = task[q]
           /\ task'[r].at = "settle"
           /\ \A v \in Workers : v # r => job'[v] = job[v]
           /\ job'[r].kind = "settle" /\ job'[r].run = r /\ job'[r].step = "check"
<1>1. /\ job' \in [Workers -> JobRecord]
      /\ \A v \in Workers : v # r => job'[v] = job[v]
      /\ job'[r].kind = "settle" /\ job'[r].run = r /\ job'[r].step = "check"
  BY BeginType, WorkerNames DEF fails, ControlOK, Kinds
<1>2. task' = [task EXCEPT ![r].at = "settle", ![r].failure = failure]
  BY DEF fails
<1>3. task' \in [Runs -> TaskRecord]
  <2>1. task \in [Runs -> TaskRecord]
    BY DEF ControlOK
  <2>2. [task[r] EXCEPT !.at = "settle", !.failure = failure] \in TaskRecord
    BY <2>1 DEF TaskRecord, TaskAts
  <2>3. task' = [task EXCEPT ![r] = [task[r] EXCEPT !.at = "settle", !.failure = failure]]
    BY <1>2, <2>1 DEF TaskRecord
  <2> QED
    BY <2>1, <2>2, <2>3
<1>4. /\ \A q \in Runs : q # r => task'[q] = task[q]
      /\ task'[r].at = "settle"
  BY <1>2 DEF ControlOK, TaskRecord
<1> QED
  BY <1>1, <1>3, <1>4

\* How a worker's teardown ended: its task finished or settles after all, or the
\* call it was part of goes on.
Ended(w, ok) ==
    /\ \A v \in Workers : v # w => job'[v] = job[v]
    /\ \/ /\ w \in Runs /\ job[w].kind = "init" /\ UNCHANGED <<task, call>>
          /\ job'[w].kind = "settle" /\ job'[w].run = w /\ job'[w].step = "check"
       \/ /\ w \in Runs /\ job[w].kind # "init" /\ UNCHANGED call
          /\ job'[w].step = "none" /\ task'[w].at = "finished"
          /\ \A q \in Runs : q # w => task'[q] = task[q]
       \/ /\ w \in Callers /\ UNCHANGED task
          /\ job'[w].step = "none"
          /\ \A c \in Callers : c # w => call'[c] = call[c]
          /\ w = boot => call'[w].at \in {"runs", "down"}
          /\ w # boot => \/ call'[w].at = "idle"
                         \/ /\ w = force /\ ok
                            /\ call'[w].at = "done" /\ call'[w].run = job[w].run

\* ends does that.
LEMMA EndsEffect ==
    ASSUME ControlOK, NEW w \in Workers, NEW ok \in BOOLEAN, job[w].run \in Runs, ends(w, ok)
    PROVE  /\ task' \in [Runs -> TaskRecord] /\ job' \in [Workers -> JobRecord]
           /\ call' \in [Callers -> CallRecord]
           /\ Ended(w, ok)
<1>0. /\ task \in [Runs -> TaskRecord] /\ job \in [Workers -> JobRecord]
      /\ call \in [Callers -> CallRecord]
  BY DEF ControlOK
<1>1. CASE w \in Runs /\ job[w].kind = "init"
  <2>1. begin(w, "settle", w, FALSE) /\ UNCHANGED <<task, call>>
    BY <1>1 DEF ends
  <2>2. /\ job' \in [Workers -> JobRecord]
        /\ \A v \in Workers : v # w => job'[v] = job[v]
        /\ job'[w].kind = "settle" /\ job'[w].run = w /\ job'[w].step = "check"
    BY <1>0, <1>1, <2>1, BeginType DEF Kinds
  <2> QED
    BY <1>0, <1>1, <2>1, <2>2 DEF Ended
<1>2. NoJob \in JobRecord /\ NoJob.step = "none" /\ Done \in TaskRecord /\ Done.at = "finished"
  BY ConstantTypes DEF NoJob, Done, NoTask
<1>3. CASE w \in Runs /\ job[w].kind # "init"
  <2>1. /\ job' = [job EXCEPT ![w] = NoJob] /\ UNCHANGED call
        /\ task' = [task EXCEPT ![w] = IF runtimes'[w] = "none" THEN Done
                                       ELSE [task[w] EXCEPT !.at = "finished"]]
    BY <1>3 DEF ends
  <2>2. /\ [task[w] EXCEPT !.at = "finished"] \in TaskRecord
        /\ [task[w] EXCEPT !.at = "finished"].at = "finished"
    BY <1>0, <1>3 DEF TaskRecord, TaskAts
  <2>3. PICK t \in TaskRecord : t.at = "finished" /\ task' = [task EXCEPT ![w] = t]
    BY <1>2, <2>1, <2>2
  <2>4. task' \in [Runs -> TaskRecord] /\ task'[w].at = "finished"
        /\ \A q \in Runs : q # w => task'[q] = task[q]
    BY <1>0, <1>3, <2>3
  <2>5. /\ job' \in [Workers -> JobRecord] /\ job'[w].step = "none"
        /\ \A v \in Workers : v # w => job'[v] = job[v]
    BY <1>0, <1>2, <2>1
  <2> QED
    BY <1>0, <1>3, <2>1, <2>4, <2>5 DEF Ended
<1>4. CASE w \notin Runs
  <2>0. w \in Callers
    BY <1>4, WorkerNames
  <2> DEFINE new == CASE w = boot -> [Idle EXCEPT !.at = IF ok THEN "runs" ELSE "down"]
                      [] w = force /\ ok -> [Idle EXCEPT !.at = "done", !.run = job[w].run]
                      [] OTHER -> Idle
  <2>1. job' = [job EXCEPT ![w] = NoJob] /\ UNCHANGED task /\ call' = [call EXCEPT ![w] = new]
    BY <1>4 DEF ends
  <2>2. w = boot => new \in CallRecord /\ new.at \in {"runs", "down"}
    <3> SUFFICES ASSUME w = boot PROVE new \in CallRecord /\ new.at \in {"runs", "down"}
      OBVIOUS
    <3>1. new = [at |-> IF ok THEN "runs" ELSE "down", run |-> None, from |-> None]
      BY Names DEF Idle
    <3> QED
      BY <3>1 DEF CallRecord, CallAts, Lineages
  <2>3. w # boot => /\ new \in CallRecord
                    /\ \/ new.at = "idle"
                       \/ w = force /\ ok /\ new.at = "done" /\ new.run = job[w].run
    <3> SUFFICES ASSUME w # boot
                 PROVE  /\ new \in CallRecord
                        /\ \/ new.at = "idle"
                           \/ w = force /\ ok /\ new.at = "done" /\ new.run = job[w].run
      OBVIOUS
    <3>1. CASE w = force /\ ok
      <4>1. new = [at |-> "done", run |-> job[w].run, from |-> None]
        BY <3>1 DEF Idle
      <4> QED
        BY <3>1, <4>1 DEF CallRecord, CallAts, Lineages
    <3>2. CASE ~(w = force /\ ok)
      <4>1. new = Idle
        BY <3>2
      <4> QED
        BY <4>1, ConstantTypes DEF Idle
    <3> QED
      BY <3>1, <3>2
  <2> HIDE DEF new
  <2>4. /\ job' \in [Workers -> JobRecord] /\ job'[w].step = "none"
        /\ \A v \in Workers : v # w => job'[v] = job[v]
    BY <1>0, <1>2, <2>1
  <2>5. /\ call' \in [Callers -> CallRecord] /\ call'[w] = new
        /\ \A c \in Callers : c # w => call'[c] = call[c]
    BY <1>0, <2>0, <2>1, <2>2, <2>3
  <2> QED
    BY <1>0, <2>0, <2>1, <2>2, <2>3, <2>4, <2>5 DEF Ended
<1> QED
  BY <1>1, <1>3, <1>4

-----------------------------------------------------------------------------
(* The preparation task. *)

\* What the control of a run is made of.
SameRun(q) ==
    /\ ledger'[q].state = ledger[q].state
    /\ task'[q].at = task[q].at /\ task'[q].from = task[q].from
    /\ engine'[q] = engine[q] /\ capsule'[q].active = capsule[q].active
    /\ runtimes'[q] = runtimes[q]

\* The run has ended after the step.
EndedNow(q) == ledger'[q].state \in {"failed", "stopped", "succeeded"}

\* The bound on faults is used up one way only.
FaultsGrow == budget'.faults = 0 => budget.faults = 0

\* A preparation goes on, is settled, or is handed to the engine.
Progresses(r) ==
    /\ task'[r].at \in Preparation /\ UNCHANGED <<job, runtimes, engine>>
    /\ task'[r].at \in Unbuilt => task[r].at \in Unbuilt /\ capsule'[r].active = capsule[r].active
    /\ task'[r].at \in {"link", "rename"} => task'[r].from \in Runs

Settles(r) ==
    /\ task'[r].at = "settle" /\ UNCHANGED <<runtimes, engine>>
    /\ job'[r].run = r
    /\ \/ job'[r].kind = "settle" /\ job'[r].step = "check"
       \/ job'[r].kind = "init" /\ job'[r].step = "destroy"

HandsOver(r) ==
    /\ task'[r].at = "finished" /\ runtimes'[r] = "running" /\ UNCHANGED job
    /\ engine'[r].at = "driving" /\ engine'[r].again = engine[r].again

Prepared(r) ==
    /\ task[r].at \in Preparation
    /\ UNCHANGED <<ledger, call>> /\ FaultsGrow
    /\ \A q \in Runs : q # r => SameRun(q)
    /\ \A w \in Workers : w # r => job'[w] = job[w]
    /\ Progresses(r) \/ Settles(r) \/ HandsOver(r)

\* A fault is counted.
LEMMA FaultType ==
    ASSUME ControlOK, Fault
    PROVE  budget' \in [crashes : Nat, faults : Nat] /\ budget'.faults # 0 /\ FaultsGrow
<1>1. budget.faults \in Nat /\ budget \in [crashes : Nat, faults : Nat]
  BY DEF ControlOK
<1>2. budget' = [budget EXCEPT !.faults = budget.faults + 1]
  BY DEF Fault
<1>3. \A n \in Nat : n + 1 \in Nat /\ n + 1 # 0
  OBVIOUS
<1> QED
  BY <1>1, <1>2, <1>3 DEF FaultsGrow

\* A preparation that only fails, with the capsule of another run left alone.
LEMMA FailedPreparation ==
    ASSUME TypeOK, NEW r \in Runs, NEW failure \in {"unavailable", "force_stopped"},
           fails(r, failure), task[r].at \in Preparation,
           UNCHANGED <<ledger, runtimes, engine, call>>,
           FaultsGrow, budget' \in [crashes : Nat, faults : Nat],
           \A q \in Runs : q # r => capsule'[q].active = capsule[q].active
    PROVE  ControlOK' /\ Prepared(r)
<1>1. /\ task' \in [Runs -> TaskRecord] /\ job' \in [Workers -> JobRecord]
      /\ \A q \in Runs : q # r => task'[q] = task[q]
      /\ task'[r].at = "settle"
      /\ \A v \in Workers : v # r => job'[v] = job[v]
      /\ job'[r].kind = "settle" /\ job'[r].run = r /\ job'[r].step = "check"
  BY FailsType DEF TypeOK
<1>2. ControlOK'
  BY <1>1 DEF TypeOK, ControlOK
<1>3. Settles(r) /\ \A q \in Runs : q # r => SameRun(q)
  BY <1>1 DEF Settles, SameRun
<1> QED
  BY <1>1, <1>2, <1>3 DEF Prepared

\* A preparation that goes on to another place.
LEMMA PreparationGoesOn ==
    ASSUME TypeOK, NEW r \in Runs, NEW at \in Preparation,
           task' = [task EXCEPT ![r].at = at], task[r].at \in Preparation,
           at \in Unbuilt => task[r].at \in Unbuilt /\ capsule'[r].active = capsule[r].active,
           at \in {"link", "rename"} => task[r].from \in Runs,
           UNCHANGED <<ledger, runtimes, engine, job, call, budget>>,
           \A q \in Runs : q # r => capsule'[q].active = capsule[q].active
    PROVE  ControlOK' /\ Prepared(r)
<1>0. task \in [Runs -> TaskRecord] /\ at \in TaskAts
  BY DEF TypeOK, ControlOK, Preparation, TaskAts
<1>1. /\ [task[r] EXCEPT !.at = at] \in TaskRecord /\ [task[r] EXCEPT !.at = at].at = at
      /\ [task[r] EXCEPT !.at = at].from = task[r].from
  BY <1>0 DEF TaskRecord
<1>2. task' = [task EXCEPT ![r] = [task[r] EXCEPT !.at = at]]
  BY <1>0
<1>3. /\ task' \in [Runs -> TaskRecord] /\ task'[r].at = at /\ task'[r].from = task[r].from
      /\ \A q \in Runs : q # r => task'[q] = task[q]
  BY <1>0, <1>1, <1>2
<1>4. ControlOK'
  BY <1>3 DEF TypeOK, ControlOK
<1>5. Progresses(r) /\ (\A q \in Runs : q # r => SameRun(q)) /\ FaultsGrow
  BY <1>3 DEF Progresses, SameRun, FaultsGrow
<1> QED
  BY <1>4, <1>5 DEF Prepared

\* What a capsule update does to the type and to the other capsules.
LEMMA CapsuleUpdate ==
    ASSUME HostOK, NEW r \in Runs, NEW c \in CapsuleRecord, UNCHANGED process,
           capsule' = [capsule EXCEPT ![r] = c]
    PROVE  HostOK' /\ capsule'[r] = c /\ \A q \in Runs : q # r => capsule'[q] = capsule[q]
BY DEF HostOK

\* cleanup_state touches one capsule and deactivates it.
LEMMA CleanupStateHost ==
    ASSUME HostOK, NEW r \in Runs, NEW exit, cleanup_state(r, exit)
    PROVE  /\ \A q \in Runs : q # r => capsule'[q] = capsule[q]
           /\ ~capsule'[r].active /\ capsule'[r].identity = NoIdentity
<1> DEFINE new == [NoCapsule EXCEPT !.allocated = capsule[r].allocated,
                                    !.delivery = capsule[r].delivery]
<1>1. capsule' = [capsule EXCEPT ![r] = new]
  BY DEF cleanup_state
<1>2. ~new.active /\ new.identity = NoIdentity
  BY DEF NoCapsule
<1> HIDE DEF new
<1> QED
  BY <1>1, <1>2 DEF HostOK

\* The allocation and the claim of retained work.
LEMMA AllocationEffect ==
    ASSUME TypeOK, HandoffInv, NEW r \in Runs,
           Allocate(r) \/ ClaimRetained(r) \/ LinkRetained(r) \/ RetainedFails(r)
    PROVE  TypeOK' /\ Prepared(r)
<1>0. /\ DiskOK /\ HostOK /\ ControlOK /\ budget \in [crashes : Nat, faults : Nat]
      /\ capsule \in [Runs -> CapsuleRecord] /\ doc \in [Runs -> DocRecord]
      /\ task[r].from \in Lineages
  BY DEF TypeOK, HostOK, ControlOK, DiskOK, TaskRecord
<1>1. CASE Allocate(r)
  <2>1. task[r].at = "queued" /\ UNCHANGED <<durable, process, runtimes, engine, call, budget, kept>>
    BY <1>1 DEF Allocate
  <2>2. DiskOK' /\ UNCHANGED <<ledger, runtimes, engine, call, budget>> /\ FaultsGrow
    BY <1>0, <2>1 DEF DiskOK, durable, FaultsGrow
  <2>3. CASE capsule[r].allocated \/ ~MayLease
    <3>1. fails(r, "unavailable") /\ capsule' = [capsule EXCEPT ![r].allocated = TRUE]
      BY <1>1, <2>3 DEF Allocate
    <3>2. HostOK' /\ \A q \in Runs : q # r => capsule'[q].active = capsule[q].active
      BY <1>0, <2>1, <3>1 DEF HostOK, CapsuleRecord
    <3>3. ControlOK' /\ Prepared(r)
      BY <1>0, <2>1, <2>2, <3>1, <3>2, FailedPreparation DEF Preparation
    <3> QED
      BY <2>2, <3>2, <3>3 DEF TypeOK
  <2>4. CASE ~(capsule[r].allocated \/ ~MayLease)
    <3>1. PICK i \in Acquired :
             capsule' = [capsule EXCEPT ![r].allocated = TRUE, ![r].identity = i, ![r].delivery = r]
      BY <1>1, <2>4 DEF Allocate
    <3>2. task' = [task EXCEPT ![r].at = "register"] /\ UNCHANGED job
      BY <1>1, <2>4 DEF Allocate
    <3>3. HostOK' /\ \A q \in Runs : capsule'[q].active = capsule[q].active
      <4> DEFINE new == [capsule[r] EXCEPT !.allocated = TRUE, !.identity = i, !.delivery = r]
      <4>1. new \in CapsuleRecord /\ new.active = capsule[r].active
        BY <1>0, <3>1 DEF CapsuleRecord, Acquired, Lineages
      <4>2. capsule' = [capsule EXCEPT ![r] = new]
        BY <1>0, <3>1 DEF CapsuleRecord
      <4> HIDE DEF new
      <4> QED
        BY <1>0, <2>1, <4>1, <4>2 DEF HostOK
    <3>4. ControlOK' /\ Prepared(r)
      BY <1>0, <2>1, <2>2, <3>2, <3>3, PreparationGoesOn DEF Preparation, Unbuilt
    <3> QED
      BY <2>2, <3>3, <3>4 DEF TypeOK
  <2> QED
    BY <2>3, <2>4
<1>2. CASE ClaimRetained(r)
  <2> DEFINE s == task[r].from
  <2>1. /\ task[r].at = "queued" /\ s \in Runs
        /\ UNCHANGED <<ledger, root, repository, process, runtimes, capsule, engine, call,
                       budget, kept>>
    BY <1>0, <1>2 DEF ClaimRetained, Lineages
  <2>2. HostOK' /\ FaultsGrow
    BY <1>0, <2>1 DEF HostOK, FaultsGrow
  <2>3. CASE fails(r, "unavailable") /\ UNCHANGED doc
    <3>1. DiskOK'
      BY <1>0, <2>1, <2>3 DEF DiskOK
    <3>2. ControlOK' /\ Prepared(r)
      BY <1>0, <2>1, <2>2, <2>3, FailedPreparation DEF Preparation
    <3> QED
      BY <2>2, <3>1, <3>2 DEF TypeOK
  <2>4. CASE /\ doc' = [doc EXCEPT ![s].recoverable = FALSE, ![s].successor = r,
                                   ![s].delivery = delivery_of(s)]
             /\ task' = [task EXCEPT ![r].at = "link"] /\ UNCHANGED job
    <3>0. delivery_of(s) \in Lineages
      BY <1>0, <2>1 DEF delivery_of, DocRecord, Lineages
    <3>1. doc' \in [Runs -> DocRecord]
      <4> DEFINE new == [doc[s] EXCEPT !.recoverable = FALSE, !.successor = r,
                                       !.delivery = delivery_of(s)]
      <4>1. new \in DocRecord
        BY <1>0, <2>1, <3>0, LineageNames DEF DocRecord
      <4>2. doc' = [doc EXCEPT ![s] = new]
        BY <1>0, <2>1, <2>4 DEF DocRecord
      <4> HIDE DEF new
      <4> QED
        BY <1>0, <2>1, <4>1, <4>2
    <3>2. DiskOK'
      BY <1>0, <2>1, <3>1 DEF DiskOK
    <3>3. ControlOK' /\ Prepared(r)
      BY <1>0, <2>1, <2>4, PreparationGoesOn DEF Preparation, Unbuilt
    <3> QED
      BY <2>2, <3>2, <3>3 DEF TypeOK
  <2> QED
    BY <1>2, <2>3, <2>4 DEF ClaimRetained
<1>3. CASE LinkRetained(r)
  <2> DEFINE s == task[r].from
  <2>1. /\ task[r].at = "link"
        /\ UNCHANGED <<ledger, root, repository, process, runtimes, capsule, engine, job, call,
                       budget, kept>>
        /\ task' = [task EXCEPT ![r].at = "rename"]
        /\ doc' = [doc EXCEPT ![r] = [present |-> TRUE, recoverable |-> FALSE,
                                  delivery |-> doc[s].delivery, from |-> s,
                                  successor |-> None]]
    BY <1>3 DEF LinkRetained
  <2>2. HostOK'
    BY <1>0, <2>1 DEF HostOK
  <2>3. s \in Runs /\ doc[s].delivery \in Lineages
    BY <1>0, <2>1 DEF DocRecord, HandoffInv
  <2>4. DiskOK'
    BY <1>0, <2>1, <2>3 DEF DiskOK, DocRecord, Lineages
  <2>5. ControlOK' /\ Prepared(r)
    BY <1>0, <2>1, <2>3, PreparationGoesOn DEF Preparation, Unbuilt
  <2> QED
    BY <2>2, <2>4, <2>5 DEF TypeOK
<1>4. CASE RetainedFails(r)
  <2> DEFINE s == task[r].from
  <2>1. /\ task[r].at \in {"link", "rename"} /\ fails(r, "unavailable") /\ s \in Runs
        /\ UNCHANGED <<ledger, root, repository, process, runtimes, capsule, engine, call, kept>>
    BY <1>4 DEF RetainedFails, HandoffInv
  <2>0. PICK broken \in SUBSET {"source", "successor"} :
           \E cost \in {Cardinality(broken) + 0, Cardinality(broken) + 1} :
              /\ budget' = [budget EXCEPT !.faults = @ + cost]
              /\ rollback_retained_claim(r, broken)
    <3>1. PICK broken \in SUBSET {"source", "successor"} :
             LET gone == task[r].at = "rename" /\ ~HasWorkspace(task[r].from)
                 cost == Cardinality(broken) + IF gone THEN 0 ELSE 1 IN
             /\ budget.faults + cost <= MaxFaults
             /\ budget' = [budget EXCEPT !.faults = @ + cost]
             /\ rollback_retained_claim(r, broken)
      BY <1>4 DEF RetainedFails
    <3> QED
      BY <3>1
  <2>2. PICK cost \in {Cardinality(broken) + 0, Cardinality(broken) + 1} :
           /\ budget' = [budget EXCEPT !.faults = @ + cost]
           /\ rollback_retained_claim(r, broken)
    BY <2>0
  <2>3. cost \in Nat
    <3>1. IsFiniteSet({"source", "successor"})
      <4>1. IsFiniteSet({"source"})
        BY FS_Singleton
      <4>2. {"source", "successor"} = {"source"} \cup {"successor"}
        OBVIOUS
      <4> QED
        BY <4>1, <4>2, FS_AddElement
    <3>2. Cardinality(broken) \in Nat
      BY <3>1, FS_Subset, FS_CardinalityType
    <3> QED
      BY <2>2, <3>2
  <2>4. budget' \in [crashes : Nat, faults : Nat] /\ FaultsGrow
    <3>1. budget' = [budget EXCEPT !.faults = budget.faults + cost] /\ budget.faults \in Nat
      BY <1>0, <2>2
    <3>2. \A m, n \in Nat : m + n \in Nat /\ (m + n = 0 => m = 0)
      OBVIOUS
    <3> QED
      BY <1>0, <2>3, <3>1, <3>2 DEF FaultsGrow
  <2>5. doc' \in [Runs -> DocRecord]
    <3> DEFINE a == IF "source" \in broken THEN doc[s]
                    ELSE [doc[s] EXCEPT !.recoverable = TRUE, !.successor = None]
    <3>1. a \in DocRecord
      <4>1. doc[s] \in DocRecord
        BY <1>0, <2>1
      <4> QED
        BY <4>1, OfferedDoc
    <3>2. PICK b \in {NoDoc, doc[r]} : doc' = [doc EXCEPT ![s] = a, ![r] = b]
      BY <2>2 DEF rollback_retained_claim
    <3> HIDE DEF a
    <3>3. b \in DocRecord
      BY <1>0, <3>2, ConstantTypes
    <3> QED
      BY <1>0, <2>1, <3>1, <3>2, <3>3
  <2>6. DiskOK' /\ HostOK'
    BY <1>0, <2>1, <2>5 DEF DiskOK, HostOK
  <2>7. ControlOK' /\ Prepared(r)
    BY <1>0, <2>1, <2>4, FailedPreparation DEF Preparation
  <2> QED
    BY <2>6, <2>7 DEF TypeOK
<1> QED
  BY <1>1, <1>2, <1>3, <1>4

\* The workspace moves, the capsule is registered, built and finished.
LEMMA BuildEffect ==
    ASSUME TypeOK, HandoffInv, IdentityInv, NEW r \in Runs,
           RenameRetained(r) \/ Register(r) \/ Install(r) \/ FinishCapsule(r)
    PROVE  TypeOK' /\ Prepared(r)
<1>0. /\ DiskOK /\ HostOK /\ ControlOK /\ budget \in [crashes : Nat, faults : Nat]
      /\ capsule \in [Runs -> CapsuleRecord] /\ doc \in [Runs -> DocRecord]
      /\ root \in [Runs -> Lineages]
      /\ doc[r].delivery \in Lineages /\ capsule[r].delivery \in Lineages
  BY DEF TypeOK, HostOK, ControlOK, DiskOK, DocRecord, CapsuleRecord
<1>1. CASE RenameRetained(r)
  <2> DEFINE s == task[r].from
  <2>1. /\ task[r].at = "rename" /\ s \in Runs
        /\ root' = [root EXCEPT ![r] = root[s], ![s] = None]
        /\ UNCHANGED <<ledger, repository, process, runtimes, engine, call, budget, kept>>
    BY <1>1 DEF RenameRetained, HandoffInv
  <2>2. root' \in [Runs -> Lineages] /\ FaultsGrow
    BY <1>0, <2>1, LineageNames DEF FaultsGrow
  <2>3. CASE MayLease
    <3>1. PICK i \in Acquired :
             capsule' = [capsule EXCEPT ![r].identity = i, ![r].delivery = doc[r].delivery,
                                        ![r].inherited = TRUE]
      BY <1>1, <2>3, ZenonT(30) DEF RenameRetained
    <3>2. task' = [task EXCEPT ![r].at = "register"] /\ UNCHANGED <<job, doc>>
      BY <1>1, <2>3 DEF RenameRetained
    <3>3. HostOK' /\ \A q \in Runs : capsule'[q].active = capsule[q].active
      <4> DEFINE new == [capsule[r] EXCEPT !.identity = i, !.delivery = doc[r].delivery,
                                           !.inherited = TRUE]
      <4>1. new \in CapsuleRecord /\ new.active = capsule[r].active
        BY <1>0, <3>1 DEF CapsuleRecord, Acquired
      <4>2. capsule' = [capsule EXCEPT ![r] = new]
        BY <1>0, <3>1 DEF CapsuleRecord
      <4> HIDE DEF new
      <4> QED
        BY <1>0, <2>1, <4>1, <4>2 DEF HostOK
    <3>4. ControlOK' /\ Prepared(r)
      BY <1>0, <2>1, <3>2, <3>3, PreparationGoesOn DEF Preparation, Unbuilt
    <3> QED
      BY <1>0, <2>1, <2>2, <3>2, <3>3, <3>4, SMTT(20) DEF TypeOK, DiskOK
  <2>4. CASE ~MayLease
    <3>1. /\ doc' = [doc EXCEPT ![r].recoverable = TRUE] /\ fails(r, "unavailable")
          /\ UNCHANGED capsule
      BY <1>1, <2>4 DEF RenameRetained
    <3>2. doc' \in [Runs -> DocRecord]
      BY <1>0, <3>1 DEF DocRecord
    <3>3. ControlOK' /\ Prepared(r)
      BY <1>0, <2>1, <2>2, <3>1, FailedPreparation DEF Preparation
    <3> QED
      BY <1>0, <2>1, <2>2, <3>1, <3>2, <3>3 DEF TypeOK, DiskOK, HostOK
  <2> QED
    BY <2>3, <2>4, SMTT(20)
<1>2. CASE Register(r)
  <2>1. /\ task[r].at = "register" /\ task' = [task EXCEPT ![r].at = "build"]
        /\ capsule' = [capsule EXCEPT ![r].active = TRUE]
        /\ root' = [root EXCEPT ![r] = IF capsule[r].inherited THEN @ ELSE r]
        /\ process' = [process EXCEPT ![capsule[r].identity] = @ \cup {r}]
        /\ UNCHANGED <<ledger, doc, repository, runtimes, engine, job, call, budget, kept>>
    BY <1>2 DEF Register
  <2>2. DiskOK'
    BY <1>0, <2>1, LineageNames DEF DiskOK
  <2>3. capsule' \in [Runs -> CapsuleRecord] /\ \A q \in Runs : q # r => capsule'[q] = capsule[q]
    <3> DEFINE new == [capsule[r] EXCEPT !.active = TRUE]
    <3>1. new \in CapsuleRecord
      BY <1>0 DEF CapsuleRecord
    <3>2. capsule' = [capsule EXCEPT ![r] = new]
      BY <1>0, <2>1
    <3> HIDE DEF new
    <3> QED
      BY <1>0, <3>1, <3>2
  <2>4. process' \in [Identities -> SUBSET Runs]
    BY <1>0, <2>1 DEF HostOK
  <2>5. ControlOK' /\ Prepared(r)
    BY <1>0, <2>1, <2>3, PreparationGoesOn DEF Preparation, Unbuilt
  <2> QED
    BY <2>2, <2>3, <2>4, <2>5 DEF TypeOK, HostOK
<1>3. CASE Install(r)
  <2>1. /\ task[r].at = "build" /\ task' = [task EXCEPT ![r].at = "installed"]
        /\ repository' = repository \cup {capsule[r].delivery}
        /\ UNCHANGED <<ledger, root, doc, process, runtimes, capsule, engine, job, call, budget,
                       kept>>
    BY <1>3 DEF Install
  <2>2. DiskOK' /\ HostOK'
    BY <1>0, <2>1 DEF DiskOK, HostOK
  <2>3. ControlOK' /\ Prepared(r)
    BY <1>0, <2>1, PreparationGoesOn DEF Preparation, Unbuilt
  <2> QED
    BY <2>2, <2>3 DEF TypeOK
<1>4. CASE FinishCapsule(r)
  <2>1. /\ task[r].at = "installed" /\ task' = [task EXCEPT ![r].at = "ready"]
        /\ capsule' = [capsule EXCEPT ![r].endpoint = TRUE, ![r].allocated = TRUE]
        /\ UNCHANGED <<ledger, root, doc, repository, process, runtimes, engine, job, call,
                       budget, kept>>
    BY <1>4 DEF FinishCapsule, durable
  <2>2. DiskOK'
    BY <1>0, <2>1 DEF DiskOK
  <2>3. HostOK' /\ \A q \in Runs : q # r => capsule'[q] = capsule[q]
    <3> DEFINE new == [capsule[r] EXCEPT !.endpoint = TRUE, !.allocated = TRUE]
    <3>1. new \in CapsuleRecord
      BY <1>0 DEF CapsuleRecord
    <3>2. capsule' = [capsule EXCEPT ![r] = new]
      BY <1>0, <2>1 DEF CapsuleRecord
    <3>3. UNCHANGED process
      BY <2>1
    <3> HIDE DEF new
    <3> QED
      BY <1>0, <3>1, <3>2, <3>3, CapsuleUpdate
  <2>4. ControlOK' /\ Prepared(r)
    BY <1>0, <2>1, <2>3, PreparationGoesOn DEF Preparation, Unbuilt
  <2> QED
    BY <2>2, <2>3, <2>4 DEF TypeOK
<1> QED
  BY <1>1, <1>2, <1>3, <1>4

\* A build that fails, a preparation that is cancelled or times out.
LEMMA AbortEffect ==
    ASSUME TypeOK, NEW r \in Runs,
           BuildFails(r) \/ PreparationCancelled(r) \/ PreparationTimeout(r)
    PROVE  TypeOK' /\ Prepared(r)
<1>0. /\ DiskOK /\ HostOK /\ ControlOK /\ budget \in [crashes : Nat, faults : Nat]
      /\ capsule \in [Runs -> CapsuleRecord]
  BY DEF TypeOK, HostOK, ControlOK
<1>1. CASE BuildFails(r)
  <2>1. PICK exit : \/ cleanup_state(r, exit) /\ Sound
                    \/ cleanup_state_fails(r, exit) /\ Faulty /\ Fault
    BY <1>1 DEF BuildFails
  <2>2. /\ task[r].at \in {"build", "installed"} /\ fails(r, "unavailable")
        /\ UNCHANGED <<ledger, runtimes, engine, call>>
    BY <1>1 DEF BuildFails
  <2>3. DiskOK' /\ HostOK'
    BY <1>0, <2>1, CleanupStateType, CleanupFailsType
  <2>4. \A q \in Runs : q # r => capsule'[q].active = capsule[q].active
    BY <1>0, <2>1, CleanupStateHost DEF cleanup_state_fails
  <2>5. budget' \in [crashes : Nat, faults : Nat] /\ FaultsGrow
    BY <1>0, <2>1, FaultType DEF Sound, FaultsGrow
  <2>6. ControlOK' /\ Prepared(r)
    BY <1>0, <2>2, <2>4, <2>5, FailedPreparation DEF Preparation
  <2> QED
    BY <2>3, <2>6 DEF TypeOK
<1>2. CASE PreparationCancelled(r) \/ PreparationTimeout(r)
  <2>1. PICK failure \in {"unavailable", "force_stopped"} :
           /\ Awaiting(r) /\ dropped(r) /\ fails(r, failure)
           /\ UNCHANGED <<ledger, root, doc, repository, process, runtimes, engine, call, budget,
                          kept>>
    BY <1>2 DEF PreparationCancelled, PreparationTimeout, durable
  <2>2. HostOK' /\ \A q \in Runs : q # r => capsule'[q] = capsule[q]
    BY <1>0, <2>1 DEF dropped, HostOK, CapsuleRecord
  <2>3. DiskOK' /\ budget' \in [crashes : Nat, faults : Nat] /\ FaultsGrow
    BY <1>0, <2>1 DEF DiskOK, FaultsGrow
  <2>4. ControlOK' /\ Prepared(r)
    BY <1>0, <2>1, <2>2, <2>3, FailedPreparation DEF Preparation, Awaiting
  <2> QED
    BY <2>2, <2>3, <2>4 DEF TypeOK
<1> QED
  BY <1>1, <1>2

\* The handoff to the engine, and one that fails.
LEMMA HandoffEffect ==
    ASSUME TypeOK, NEW r \in Runs, Handoff(r) \/ HandoffFails(r)
    PROVE  TypeOK' /\ Prepared(r)
<1>0. /\ DiskOK /\ HostOK /\ ControlOK /\ budget \in [crashes : Nat, faults : Nat]
      /\ task \in [Runs -> TaskRecord] /\ engine \in [Runs -> EngineRecord]
      /\ runtimes \in [Runs -> {"none", "preparing", "running"}]
      /\ job \in [Workers -> JobRecord]
  BY DEF TypeOK, HostOK, ControlOK
<1>1. CASE Handoff(r)
  <2>1. /\ task[r].at = "ready"
        /\ UNCHANGED <<ledger, root, doc, repository, process, capsule, call, budget>>
    BY <1>1 DEF Handoff, durable
  <2>2. HostOK' /\ FaultsGrow
    BY <1>0, <2>1 DEF HostOK, FaultsGrow
  <2>3. CASE task[r].cancel
    <3>1. fails(r, "force_stopped") /\ UNCHANGED <<runtimes, engine, kept>>
      BY <1>1, <2>3 DEF Handoff
    <3>2. DiskOK'
      BY <1>0, <2>1, <3>1 DEF DiskOK
    <3>3. ControlOK' /\ Prepared(r)
      BY <1>0, <2>1, <2>2, <3>1, FailedPreparation DEF Preparation
    <3> QED
      BY <2>2, <3>2, <3>3 DEF TypeOK
  <2>4. CASE ~task[r].cancel
    <3>1. /\ runtimes' = [runtimes EXCEPT ![r] = "running"]
          /\ engine' = [engine EXCEPT ![r].at = "driving"]
          /\ task' = [task EXCEPT ![r] = Done]
          /\ kept' = kept \cup {root[r]} /\ UNCHANGED job
      BY <1>1, <2>4 DEF Handoff
    <3>2. DiskOK'
      BY <1>0, <2>1, <3>1 DEF DiskOK
    <3>3. /\ runtimes' \in [Runs -> {"none", "preparing", "running"}] /\ runtimes'[r] = "running"
          /\ \A q \in Runs : q # r => runtimes'[q] = runtimes[q]
      BY <1>0, <3>1
    <3>4. /\ engine' \in [Runs -> EngineRecord] /\ engine'[r].at = "driving"
          /\ engine'[r].again = engine[r].again
          /\ \A q \in Runs : q # r => engine'[q] = engine[q]
      BY <1>0, <3>1 DEF EngineRecord, EngineAts
    <3>5. Done.at = "finished" /\ Done \in TaskRecord
      BY ConstantTypes DEF Done, NoTask
    <3>6. /\ task' \in [Runs -> TaskRecord] /\ task'[r].at = "finished"
          /\ \A q \in Runs : q # r => task'[q] = task[q]
      BY <1>0, <3>1, <3>5
    <3>7. ControlOK'
      BY <1>0, <2>1, <3>1, <3>3, <3>4, <3>6 DEF ControlOK
    <3>8. HandsOver(r) /\ \A q \in Runs : q # r => SameRun(q)
      BY <2>1, <3>1, <3>3, <3>4, <3>6 DEF HandsOver, SameRun
    <3>9. Prepared(r)
      BY <2>1, <2>2, <3>1, <3>8 DEF Prepared, Preparation
    <3> QED
      BY <2>2, <3>2, <3>7, <3>9 DEF TypeOK
  <2> QED
    BY <2>3, <2>4
<1>2. CASE HandoffFails(r)
  <2>1. /\ task[r].at = "ready" /\ Fault /\ begin(r, "init", r, FALSE)
        /\ task' = [task EXCEPT ![r].at = "settle", ![r].failure = "unavailable"]
        /\ UNCHANGED <<ledger, root, doc, repository, process, runtimes, capsule, engine, call,
                       kept>>
    BY <1>2 DEF HandoffFails, durable
  <2>2. DiskOK' /\ HostOK'
    BY <1>0, <2>1 DEF DiskOK, HostOK
  <2>3. /\ job' \in [Workers -> JobRecord] /\ \A v \in Workers : v # r => job'[v] = job[v]
        /\ job'[r].kind = "init" /\ job'[r].run = r /\ job'[r].step = "destroy"
    BY <1>0, <2>1, BeginType, WorkerNames DEF Kinds
  <2>4. /\ task' \in [Runs -> TaskRecord] /\ task'[r].at = "settle"
        /\ \A q \in Runs : q # r => task'[q] = task[q]
    <3> DEFINE new == [task[r] EXCEPT !.at = "settle", !.failure = "unavailable"]
    <3>1. new \in TaskRecord /\ new.at = "settle"
      BY <1>0 DEF TaskRecord, TaskAts
    <3>2. task' = [task EXCEPT ![r] = new]
      BY <1>0, <2>1 DEF TaskRecord
    <3> HIDE DEF new
    <3> QED
      BY <1>0, <3>1, <3>2
  <2>5. budget' \in [crashes : Nat, faults : Nat] /\ FaultsGrow
    BY <1>0, <2>1, FaultType
  <2>6. ControlOK'
    BY <1>0, <2>1, <2>3, <2>4, <2>5 DEF ControlOK
  <2>7. Settles(r) /\ \A q \in Runs : q # r => SameRun(q)
    BY <2>1, <2>3, <2>4 DEF Settles, SameRun
  <2>8. Prepared(r)
    BY <2>1, <2>3, <2>5, <2>7 DEF Prepared, Preparation
  <2> QED
    BY <2>2, <2>6, <2>8 DEF TypeOK
<1> QED
  BY <1>1, <1>2

\* So every step of the preparation task is one of these.
LEMMA PreparationEffect ==
    ASSUME TypeOK, HandoffInv, IdentityInv, NEW r \in Runs, PreparationStep(r)
    PROVE  TypeOK' /\ Prepared(r)
BY AllocationEffect, BuildEffect, AbortEffect, HandoffEffect DEF PreparationStep

-----------------------------------------------------------------------------
(* The engine. *)

\* An engine drives, cleans up, publishes the terminal event, gives up or leaves.
Driven(r) ==
    /\ engine[r].at # "off" /\ UNCHANGED <<task, job, call>> /\ FaultsGrow
    /\ \A q \in Runs : q # r => SameRun(q)
    /\ engine'[r].at # "off"
    /\ engine[r].again => engine'[r].again
    /\ engine'[r].again => engine[r].again \/ budget'.faults # 0
    /\ capsule'[r].active => capsule[r].active
    /\ \/ ledger'[r].state = ledger[r].state
       \/ engine[r].at = "append" /\ EndedNow(r)
    /\ engine'[r].at = "append" => ~capsule'[r].active
    /\ engine'[r].at \in {"removable", "gone"} =>
         engine[r].at \in {"removable", "gone"} \/ EndedNow(r) \/ engine'[r].again
    /\ \/ runtimes'[r] = runtimes[r]
       \/ engine[r].at \in {"removable", "gone"} /\ runtimes'[r] = "none"

\* What gives_up leaves.
LEMMA GivesUp ==
    ASSUME engine \in [Runs -> EngineRecord], NEW r \in Runs, gives_up(r)
    PROVE  /\ engine' \in [Runs -> EngineRecord] /\ engine'[r].again
           /\ engine'[r].at \in {"removable", "cleanup"}
           /\ \A q \in Runs : q # r => engine'[q] = engine[q]
<1> DEFINE new == [at |-> IF engine[r].again THEN "removable" ELSE "cleanup",
                   exit |-> IF engine[r].again THEN "none" ELSE "lost", again |-> TRUE]
<1>1. new \in EngineRecord /\ new.again /\ new.at \in {"removable", "cleanup"}
  BY DEF EngineRecord, EngineAts, Exits
<1>2. engine' = [engine EXCEPT ![r] = new]
  BY DEF gives_up
<1> HIDE DEF new
<1> QED
  BY <1>1, <1>2

\* An engine that moves to another place.
LEMMA EngineMovesTo ==
    ASSUME engine \in [Runs -> EngineRecord], NEW r \in Runs, NEW at \in EngineAts,
           NEW exit \in Exits, engine' = [engine EXCEPT ![r].at = at, ![r].exit = exit]
    PROVE  /\ engine' \in [Runs -> EngineRecord] /\ engine'[r].again = engine[r].again
           /\ engine'[r].at = at /\ \A q \in Runs : q # r => engine'[q] = engine[q]
<1> DEFINE new == [engine[r] EXCEPT !.at = at, !.exit = exit]
<1>1. new \in EngineRecord /\ new.again = engine[r].again /\ new.at = at
  BY DEF EngineRecord
<1>2. engine' = [engine EXCEPT ![r] = new]
  BY DEF EngineRecord
<1> HIDE DEF new
<1> QED
  BY <1>1, <1>2

\* Every step of an engine is of that kind.
LEMMA EngineEffect ==
    ASSUME TypeOK, NEW r \in Runs, EngineStep(r)
    PROVE  TypeOK' /\ Driven(r)
<1>0. /\ DiskOK /\ HostOK /\ ControlOK /\ budget \in [crashes : Nat, faults : Nat]
      /\ engine \in [Runs -> EngineRecord] /\ ledger \in [Runs -> LedgerRecord]
      /\ runtimes \in [Runs -> {"none", "preparing", "running"}]
      /\ capsule \in [Runs -> CapsuleRecord]
  BY DEF TypeOK, HostOK, ControlOK
<1>1. CASE EngineOutcome(r) \/ EngineStopped(r)
  <2>1. /\ engine[r].at = "driving"
        /\ UNCHANGED <<root, doc, repository, process, runtimes, task, capsule, job, call, budget,
                       kept>>
    BY <1>1 DEF EngineOutcome, EngineStopped, durable
  <2>2. PICK exit \in Exits : engine' = [engine EXCEPT ![r].at = "cleanup", ![r].exit = exit]
    BY <1>1 DEF EngineOutcome, EngineStopped, Exits
  <2>3. /\ engine' \in [Runs -> EngineRecord] /\ engine'[r].again = engine[r].again
        /\ engine'[r].at = "cleanup" /\ \A q \in Runs : q # r => engine'[q] = engine[q]
    BY <1>0, <2>2, EngineMovesTo DEF EngineAts
  <2>4. ledger' \in [Runs -> LedgerRecord] /\ \A q \in Runs : ledger'[q].state = ledger[q].state
    <3>1. CASE EngineStopped(r)
      BY <1>0, <3>1 DEF EngineStopped, durable
    <3>2. CASE EngineOutcome(r)
      <4>1. PICK e \in BOOLEAN : ledger' = [ledger EXCEPT ![r].latched = e]
        BY <3>2 DEF EngineOutcome
      <4>2. /\ [ledger[r] EXCEPT !.latched = e] \in LedgerRecord
            /\ [ledger[r] EXCEPT !.latched = e].state = ledger[r].state
        BY <1>0 DEF LedgerRecord
      <4>3. ledger' = [ledger EXCEPT ![r] = [ledger[r] EXCEPT !.latched = e]]
        BY <1>0, <4>1
      <4> QED
        BY <1>0, <4>2, <4>3
    <3> QED
      BY <1>1, <3>1, <3>2
  <2>5. TypeOK'
    BY <1>0, <2>1, <2>3, <2>4 DEF TypeOK, DiskOK, HostOK, ControlOK
  <2>6. Driven(r)
    BY <2>1, <2>3, <2>4 DEF Driven, SameRun, FaultsGrow
  <2> QED
    BY <2>5, <2>6
<1>2. CASE EngineCleanup(r)
  <2>1. engine[r].at = "cleanup" /\ UNCHANGED <<ledger, runtimes, task, job, call>>
    BY <1>2 DEF EngineCleanup
  <2>2. CASE /\ engine' = [engine EXCEPT ![r].at = "append"] /\ Sound
             /\ \/ capsule[r].active /\ cleanup_state(r, engine[r].exit)
                \/ ~capsule[r].active /\ UNCHANGED <<process, capsule>> /\ untouched
    <3>1. DiskOK' /\ HostOK'
      BY <1>0, <2>2, CleanupStateType DEF untouched, DiskOK, HostOK
    <3>2. ~capsule'[r].active /\ \A q \in Runs : q # r => capsule'[q] = capsule[q]
      BY <1>0, <2>2, CleanupStateHost
    <3>3. /\ engine' \in [Runs -> EngineRecord] /\ engine'[r].again = engine[r].again
          /\ engine'[r].at = "append" /\ \A q \in Runs : q # r => engine'[q] = engine[q]
      BY <1>0, <2>2 DEF EngineRecord, EngineAts
    <3>4. ControlOK' /\ FaultsGrow
      BY <1>0, <2>1, <2>2, <3>3 DEF ControlOK, Sound, FaultsGrow
    <3>5. Driven(r)
      BY <2>1, <3>2, <3>3, <3>4 DEF Driven, SameRun
    <3> QED
      BY <3>1, <3>4, <3>5 DEF TypeOK
  <2>3. CASE cleanup_state_fails(r, engine[r].exit) /\ Fault /\ gives_up(r)
    <3>1. DiskOK' /\ HostOK' /\ UNCHANGED capsule
      BY <1>0, <2>3, CleanupFailsType DEF cleanup_state_fails
    <3>2. /\ engine' \in [Runs -> EngineRecord] /\ engine'[r].again
          /\ engine'[r].at \in {"removable", "cleanup"}
          /\ \A q \in Runs : q # r => engine'[q] = engine[q]
      BY <1>0, <2>3, GivesUp
    <3>3. budget' \in [crashes : Nat, faults : Nat] /\ budget'.faults # 0 /\ FaultsGrow
      BY <1>0, <2>3, FaultType
    <3>4. ControlOK'
      BY <1>0, <2>1, <3>2, <3>3 DEF ControlOK
    <3>5. Driven(r)
      BY <2>1, <3>1, <3>2, <3>3 DEF Driven, SameRun
    <3> QED
      BY <3>1, <3>4, <3>5 DEF TypeOK
  <2> QED
    BY <1>2, <2>2, <2>3 DEF EngineCleanup
<1>3. CASE EngineAppend(r)
  <2>1. /\ engine[r].at = "append"
        /\ UNCHANGED <<root, doc, process, runtimes, task, capsule, job, call, kept>>
    BY <1>3 DEF EngineAppend
  <2>2. HostOK'
    BY <1>0, <2>1 DEF HostOK
  <2>3. CASE Fault /\ gives_up(r) /\ UNCHANGED <<ledger, repository>>
    <3>1. /\ engine' \in [Runs -> EngineRecord] /\ engine'[r].again
          /\ engine'[r].at \in {"removable", "cleanup"}
          /\ \A q \in Runs : q # r => engine'[q] = engine[q]
      BY <1>0, <2>3, GivesUp
    <3>2. budget' \in [crashes : Nat, faults : Nat] /\ budget'.faults # 0 /\ FaultsGrow
      BY <1>0, <2>3, FaultType
    <3>3. ControlOK' /\ DiskOK'
      BY <1>0, <2>1, <2>3, <3>1, <3>2 DEF ControlOK, DiskOK
    <3>4. Driven(r)
      BY <2>1, <2>3, <3>1, <3>2 DEF Driven, SameRun
    <3> QED
      BY <2>2, <3>3, <3>4 DEF TypeOK
  <2>4. CASE ~(Fault /\ gives_up(r) /\ UNCHANGED <<ledger, repository>>)
    <3>1. /\ engine' = [engine EXCEPT ![r].at = "removable", ![r].exit = "none"] /\ Sound
          /\ repository' \subseteq repository
      BY <1>3, <2>4 DEF EngineAppend
    <3>2. PICK result \in {"succeeded", "stopped", "failed"} :
             ledger' = [ledger EXCEPT ![r].state = result]
      <4>1. ledger' = [ledger EXCEPT ![r].state =
                            CASE engine[r].exit = "completed" -> "succeeded"
                              [] engine[r].exit = "forced" -> "stopped"
                              [] OTHER -> "failed"]
        BY <1>3, <2>4 DEF EngineAppend
      <4> QED
        BY <4>1
    <3>3. /\ engine' \in [Runs -> EngineRecord] /\ engine'[r].again = engine[r].again
          /\ engine'[r].at = "removable" /\ \A q \in Runs : q # r => engine'[q] = engine[q]
      BY <1>0, <3>1, EngineMovesTo DEF EngineAts, Exits
    <3>4. /\ ledger' \in [Runs -> LedgerRecord] /\ EndedNow(r)
          /\ \A q \in Runs : q # r => ledger'[q] = ledger[q]
      BY <1>0, <3>2 DEF LedgerRecord, States, EndedNow
    <3>5. ControlOK' /\ DiskOK' /\ FaultsGrow
      BY <1>0, <2>1, <3>1, <3>3, <3>4 DEF ControlOK, DiskOK, Sound, FaultsGrow
    <3>6. Driven(r)
      <4>1. \A q \in Runs : q # r => SameRun(q)
        BY <2>1, <3>3, <3>4 DEF SameRun
      <4> QED
        BY <2>1, <3>3, <3>4, <3>5, <4>1 DEF Driven
    <3> QED
      BY <2>2, <3>5, <3>6 DEF TypeOK
  <2> QED
    BY <2>3, <2>4
<1>4. CASE RemoveFinished(r)
  <2>1. /\ engine[r].at \in {"removable", "gone"}
        /\ runtimes' = [runtimes EXCEPT ![r] = "none"]
        /\ UNCHANGED <<ledger, root, doc, repository, process, task, capsule, engine, job, call,
                       budget, kept>>
    BY <1>4 DEF RemoveFinished, durable
  <2>2. TypeOK'
    BY <1>0, <2>1 DEF TypeOK, DiskOK, HostOK, ControlOK
  <2>3. Driven(r)
    BY <1>0, <2>1 DEF Driven, SameRun, FaultsGrow
  <2> QED
    BY <2>2, <2>3
<1>5. CASE DropClaim(r)
  <2>1. /\ engine[r].at = "removable" /\ engine' = [engine EXCEPT ![r].at = "gone"]
        /\ UNCHANGED <<ledger, root, doc, repository, process, runtimes, task, capsule, job, call,
                       budget, kept>>
    BY <1>5 DEF DropClaim, durable
  <2>2. /\ engine' \in [Runs -> EngineRecord] /\ engine'[r].again = engine[r].again
        /\ engine'[r].at = "gone" /\ \A q \in Runs : q # r => engine'[q] = engine[q]
    BY <1>0, <2>1 DEF EngineRecord, EngineAts
  <2>3. TypeOK'
    BY <1>0, <2>1, <2>2 DEF TypeOK, DiskOK, HostOK, ControlOK
  <2>4. Driven(r)
    BY <2>1, <2>2 DEF Driven, SameRun, FaultsGrow
  <2> QED
    BY <2>3, <2>4
<1> QED
  BY <1>1, <1>2, <1>3, <1>4, <1>5 DEF EngineStep

-----------------------------------------------------------------------------
(* Teardowns. *)

\* A worker carries its teardown on.
Carries(w) ==
    LET r == job[w].run IN
    /\ UNCHANGED <<task, call, runtimes>>
    /\ job'[w].kind = job[w].kind /\ job'[w].run = r /\ job'[w].step # "none"
    /\ job'[w].kind = "init" => job'[w].step \in {"destroy", "append"}
    /\ job'[w].step = "append" => ~capsule'[r].active
    /\ job'[w].step \in {"unslot", "discard"} => EndedNow(r)

\* What a step of a teardown touches.
Worked(w) ==
    LET r == job[w].run IN
    /\ job[w].step # "none" /\ UNCHANGED engine /\ FaultsGrow
    /\ \A v \in Workers : v # w => job'[v] = job[v]
    /\ \A q \in Runs : q # r => /\ ledger'[q].state = ledger[q].state
                                /\ capsule'[q].active = capsule[q].active
                                /\ runtimes'[q] = runtimes[q]
    /\ capsule'[r].active => capsule[r].active
    /\ \/ ledger'[r].state = ledger[r].state
       \/ job[w].step = "append" /\ EndedNow(r)
    /\ \/ runtimes'[r] = runtimes[r]
       \/ job[w].step = "unslot" /\ runtimes'[r] = "none"
    /\ Carries(w) \/ Ended(w, FALSE) \/ (Ended(w, TRUE) /\ EndedNow(r))

\* A confirmed destroy leaves the capsule inactive; neither kind touches another's.
LEMMA DestroyHost ==
    ASSUME HostOK, NEW r \in Runs, NEW exit, destroy(r, exit)
    PROVE  ~capsule'[r].active /\ \A q \in Runs : q # r => capsule'[q] = capsule[q]
<1>1. CASE capsule[r].active
  BY <1>1, CleanupStateHost DEF destroy
<1>2. CASE ~capsule[r].active
  BY <1>2 DEF destroy
<1> QED
  BY <1>1, <1>2

\* A worker's next step.
LEMMA StepType ==
    ASSUME job \in [Workers -> JobRecord], NEW w \in Workers, NEW s \in Steps, step(w, s)
    PROVE  /\ job' \in [Workers -> JobRecord]
           /\ \A v \in Workers : v # w => job'[v] = job[v]
           /\ job'[w].kind = job[w].kind /\ job'[w].run = job[w].run /\ job'[w].step = s
<1>1. job' = [job EXCEPT ![w].step = s]
  BY DEF step
<1> QED
  BY <1>1 DEF JobRecord

\* Every step of a teardown is of that kind.
LEMMA JobEffect ==
    ASSUME TypeOK, JobInv, NEW w \in Workers, JobStep(w)
    PROVE  TypeOK' /\ Worked(w)
<1> DEFINE r == job[w].run
<1>0. /\ DiskOK /\ HostOK /\ ControlOK /\ budget \in [crashes : Nat, faults : Nat]
      /\ ledger \in [Runs -> LedgerRecord] /\ job \in [Workers -> JobRecord]
      /\ runtimes \in [Runs -> {"none", "preparing", "running"}]
      /\ task \in [Runs -> TaskRecord] /\ call \in [Callers -> CallRecord]
      /\ engine \in [Runs -> EngineRecord]
  BY DEF TypeOK, HostOK, ControlOK
<1>a. job[w].step # "none"
  BY DEF JobStep, JobCheck, JobDestroy, JobDestroyFails, JobAppend, JobAppendFails, JobUnslot,
         JobDiscard
<1>b. /\ r \in Runs
      /\ job[w].kind = "init" => job[w].step \in {"destroy", "append"}
      /\ job[w].step \in {"unslot", "discard"} => Terminal(r)
  BY <1>a DEF JobInv, JobOK
<1>1. CASE JobCheck(w)
  <2>1. /\ job[w].step = "check" /\ step(w, IF Terminal(r) THEN "unslot" ELSE "destroy")
        /\ UNCHANGED <<ledger, root, doc, repository, process, runtimes, task, capsule, engine,
                       call, budget, kept>>
    BY <1>1 DEF JobCheck, durable
  <2>2. /\ job' \in [Workers -> JobRecord] /\ \A v \in Workers : v # w => job'[v] = job[v]
        /\ job'[w].kind = job[w].kind /\ job'[w].run = r
        /\ job'[w].step = IF Terminal(r) THEN "unslot" ELSE "destroy"
    <3>1. (IF Terminal(r) THEN "unslot" ELSE "destroy") \in Steps
      BY DEF Steps
    <3> QED
      BY <1>0, <2>1, <3>1, StepType
  <2>3. TypeOK'
    BY <1>0, <2>1, <2>2 DEF TypeOK, DiskOK, HostOK, ControlOK
  <2>4. Carries(w)
    BY <1>b, <2>1, <2>2 DEF Carries, Terminal, EndedNow
  <2>5. Worked(w)
    BY <2>1, <2>2, <2>4 DEF Worked, FaultsGrow
  <2> QED
    BY <2>3, <2>5
<1>2. CASE JobDestroy(w)
  <2>1. /\ job[w].step = "destroy" /\ destroy(r, exit_of(w)) /\ step(w, "append")
        /\ UNCHANGED <<ledger, runtimes, task, engine, call, budget>>
    BY <1>2 DEF JobDestroy
  <2>2. /\ job' \in [Workers -> JobRecord] /\ \A v \in Workers : v # w => job'[v] = job[v]
        /\ job'[w].kind = job[w].kind /\ job'[w].run = r /\ job'[w].step = "append"
    BY <1>0, <2>1, StepType DEF Steps
  <2>3. DiskOK' /\ HostOK'
    BY <1>0, <1>b, <2>1, DestroyType
  <2>4. ~capsule'[r].active /\ \A q \in Runs : q # r => capsule'[q] = capsule[q]
    BY <1>0, <1>b, <2>1, DestroyHost
  <2>5. ControlOK'
    BY <1>0, <2>1, <2>2 DEF ControlOK
  <2>6. Carries(w)
    BY <2>1, <2>2, <2>4 DEF Carries
  <2>7. Worked(w)
    BY <2>1, <2>2, <2>4, <2>6 DEF Worked, FaultsGrow
  <2> QED
    BY <2>3, <2>5, <2>7 DEF TypeOK
<1>3. CASE JobDestroyFails(w)
  <2>1. /\ job[w].step = "destroy" /\ destroy_fails(r, exit_of(w)) /\ ends(w, FALSE)
        /\ UNCHANGED <<ledger, runtimes, engine>> /\ (Sound \/ Fault)
    BY <1>3 DEF JobDestroyFails
  <2>2. /\ task' \in [Runs -> TaskRecord] /\ job' \in [Workers -> JobRecord]
        /\ call' \in [Callers -> CallRecord] /\ Ended(w, FALSE)
    BY <1>0, <1>b, <2>1, EndsEffect
  <2>3. DiskOK' /\ HostOK' /\ UNCHANGED capsule
    BY <1>0, <1>b, <2>1, DestroyFailsType DEF destroy_fails, cleanup_state_fails
  <2>4. budget' \in [crashes : Nat, faults : Nat] /\ FaultsGrow
    BY <1>0, <2>1, FaultType DEF Sound, FaultsGrow
  <2>5. ControlOK'
    BY <1>0, <2>1, <2>2, <2>4 DEF ControlOK
  <2>6. Worked(w)
    <3>1. \A v \in Workers : v # w => job'[v] = job[v]
      BY <2>2 DEF Ended
    <3> QED
      BY <2>1, <2>2, <2>3, <2>4, <3>1 DEF Worked
  <2> QED
    BY <2>3, <2>5, <2>6 DEF TypeOK
<1>4. CASE JobAppend(w)
  <2>1. /\ job[w].step = "append"
        /\ ledger' = [ledger EXCEPT ![r].state = IF Terminal(r) THEN @ ELSE result_of(w),
                                    ![r].force = @ \/ exit_of(w) = "forced"]
        /\ UNCHANGED <<root, doc, repository, process, runtimes, capsule, engine, budget, kept>>
    BY <1>4 DEF JobAppend
  <2>2. /\ ledger' \in [Runs -> LedgerRecord] /\ EndedNow(r)
        /\ \A q \in Runs : q # r => ledger'[q] = ledger[q]
    <3>1. result_of(w) \in {"succeeded", "stopped", "failed"}
      BY DEF result_of
    <3>2. (exit_of(w) = "forced") \in BOOLEAN
      OBVIOUS
    <3> DEFINE state == IF Terminal(r) THEN ledger[r].state ELSE result_of(w)
               forced == ledger[r].force \/ exit_of(w) = "forced"
    <3>3. state \in {"succeeded", "stopped", "failed"} /\ forced \in BOOLEAN
      BY <3>1 DEF Terminal
    <3>4. ledger' = [ledger EXCEPT ![r].state = state, ![r].force = forced]
      BY <1>0, <1>b, <2>1 DEF LedgerRecord
    <3> HIDE DEF state, forced
    <3> DEFINE new == [ledger[r] EXCEPT !.state = state, !.force = forced]
    <3>5. new \in LedgerRecord /\ new.state = state
      BY <1>0, <1>b, <3>3 DEF LedgerRecord, States
    <3>6. ledger' = [ledger EXCEPT ![r] = new]
      BY <1>0, <1>b, <3>4 DEF LedgerRecord
    <3> HIDE DEF new
    <3> QED
      BY <1>0, <1>b, <3>3, <3>5, <3>6 DEF EndedNow
  <2>3. DiskOK' /\ HostOK' /\ FaultsGrow
    BY <1>0, <2>1 DEF DiskOK, HostOK, FaultsGrow
  <2>4. CASE step(w, "unslot") /\ UNCHANGED <<task, call>> /\ job[w].kind \in {"settle", "engine"}
    <3>1. /\ job' \in [Workers -> JobRecord] /\ \A v \in Workers : v # w => job'[v] = job[v]
          /\ job'[w].kind = job[w].kind /\ job'[w].run = r /\ job'[w].step = "unslot"
      BY <1>0, <2>4, StepType DEF Steps
    <3>2. Carries(w)
      BY <2>1, <2>2, <2>4, <3>1 DEF Carries
    <3>3. Worked(w)
      BY <2>1, <2>2, <2>3, <3>1, <3>2 DEF Worked
    <3>4. ControlOK'
      BY <1>0, <2>1, <2>2, <2>4, <3>1 DEF ControlOK
    <3> QED
      BY <2>3, <3>3, <3>4 DEF TypeOK
  <2>5. CASE step(w, "discard") /\ UNCHANGED <<task, call>> /\ job[w].kind = "lost"
    <3>1. /\ job' \in [Workers -> JobRecord] /\ \A v \in Workers : v # w => job'[v] = job[v]
          /\ job'[w].kind = job[w].kind /\ job'[w].run = r /\ job'[w].step = "discard"
      BY <1>0, <2>5, StepType DEF Steps
    <3>2. Carries(w)
      BY <2>1, <2>2, <2>5, <3>1 DEF Carries
    <3>3. Worked(w)
      BY <2>1, <2>2, <2>3, <3>1, <3>2 DEF Worked
    <3>4. ControlOK'
      BY <1>0, <2>1, <2>2, <2>5, <3>1 DEF ControlOK
    <3> QED
      BY <2>3, <3>3, <3>4 DEF TypeOK
  <2>6. CASE ends(w, TRUE)
    <3>1. /\ task' \in [Runs -> TaskRecord] /\ job' \in [Workers -> JobRecord]
          /\ call' \in [Callers -> CallRecord] /\ Ended(w, TRUE)
      BY <1>0, <1>b, <2>6, EndsEffect
    <3>2. \A v \in Workers : v # w => job'[v] = job[v]
      BY <3>1 DEF Ended
    <3>3. Worked(w)
      BY <2>1, <2>2, <2>3, <3>1, <3>2 DEF Worked
    <3>4. ControlOK'
      BY <1>0, <2>1, <2>2, <3>1 DEF ControlOK
    <3> QED
      BY <2>3, <3>3, <3>4 DEF TypeOK
  <2> QED
    BY <1>4, <2>4, <2>5, <2>6 DEF JobAppend
<1>5. CASE JobAppendFails(w)
  <2>1. /\ job[w].step = "append" /\ Fault /\ ends(w, FALSE)
        /\ UNCHANGED <<ledger, root, doc, repository, process, runtimes, capsule, engine, kept>>
    BY <1>5 DEF JobAppendFails, durable
  <2>2. /\ task' \in [Runs -> TaskRecord] /\ job' \in [Workers -> JobRecord]
        /\ call' \in [Callers -> CallRecord] /\ Ended(w, FALSE)
    BY <1>0, <1>b, <2>1, EndsEffect
  <2>3. budget' \in [crashes : Nat, faults : Nat] /\ FaultsGrow
    BY <1>0, <2>1, FaultType
  <2>4. TypeOK'
    BY <1>0, <2>1, <2>2, <2>3 DEF TypeOK, DiskOK, HostOK, ControlOK
  <2>5. Worked(w)
    <3>1. \A v \in Workers : v # w => job'[v] = job[v]
      BY <2>2 DEF Ended
    <3> QED
      BY <2>1, <2>2, <2>3, <3>1 DEF Worked
  <2> QED
    BY <2>4, <2>5
<1>6. CASE JobUnslot(w)
  <2>1. /\ job[w].step = "unslot" /\ runtimes' = [runtimes EXCEPT ![r] = "none"] /\ ends(w, TRUE)
        /\ UNCHANGED <<ledger, root, doc, repository, process, capsule, engine, budget, kept>>
    BY <1>6 DEF JobUnslot, durable
  <2>2. /\ task' \in [Runs -> TaskRecord] /\ job' \in [Workers -> JobRecord]
        /\ call' \in [Callers -> CallRecord] /\ Ended(w, TRUE)
    BY <1>0, <1>b, <2>1, EndsEffect
  <2>3. /\ runtimes' \in [Runs -> {"none", "preparing", "running"}] /\ runtimes'[r] = "none"
        /\ \A q \in Runs : q # r => runtimes'[q] = runtimes[q]
    BY <1>0, <1>b, <2>1
  <2>4. TypeOK'
    BY <1>0, <2>1, <2>2, <2>3 DEF TypeOK, DiskOK, HostOK, ControlOK
  <2>5. Worked(w)
    <3>1. \A v \in Workers : v # w => job'[v] = job[v]
      BY <2>2 DEF Ended
    <3>2. EndedNow(r) /\ FaultsGrow
      BY <1>b, <2>1 DEF Terminal, EndedNow, FaultsGrow
    <3> QED
      BY <2>1, <2>2, <2>3, <3>1, <3>2 DEF Worked
  <2> QED
    BY <2>4, <2>5
<1>7. CASE JobDiscard(w)
  <2>1. /\ job[w].step = "discard" /\ ends(w, TRUE) /\ (Sound \/ Fault)
        /\ discard_workspace(r) \/ discard_fails(r)
        /\ UNCHANGED <<ledger, process, runtimes, capsule, engine>>
    BY <1>7 DEF JobDiscard
  <2>2. /\ task' \in [Runs -> TaskRecord] /\ job' \in [Workers -> JobRecord]
        /\ call' \in [Callers -> CallRecord] /\ Ended(w, TRUE)
    BY <1>0, <1>b, <2>1, EndsEffect
  <2>3. DiskOK' /\ HostOK'
    BY <1>0, <1>b, <2>1, DiscardType DEF HostOK
  <2>4. budget' \in [crashes : Nat, faults : Nat] /\ FaultsGrow
    BY <1>0, <2>1, FaultType DEF Sound, FaultsGrow
  <2>5. ControlOK'
    BY <1>0, <2>1, <2>2, <2>4 DEF ControlOK
  <2>6. Worked(w)
    <3>1. \A v \in Workers : v # w => job'[v] = job[v]
      BY <2>2 DEF Ended
    <3>2. EndedNow(r)
      BY <1>b, <2>1 DEF Terminal, EndedNow
    <3> QED
      BY <2>1, <2>2, <2>4, <3>1, <3>2 DEF Worked
  <2> QED
    BY <2>3, <2>5, <2>6 DEF TypeOK
<1> QED
  BY <1>1, <1>2, <1>3, <1>4, <1>5, <1>6, <1>7 DEF JobStep

-----------------------------------------------------------------------------
(* Calls. *)

\* A call touches no capsule, no process and no engine, and only its own place.
Called(c) ==
    /\ UNCHANGED <<engine, capsule, process>> /\ FaultsGrow
    /\ \A d \in Callers : d # c => call'[d] = call[d]
    /\ \A w \in Workers : w # c => job'[w] = job[w]

Submitted(r) ==
    /\ Called(submit) /\ Up /\ SubmissionFree /\ UNCHANGED job
    /\ call'[submit].run = r
    /\ \A q \in Runs : q # r => SameRun(q)
    /\ UNCHANGED <<task, runtimes>>
    /\ \/ /\ ledger[r].state = "absent" /\ ledger'[r].state = "open"
          /\ call'[submit].at = "start"
       \/ SameRun(r) /\ call'[submit].at = "orphan"

Resumed(r) ==
    /\ Called(resume) /\ Up /\ SubmissionFree /\ UNCHANGED job
    /\ call'[resume].run = r /\ call'[resume].at = "create" /\ ledger[r].state = "absent"
    /\ \A q \in Runs : SameRun(q)

Created ==
    LET r == call[resume].run IN
    /\ Called(resume) /\ UNCHANGED <<job, task, runtimes>>
    /\ call[resume].at = "create" /\ call'[resume].at = "start" /\ call'[resume].run = r
    /\ ledger'[r].state = "open"
    /\ \A q \in Runs : q # r => SameRun(q)

Started(c) ==
    LET r == call[c].run IN
    /\ c \in {submit, resume} /\ Called(c) /\ UNCHANGED <<job, ledger>>
    /\ call[c].at = "start" /\ call'[c].at = "idle"
    /\ runtimes'[r] = "preparing" /\ task'[r].at = "queued"
    /\ \A q \in Runs : q # r => SameRun(q)

StartFailed(c) ==
    /\ c \in {submit, resume} /\ Called(c) /\ UNCHANGED job
    /\ call[c].at = "start" /\ call'[c].at = "idle" /\ budget'.faults # 0
    /\ \A q \in Runs : SameRun(q)

\* A teardown of a run at rest begins.
Undertakes(w, r) ==
    /\ job'[w].run = r /\ r \in Runs /\ task[r].at \in Resting
    /\ ledger[r].state # "absent"
    /\ \/ job'[w].kind = "settle" /\ job'[w].step = "check"
       \/ job'[w].kind \in {"lost", "engine", "rebuild"} /\ job'[w].step = "destroy"

OrphanFailed ==
    /\ Called(submit) /\ call[submit].at = "orphan"
    /\ \A q \in Runs : SameRun(q)
    /\ \/ UNCHANGED job /\ call'[submit].at = "idle"
       \/ /\ Undertakes(submit, call[submit].run)
          /\ call'[submit].at = "job" /\ call'[submit].run = call[submit].run

\* Where a call is put, and how it returns.
LEMMA CallMoves ==
    ASSUME call \in [Callers -> CallRecord], NEW c \in Callers
    PROVE  /\ \A at \in CallAts : go(c, at) =>
                /\ call' \in [Callers -> CallRecord]
                /\ call'[c].at = at /\ call'[c].run = call[c].run
                /\ \A d \in Callers : d # c => call'[d] = call[d]
           /\ returns(c) =>
                /\ call' \in [Callers -> CallRecord] /\ call'[c].at = "idle"
                /\ \A d \in Callers : d # c => call'[d] = call[d]
           /\ \A at \in CallAts, r \in Lineages, s \in Lineages :
                call' = [call EXCEPT ![c] = [at |-> at, run |-> r, from |-> s]] =>
                /\ call' \in [Callers -> CallRecord]
                /\ call'[c].at = at /\ call'[c].run = r
                /\ \A d \in Callers : d # c => call'[d] = call[d]
<1>1. ASSUME NEW at \in CallAts, go(c, at)
      PROVE  /\ call' \in [Callers -> CallRecord]
             /\ call'[c].at = at /\ call'[c].run = call[c].run
             /\ \A d \in Callers : d # c => call'[d] = call[d]
  BY <1>1 DEF go, CallRecord
<1>2. ASSUME returns(c)
      PROVE  /\ call' \in [Callers -> CallRecord] /\ call'[c].at = "idle"
             /\ \A d \in Callers : d # c => call'[d] = call[d]
  <2>1. Idle \in CallRecord /\ Idle.at = "idle"
    BY ConstantTypes DEF Idle
  <2> QED
    BY <1>2, <2>1 DEF returns
<1>3. ASSUME NEW at \in CallAts, NEW r \in Lineages, NEW s \in Lineages,
             call' = [call EXCEPT ![c] = [at |-> at, run |-> r, from |-> s]]
      PROVE  /\ call' \in [Callers -> CallRecord]
             /\ call'[c].at = at /\ call'[c].run = r
             /\ \A d \in Callers : d # c => call'[d] = call[d]
  BY <1>3 DEF CallRecord
<1> QED
  BY <1>1, <1>2, <1>3

\* Submission, resume and what follows them.
LEMMA SubmissionEffect ==
    ASSUME TypeOK, CallInv, NEW r \in Runs
    PROVE  /\ Submit(r) => TypeOK' /\ Submitted(r)
           /\ \A s \in Runs : Resume(s, r) => TypeOK' /\ Resumed(r)
           /\ CreateSuccessor => TypeOK' /\ Created
<1>0. /\ DiskOK /\ HostOK /\ ControlOK /\ call \in [Callers -> CallRecord]
      /\ ledger \in [Runs -> LedgerRecord] /\ r \in Lineages /\ None \in Lineages
      /\ submit \in Callers /\ resume \in Callers
  BY WorkerNames, LineageNames DEF TypeOK, ControlOK
<1>1. ASSUME Submit(r) PROVE TypeOK' /\ Submitted(r)
  <2>1. /\ Up /\ SubmissionFree
        /\ UNCHANGED <<root, doc, repository, process, runtimes, task, capsule, engine, job,
                       budget, kept>>
    BY <1>1 DEF Submit
  <2>2. PICK at \in {"start", "orphan"} :
           /\ call' = [call EXCEPT ![submit] = [at |-> at, run |-> r, from |-> None]]
           /\ at = "start" => /\ ledger[r].state = "absent"
                              /\ ledger' = [ledger EXCEPT ![r].state = "open"]
           /\ at = "orphan" => UNCHANGED ledger
    BY <1>1 DEF Submit
  <2>3. /\ call' \in [Callers -> CallRecord] /\ call'[submit].at = at /\ call'[submit].run = r
        /\ \A d \in Callers : d # submit => call'[d] = call[d]
    <3>1. at \in CallAts
      BY DEF CallAts
    <3> QED
      BY <1>0, <2>2, <3>1, CallMoves
  <2>4. /\ ledger' \in [Runs -> LedgerRecord] /\ \A q \in Runs : q # r => ledger'[q] = ledger[q]
        /\ at = "start" => ledger'[r].state = "open"
    BY <1>0, <2>2 DEF LedgerRecord, States
  <2>5. TypeOK'
    BY <1>0, <2>1, <2>3, <2>4 DEF TypeOK, DiskOK, HostOK, ControlOK
  <2>6. Called(submit)
    BY <2>1, <2>3 DEF Called, FaultsGrow
  <2>7. \A q \in Runs : q # r => SameRun(q)
    BY <2>1, <2>4 DEF SameRun
  <2>8. at = "orphan" => SameRun(r)
    BY <2>1, <2>2 DEF SameRun
  <2> QED
    BY <2>1, <2>2, <2>3, <2>4, <2>5, <2>6, <2>7, <2>8 DEF Submitted
<1>2. ASSUME NEW s \in Runs, Resume(s, r) PROVE TypeOK' /\ Resumed(r)
  <2>1. /\ Up /\ SubmissionFree /\ ledger[r].state = "absent"
        /\ call' = [call EXCEPT ![resume] = [at |-> "create", run |-> r, from |-> s]]
        /\ UNCHANGED <<ledger, root, doc, repository, process, runtimes, task, capsule, engine,
                       job, budget, kept>>
    BY <1>2 DEF Resume, durable
  <2>2. /\ call' \in [Callers -> CallRecord] /\ call'[resume].at = "create"
        /\ call'[resume].run = r /\ \A d \in Callers : d # resume => call'[d] = call[d]
    BY <1>0, <2>1, CallMoves, LineageNames DEF CallAts
  <2>3. TypeOK'
    BY <1>0, <2>1, <2>2 DEF TypeOK, DiskOK, HostOK, ControlOK
  <2>4. Resumed(r)
    BY <2>1, <2>2 DEF Resumed, Called, FaultsGrow, SameRun
  <2> QED
    BY <2>3, <2>4
<1>3. ASSUME CreateSuccessor PROVE TypeOK' /\ Created
  <2> DEFINE p == call[resume].run
  <2>1. /\ call[resume].at = "create" /\ ledger' = [ledger EXCEPT ![p].state = "open"]
        /\ go(resume, "start")
        /\ UNCHANGED <<root, doc, repository, process, runtimes, task, capsule, engine, job,
                       budget, kept>>
    BY <1>3 DEF CreateSuccessor
  <2>2. p \in Runs
    BY <2>1, Names, WorkerNames DEF CallInv, CallPlaces, StartInv, AcceptedInv
  <2>3. /\ call' \in [Callers -> CallRecord] /\ call'[resume].at = "start"
        /\ call'[resume].run = p /\ \A d \in Callers : d # resume => call'[d] = call[d]
    BY <1>0, <2>1, CallMoves DEF CallAts
  <2>4. /\ ledger' \in [Runs -> LedgerRecord] /\ ledger'[p].state = "open"
        /\ \A q \in Runs : q # p => ledger'[q] = ledger[q]
    BY <1>0, <2>1, <2>2 DEF LedgerRecord, States
  <2>5. TypeOK'
    BY <1>0, <2>1, <2>3, <2>4 DEF TypeOK, DiskOK, HostOK, ControlOK
  <2>6. Called(resume) /\ \A q \in Runs : q # p => SameRun(q)
    BY <2>1, <2>3, <2>4 DEF Called, FaultsGrow, SameRun
  <2> QED
    BY <2>1, <2>3, <2>4, <2>5, <2>6 DEF Created
<1> QED
  BY <1>1, <1>2, <1>3

\* The start of a preparation, and an exact resubmission.
LEMMA StartEffect ==
    ASSUME TypeOK, CallInv, RunInv
    PROVE  /\ \A c \in {submit, resume} : StartPreparation(c) => TypeOK' /\ Started(c)
           /\ \A c \in {submit, resume} : StartPreparationFails(c) => TypeOK' /\ StartFailed(c)
           /\ FailOrphaned => TypeOK' /\ OrphanFailed
<1>0. /\ DiskOK /\ HostOK /\ ControlOK /\ call \in [Callers -> CallRecord]
      /\ task \in [Runs -> TaskRecord] /\ job \in [Workers -> JobRecord]
      /\ runtimes \in [Runs -> {"none", "preparing", "running"}]
      /\ submit \in Callers /\ resume \in Callers /\ submit \in Workers
  BY WorkerNames DEF TypeOK, ControlOK
<1>1. ASSUME NEW c \in {submit, resume}, StartPreparation(c) PROVE TypeOK' /\ Started(c)
  <2> DEFINE r == call[c].run
             new == [NoTask EXCEPT !.at = "queued", !.from = call[c].from]
  <2>0. c \in Callers
    BY <1>0
  <2>1. /\ call[c].at = "start" /\ runtimes' = [runtimes EXCEPT ![r] = "preparing"]
        /\ task' = [task EXCEPT ![r] = new] /\ returns(c)
        /\ UNCHANGED <<ledger, root, doc, repository, process, capsule, engine, job, budget, kept>>
    BY <1>1 DEF StartPreparation, durable
  <2>2. r \in Runs
    BY <2>0, <2>1, Names DEF CallInv, CallPlaces, StartInv, AcceptedInv
  <2>3. new \in TaskRecord /\ new.at = "queued"
    <3>1. call[c].from \in Lineages
      BY <1>0, <2>0 DEF CallRecord
    <3> QED
      BY <3>1, ConstantTypes DEF TaskRecord, TaskAts
  <2> HIDE DEF new
  <2>4. /\ task' \in [Runs -> TaskRecord] /\ task'[r].at = "queued"
        /\ \A q \in Runs : q # r => task'[q] = task[q]
    BY <1>0, <2>1, <2>2, <2>3
  <2>5. /\ runtimes' \in [Runs -> {"none", "preparing", "running"}]
        /\ runtimes'[r] = "preparing" /\ \A q \in Runs : q # r => runtimes'[q] = runtimes[q]
    BY <1>0, <2>1, <2>2
  <2>6. /\ call' \in [Callers -> CallRecord] /\ call'[c].at = "idle"
        /\ \A d \in Callers : d # c => call'[d] = call[d]
    BY <1>0, <2>0, <2>1, CallMoves
  <2>7. TypeOK'
    BY <1>0, <2>1, <2>4, <2>5, <2>6 DEF TypeOK, DiskOK, HostOK, ControlOK
  <2>8. Called(c) /\ \A q \in Runs : q # r => SameRun(q)
    BY <2>1, <2>4, <2>5, <2>6 DEF Called, FaultsGrow, SameRun
  <2> QED
    BY <2>1, <2>4, <2>5, <2>6, <2>7, <2>8 DEF Started
<1>2. ASSUME NEW c \in {submit, resume}, StartPreparationFails(c)
      PROVE  TypeOK' /\ StartFailed(c)
  <2>0. c \in Callers
    BY <1>0
  <2>1. /\ call[c].at = "start" /\ Fault /\ returns(c)
        /\ UNCHANGED <<ledger, root, doc, repository, process, runtimes, task, capsule, engine,
                       job, kept>>
    BY <1>2 DEF StartPreparationFails, durable
  <2>2. budget' \in [crashes : Nat, faults : Nat] /\ budget'.faults # 0 /\ FaultsGrow
    BY <1>0, <2>1, FaultType
  <2>3. /\ call' \in [Callers -> CallRecord] /\ call'[c].at = "idle"
        /\ \A d \in Callers : d # c => call'[d] = call[d]
    BY <1>0, <2>0, <2>1, CallMoves
  <2>4. TypeOK'
    BY <1>0, <2>1, <2>2, <2>3 DEF TypeOK, DiskOK, HostOK, ControlOK
  <2>5. Called(c) /\ \A q \in Runs : SameRun(q)
    BY <2>1, <2>2, <2>3 DEF Called, SameRun
  <2> QED
    BY <2>1, <2>2, <2>3, <2>4, <2>5 DEF StartFailed
<1>3. ASSUME FailOrphaned PROVE TypeOK' /\ OrphanFailed
  <2> DEFINE r == call[submit].run
  <2>1. /\ call[submit].at = "orphan"
        /\ UNCHANGED <<ledger, root, doc, repository, process, runtimes, task, capsule, engine,
                       budget, kept>>
    BY <1>3 DEF FailOrphaned, durable
  <2>2. r \in Runs
    BY <1>0, <2>1, Names DEF CallInv, CallPlaces, StartInv, AcceptedInv
  <2>3. \A q \in Runs : SameRun(q)
    BY <2>1 DEF SameRun
  <2>4. DiskOK' /\ HostOK' /\ FaultsGrow
    BY <1>0, <2>1 DEF DiskOK, HostOK, FaultsGrow
  <2>5. CASE returns(submit) /\ UNCHANGED job
    <3>1. /\ call' \in [Callers -> CallRecord] /\ call'[submit].at = "idle"
          /\ \A d \in Callers : d # submit => call'[d] = call[d]
      BY <1>0, <2>5, CallMoves
    <3>2. ControlOK'
      BY <1>0, <2>1, <2>5, <3>1 DEF ControlOK
    <3>3. Called(submit)
      BY <2>1, <2>4, <2>5, <3>1 DEF Called
    <3> QED
      BY <2>1, <2>3, <2>4, <2>5, <3>1, <3>2, <3>3 DEF OrphanFailed, TypeOK
  <2>6. CASE ~(returns(submit) /\ UNCHANGED job)
    <3>1. PICK kind \in {"settle", "lost"} :
             /\ Open(r) /\ begin(submit, kind, r, FALSE) /\ go(submit, "job")
             /\ kind = "settle" => Finished(r)
             /\ kind = "lost" => ~Claimed(r)
      BY <1>3, <2>6 DEF FailOrphaned
    <3>2. task[r].at \in Resting
      BY <3>1 DEF Finished, Claimed, Resting
    <3>3. /\ job' \in [Workers -> JobRecord] /\ \A v \in Workers : v # submit => job'[v] = job[v]
          /\ job'[submit].kind = kind /\ job'[submit].run = r
          /\ job'[submit].step = IF kind = "settle" THEN "check" ELSE "destroy"
      <4>1. kind \in Kinds
        BY DEF Kinds
      <4> QED
        BY <1>0, <2>2, <3>1, <4>1, BeginType
    <3>4. /\ call' \in [Callers -> CallRecord] /\ call'[submit].at = "job"
          /\ call'[submit].run = r /\ \A d \in Callers : d # submit => call'[d] = call[d]
      BY <1>0, <3>1, CallMoves DEF CallAts
    <3>5. ControlOK'
      BY <1>0, <2>1, <3>3, <3>4 DEF ControlOK
    <3>6. Called(submit)
      BY <2>1, <2>4, <3>3, <3>4 DEF Called
    <3>7. Undertakes(submit, r)
      BY <2>2, <3>1, <3>2, <3>3 DEF Undertakes, Open
    <3> QED
      BY <2>1, <2>3, <2>4, <3>4, <3>5, <3>6, <3>7 DEF OrphanFailed, TypeOK
  <2> QED
    BY <2>5, <2>6
<1> QED
  BY <1>1, <1>2, <1>3

\* A force call begins, and goes on.
Requested(r) ==
    /\ Called(force) /\ Up /\ UNCHANGED job /\ call[force].at \in {"idle", "done"}
    /\ call'[force].at \in {"signal", "cancel", "turn"} /\ call'[force].run = r
    /\ ledger[r].state # "absent"
    /\ \A q \in Runs : SameRun(q)

Forced ==
    LET r == call[force].run IN
    /\ Called(force) /\ r \in Runs /\ call[force].at \notin {"idle", "done", "job"}
    /\ \A q \in Runs : q # r => SameRun(q)
    /\ ledger'[r].state = ledger[r].state
    /\ task'[r].at = task[r].at /\ task'[r].from = task[r].from
    /\ \/ runtimes'[r] = runtimes[r]
       \/ Terminal(r) /\ Finished(r) /\ runtimes'[r] = "none"
    /\ call'[force].at # "idle" => call'[force].run = r
    /\ \/ UNCHANGED job /\ call'[force].at \in {"idle", "signal", "cancel", "wait", "drive"}
       \/ UNCHANGED job /\ call'[force].at = "rebuild" /\ SubmissionFree
       \/ /\ UNCHANGED job /\ call'[force].at = "done"
          /\ Terminal(r) \/ (Finished(r) /\ runtimes[r] = "none")
       \/ /\ call'[force].at = "job" /\ Undertakes(force, r)
          /\ call[force].at = "rebuild" \/ Finished(r)

\* A force call that moves without beginning a teardown.
LEMMA ForceMoves ==
    ASSUME TypeOK, call[force].run \in Runs, call[force].at \notin {"idle", "done", "job"},
           UNCHANGED <<root, doc, repository, process, capsule, engine, job, budget, kept>>,
           ledger' \in [Runs -> LedgerRecord], task' \in [Runs -> TaskRecord],
           \A q \in Runs : ledger'[q].state = ledger[q].state,
           \A q \in Runs : task'[q].at = task[q].at /\ task'[q].from = task[q].from,
           \/ UNCHANGED runtimes
           \/ /\ Terminal(call[force].run) /\ Finished(call[force].run)
              /\ runtimes' = [runtimes EXCEPT ![call[force].run] = "none"],
           \/ \E at \in {"signal", "cancel", "wait", "drive"} : go(force, at)
           \/ go(force, "rebuild") /\ SubmissionFree
           \/ returns(force)
           \/ /\ force_ok(call[force].run)
              /\ \/ Terminal(call[force].run)
                 \/ Finished(call[force].run) /\ runtimes[call[force].run] = "none"
    PROVE  TypeOK' /\ Forced
<1> DEFINE r == call[force].run
<1>0. /\ DiskOK /\ HostOK /\ ControlOK /\ call \in [Callers -> CallRecord]
      /\ runtimes \in [Runs -> {"none", "preparing", "running"}] /\ force \in Callers
  BY WorkerNames DEF TypeOK, ControlOK
<1>1. /\ call' \in [Callers -> CallRecord]
      /\ \A d \in Callers : d # force => call'[d] = call[d]
      /\ call'[force].at # "idle" => call'[force].run = r
      /\ \/ call'[force].at \in {"idle", "signal", "cancel", "wait", "drive"}
         \/ call'[force].at = "rebuild" /\ SubmissionFree
         \/ call'[force].at = "done" /\ (Terminal(r) \/ (Finished(r) /\ runtimes[r] = "none"))
  <2>1. CASE \E at \in {"signal", "cancel", "wait", "drive"} : go(force, at)
    <3>1. PICK at \in {"signal", "cancel", "wait", "drive"} : go(force, at)
      BY <2>1
    <3>2. at \in CallAts
      BY DEF CallAts
    <3> QED
      BY <1>0, <3>1, <3>2, CallMoves
  <2>2. CASE go(force, "rebuild") /\ SubmissionFree
    BY <1>0, <2>2, CallMoves DEF CallAts
  <2>3. CASE returns(force)
    BY <1>0, <2>3, CallMoves
  <2>4. CASE force_ok(r) /\ (Terminal(r) \/ (Finished(r) /\ runtimes[r] = "none"))
    <3> DEFINE new == [Idle EXCEPT !.at = "done", !.run = r]
    <3>1. new \in CallRecord /\ new.at = "done" /\ new.run = r
      BY ConstantTypes, LineageNames DEF CallRecord, CallAts
    <3>2. call' = [call EXCEPT ![force] = new]
      BY <2>4 DEF force_ok
    <3> HIDE DEF new
    <3> QED
      BY <1>0, <2>4, <3>1, <3>2
  <2> QED
    BY <2>1, <2>2, <2>3, <2>4
<1>2. /\ runtimes' \in [Runs -> {"none", "preparing", "running"}]
      /\ \A q \in Runs : q # r => runtimes'[q] = runtimes[q]
      /\ \/ runtimes'[r] = runtimes[r]
         \/ Terminal(r) /\ Finished(r) /\ runtimes'[r] = "none"
  BY <1>0
<1>3. TypeOK'
  BY <1>0, <1>1, <1>2 DEF TypeOK, DiskOK, HostOK, ControlOK
<1>4. Called(force) /\ \A q \in Runs : q # r => SameRun(q)
  BY <1>1, <1>2 DEF Called, FaultsGrow, SameRun
<1> QED
  BY <1>1, <1>2, <1>3, <1>4 DEF Forced

\* A force call that begins a teardown.
LEMMA ForceUndertakes ==
    ASSUME TypeOK, call[force].run \in Runs, call[force].at \notin {"idle", "done", "job"},
           ledger[call[force].run].state # "absent",
           UNCHANGED <<ledger, root, doc, repository, process, runtimes, task, capsule, engine,
                       budget, kept>>,
           task[call[force].run].at \in Resting,
           call[force].at = "rebuild" \/ Finished(call[force].run),
           NEW kind \in {"settle", "engine", "rebuild"},
           begin(force, kind, call[force].run, TRUE), go(force, "job")
    PROVE  TypeOK' /\ Forced
<1> DEFINE r == call[force].run
<1>0. /\ DiskOK /\ HostOK /\ ControlOK /\ call \in [Callers -> CallRecord]
      /\ job \in [Workers -> JobRecord] /\ force \in Callers /\ force \in Workers
      /\ kind \in Kinds
  BY WorkerNames DEF TypeOK, ControlOK, Kinds
<1>1. /\ job' \in [Workers -> JobRecord] /\ \A v \in Workers : v # force => job'[v] = job[v]
      /\ job'[force].kind = kind /\ job'[force].run = r
      /\ job'[force].step = IF kind = "settle" THEN "check" ELSE "destroy"
  <2>1. TRUE \in BOOLEAN /\ r \in Runs
    OBVIOUS
  <2> HIDE DEF r
  <2>2. begin(force, kind, r, TRUE)
    BY DEF r
  <2> QED
    BY <1>0, <2>1, <2>2, BeginType
<1>2. /\ call' \in [Callers -> CallRecord] /\ call'[force].at = "job" /\ call'[force].run = r
      /\ \A d \in Callers : d # force => call'[d] = call[d]
  BY <1>0, CallMoves DEF CallAts
<1>3. TypeOK'
  BY <1>0, <1>1, <1>2 DEF TypeOK, DiskOK, HostOK, ControlOK
<1>4. Called(force) /\ \A q \in Runs : SameRun(q)
  BY <1>1, <1>2 DEF Called, FaultsGrow, SameRun
<1>5. Undertakes(force, r)
  BY <1>1 DEF Undertakes
<1> QED
  BY <1>2, <1>3, <1>4, <1>5 DEF Forced, SameRun

\* Every step of a force call is one of these.
LEMMA ForceEffect ==
    ASSUME TypeOK, CallInv, RunInv
    PROVE  /\ \A r \in Runs : RequestForce(r) => TypeOK' /\ Requested(r)
           /\ ForceStep => TypeOK' /\ Forced
<1> DEFINE p == call[force].run
<1>0. /\ DiskOK /\ HostOK /\ ControlOK /\ call \in [Callers -> CallRecord]
      /\ ledger \in [Runs -> LedgerRecord] /\ task \in [Runs -> TaskRecord]
      /\ force \in Callers
  BY WorkerNames DEF TypeOK, ControlOK
<1>1. ASSUME NEW r \in Runs, RequestForce(r) PROVE TypeOK' /\ Requested(r)
  <2>1. /\ Up /\ call[force].at \in {"idle", "done"} /\ ledger[r].state # "absent"
        /\ UNCHANGED <<ledger, root, doc, repository, process, runtimes, task, capsule, engine,
                       job, budget, kept>>
    BY <1>1 DEF RequestForce, durable
  <2>2. PICK at \in {"signal", "cancel", "turn"} :
           call' = [call EXCEPT ![force] = [at |-> at, run |-> r, from |-> None]]
    BY <1>1 DEF RequestForce
  <2>3. at \in CallAts
    BY DEF CallAts
  <2>4. /\ call' \in [Callers -> CallRecord] /\ call'[force].at = at /\ call'[force].run = r
        /\ \A d \in Callers : d # force => call'[d] = call[d]
    BY <1>0, <2>2, <2>3, CallMoves, LineageNames
  <2>5. TypeOK'
    BY <1>0, <2>1, <2>4 DEF TypeOK, DiskOK, HostOK, ControlOK
  <2> QED
    BY <2>1, <2>4, <2>5 DEF Requested, Called, FaultsGrow, SameRun
<1>2. ASSUME ForceStep PROVE TypeOK' /\ Forced
  <2>1. call[force].at \in {"turn", "cancel", "wait", "signal", "drive", "rebuild"}
    BY <1>2 DEF ForceStep, ForceTurn, ForceCancel, ForceWaited, ForceSignal, ForceDriven,
                ForceRebuild
  <2>2. p \in Runs /\ ledger[p].state # "absent" /\ call[force].at \notin {"idle", "done", "job"}
    BY <1>0, <2>1, Names DEF CallInv, CallPlaces, StartInv, AcceptedInv
  <2>3. CASE ForceTurn
    <3>1. /\ SubmissionFree
          /\ UNCHANGED <<root, doc, repository, process, runtimes, task, capsule, engine, job,
                         budget, kept>>
      BY <2>3 DEF ForceTurn
    <3>2. /\ \/ go(force, "signal") \/ go(force, "cancel") \/ go(force, "rebuild")
             \/ force_ok(p) /\ Terminal(p)
          /\ UNCHANGED ledger \/ ledger' = [ledger EXCEPT ![p].force = TRUE]
      BY <2>3 DEF ForceTurn
    <3>3. ledger' \in [Runs -> LedgerRecord] /\ \A q \in Runs : ledger'[q].state = ledger[q].state
      <4>1. CASE UNCHANGED ledger
        BY <1>0, <4>1
      <4>2. CASE ledger' = [ledger EXCEPT ![p].force = TRUE]
        BY <1>0, <4>2 DEF LedgerRecord
      <4> QED
        BY <3>2, <4>1, <4>2
    <3>4. task' \in [Runs -> TaskRecord]
      BY <1>0, <3>1
    <3> QED
      BY <2>2, <3>1, <3>2, <3>3, <3>4, ForceMoves
  <2>4. CASE ForceCancel
    <3>1. /\ task' = [task EXCEPT ![p].cancel = TRUE] /\ go(force, "wait")
          /\ UNCHANGED <<ledger, root, doc, repository, process, runtimes, capsule, engine, job,
                         budget, kept>>
      BY <2>4 DEF ForceCancel, durable
    <3>2. /\ task' \in [Runs -> TaskRecord]
          /\ \A q \in Runs : task'[q].at = task[q].at /\ task'[q].from = task[q].from
      BY <1>0, <3>1 DEF TaskRecord
    <3>3. ledger' \in [Runs -> LedgerRecord] /\ \A q \in Runs : ledger'[q].state = ledger[q].state
      BY <1>0, <3>1
    <3> QED
      BY <2>2, <3>1, <3>2, <3>3, ForceMoves
  <2>5. CASE ForceWaited
    <3>1. /\ Finished(p)
          /\ UNCHANGED <<ledger, root, doc, repository, process, runtimes, task, capsule, engine,
                         budget, kept>>
      BY <2>5 DEF ForceWaited, durable
    <3>2. CASE UNCHANGED job /\ (go(force, "signal") \/ (runtimes[p] = "none" /\ force_ok(p)))
      <4>1. ledger' \in [Runs -> LedgerRecord] /\ task' \in [Runs -> TaskRecord]
        BY <1>0, <3>1
      <4> QED
        BY <2>2, <3>1, <3>2, <4>1, ForceMoves
    <3>3. CASE begin(force, "settle", p, TRUE) /\ go(force, "job")
      <4>1. task[p].at \in Resting
        BY <3>1 DEF Finished, Resting
      <4> QED
        BY <2>2, <3>1, <3>3, <4>1, ForceUndertakes
    <3> QED
      BY <2>5, <3>2, <3>3 DEF ForceWaited
  <2>6. CASE ForceSignal
    <3>1. /\ ledger' = [ledger EXCEPT ![p].force = @ \/ Open(p)] /\ go(force, "drive")
          /\ UNCHANGED <<root, doc, repository, process, runtimes, task, capsule, engine, job,
                         budget, kept>>
      BY <2>6 DEF ForceSignal
    <3>2. ledger' \in [Runs -> LedgerRecord] /\ \A q \in Runs : ledger'[q].state = ledger[q].state
      BY <1>0, <3>1 DEF LedgerRecord
    <3>3. task' \in [Runs -> TaskRecord]
      BY <1>0, <3>1
    <3> QED
      BY <2>2, <3>1, <3>2, <3>3, ForceMoves
  <2>7. CASE ForceDriven
    <3>1. /\ engine[p].at \in {"removable", "gone"}
          /\ UNCHANGED <<ledger, root, doc, repository, process, task, capsule, engine, budget,
                         kept>>
      BY <2>7 DEF ForceDriven, durable
    <3>2. Finished(p)
      BY <2>2, <3>1 DEF RunInv, RunOK
    <3>3. CASE Terminal(p)
      <4>1. runtimes' = [runtimes EXCEPT ![p] = "none"] /\ force_ok(p) /\ UNCHANGED job
        BY <2>7, <3>3 DEF ForceDriven
      <4>2. ledger' \in [Runs -> LedgerRecord] /\ task' \in [Runs -> TaskRecord]
        BY <1>0, <3>1
      <4> QED
        BY <2>2, <3>1, <3>2, <3>3, <4>1, <4>2, ForceMoves
    <3>4. CASE ~Terminal(p)
      <4>1. begin(force, "engine", p, TRUE) /\ go(force, "job") /\ UNCHANGED runtimes
        BY <2>7, <3>4 DEF ForceDriven
      <4>2. task[p].at \in Resting
        BY <3>2 DEF Finished, Resting
      <4> QED
        BY <2>2, <3>1, <3>2, <4>1, <4>2, ForceUndertakes
    <3> QED
      BY <3>3, <3>4
  <2>8. CASE ForceRebuild
    <3>1. /\ call[force].at = "rebuild"
          /\ UNCHANGED <<ledger, root, doc, repository, process, runtimes, task, capsule, engine,
                         budget, kept>>
      BY <2>8 DEF ForceRebuild, durable
    <3>2. CASE UNCHANGED job /\ ((Terminal(p) /\ force_ok(p)) \/ returns(force))
      <4>1. ledger' \in [Runs -> LedgerRecord] /\ task' \in [Runs -> TaskRecord]
        BY <1>0, <3>1
      <4> QED
        BY <2>2, <3>1, <3>2, <4>1, ForceMoves
    <3>3. CASE ~Claimed(p) /\ begin(force, "rebuild", p, TRUE) /\ go(force, "job")
      <4>1. task[p].at \in Resting
        BY <3>3 DEF Claimed, Resting
      <4> QED
        BY <2>2, <3>1, <3>3, <4>1, ForceUndertakes
    <3> QED
      BY <2>8, <3>2, <3>3 DEF ForceRebuild
  <2> QED
    BY <1>2, <2>3, <2>4, <2>5, <2>6, <2>7, <2>8 DEF ForceStep
<1> QED
  BY <1>1, <1>2

-----------------------------------------------------------------------------
(* Startup, and the steps that move nobody. *)

Booted ==
    /\ Called(boot) /\ ~Up /\ call[boot].at # "job" /\ \A q \in Runs : SameRun(q)
    /\ \/ /\ UNCHANGED job /\ call'[boot].at \in {"down", "unlink", "runs"}
          /\ call'[boot].at = "unlink" => call'[boot].run \in Runs
       \/ UNCHANGED job /\ call'[boot].at = "idle" /\ \A q \in Runs : ~Open(q)
       \/ /\ call'[boot].at = "job"
          /\ \E r \in Runs : Open(r) /\ job'[boot].run = r /\ job'[boot].kind = "lost"
                             /\ job'[boot].step = "destroy"

\* A startup that moves on without a teardown.
LEMMA BootMoves ==
    ASSUME TypeOK, ~Up, call[boot].at # "job", doc' \in [Runs -> DocRecord],
           UNCHANGED <<ledger, root, repository, process, runtimes, task, capsule, engine, job,
                       budget, kept>>,
           call' \in [Callers -> CallRecord],
           \A d \in Callers : d # boot => call'[d] = call[d],
           \/ /\ call'[boot].at \in {"down", "unlink", "runs"}
              /\ call'[boot].at = "unlink" => call'[boot].run \in Runs
           \/ call'[boot].at = "idle" /\ \A q \in Runs : ~Open(q)
    PROVE  TypeOK' /\ Booted
<1>1. TypeOK'
  BY DEF TypeOK, DiskOK, HostOK, ControlOK
<1> QED
  BY <1>1 DEF Booted, Called, FaultsGrow, SameRun

\* Every step of startup is of that kind.
LEMMA BootEffect ==
    ASSUME TypeOK, CallInv, BootStep
    PROVE  TypeOK' /\ Booted
<1>0. /\ DiskOK /\ HostOK /\ ControlOK /\ call \in [Callers -> CallRecord]
      /\ doc \in [Runs -> DocRecord] /\ job \in [Workers -> JobRecord]
      /\ boot \in Callers /\ boot \in Workers
  BY WorkerNames DEF TypeOK, ControlOK, DiskOK
<1>1. ASSUME NEW s \in Runs, ReconcileDocument(s) PROVE TypeOK' /\ Booted
  <2> DEFINE r == doc[s].successor
  <2>1. /\ call[boot].at = "down" /\ r # None
        /\ UNCHANGED <<ledger, root, repository, process, runtimes, task, capsule, engine, job,
                       budget, kept>>
    BY <1>1 DEF ReconcileDocument, Claims
  <2>2. /\ ~Up /\ r \in Runs /\ r \in Lineages /\ s \in Lineages /\ None \in Lineages
        /\ doc[s].delivery \in Lineages
    BY <1>0, <2>1, LineageNames DEF Up, DocRecord, Lineages
  <2>3. CASE /\ doc' = [doc EXCEPT ![s].recoverable = TRUE, ![s].successor = None]
             /\ call' = [call EXCEPT ![boot] = [at |-> "unlink", run |-> r, from |-> None]]
    <3>1. doc' \in [Runs -> DocRecord]
      <4> DEFINE new == [doc[s] EXCEPT !.recoverable = TRUE, !.successor = None]
      <4>1. new \in DocRecord
        BY <1>0, <2>2 DEF DocRecord
      <4>2. doc' = [doc EXCEPT ![s] = new]
        BY <1>0, <2>3 DEF DocRecord
      <4> HIDE DEF new
      <4> QED
        BY <1>0, <4>1, <4>2
    <3>2. /\ call' \in [Callers -> CallRecord] /\ call'[boot].at = "unlink"
          /\ call'[boot].run = r /\ \A d \in Callers : d # boot => call'[d] = call[d]
      BY <1>0, <2>2, <2>3, CallMoves DEF CallAts
    <3> QED
      BY <2>1, <2>2, <3>1, <3>2, BootMoves
  <2>4. CASE /\ doc' = [doc EXCEPT ![r].present = TRUE, ![r].from = s,
                                   ![r].delivery = doc[s].delivery]
             /\ UNCHANGED call
    <3>1. doc' \in [Runs -> DocRecord]
      <4> DEFINE new == [doc[r] EXCEPT !.present = TRUE, !.from = s,
                                       !.delivery = doc[s].delivery]
      <4>1. new \in DocRecord
        BY <1>0, <2>2 DEF DocRecord
      <4>2. doc' = [doc EXCEPT ![r] = new]
        BY <1>0, <2>2, <2>4 DEF DocRecord
      <4> HIDE DEF new
      <4> QED
        BY <1>0, <2>2, <4>1, <4>2
    <3> QED
      BY <1>0, <2>1, <2>2, <2>4, <3>1, BootMoves
  <2> QED
    BY <1>1, <2>3, <2>4 DEF ReconcileDocument
<1>2. ASSUME UnlinkSuccessor PROVE TypeOK' /\ Booted
  <2>1. /\ call[boot].at = "unlink" /\ doc' = [doc EXCEPT ![call[boot].run] = NoDoc]
        /\ call' = [call EXCEPT ![boot] = [Idle EXCEPT !.at = "down"]]
        /\ UNCHANGED <<ledger, root, repository, process, runtimes, task, capsule, engine, job,
                       budget, kept>>
    BY <1>2 DEF UnlinkSuccessor
  <2>2. ~Up /\ doc' \in [Runs -> DocRecord]
    BY <1>0, <2>1, ConstantTypes DEF Up
  <2>3. [Idle EXCEPT !.at = "down"] \in CallRecord /\ [Idle EXCEPT !.at = "down"].at = "down"
    BY ConstantTypes DEF CallRecord, CallAts
  <2>4. /\ call' \in [Callers -> CallRecord] /\ call'[boot].at = "down"
        /\ \A d \in Callers : d # boot => call'[d] = call[d]
    BY <1>0, <2>1, <2>3
  <2> QED
    BY <2>1, <2>2, <2>4, BootMoves
<1>3. ASSUME Reconciled PROVE TypeOK' /\ Booted
  <2>1. /\ call[boot].at = "down" /\ go(boot, "runs")
        /\ UNCHANGED <<ledger, root, doc, repository, process, runtimes, task, capsule, engine,
                       job, budget, kept>>
    BY <1>3 DEF Reconciled, durable
  <2>2. /\ call' \in [Callers -> CallRecord] /\ call'[boot].at = "runs"
        /\ \A d \in Callers : d # boot => call'[d] = call[d]
    BY <1>0, <2>1, CallMoves DEF CallAts
  <2>3. ~Up /\ doc' \in [Runs -> DocRecord]
    BY <1>0, <2>1 DEF Up
  <2> QED
    BY <2>1, <2>2, <2>3, BootMoves
<1>4. ASSUME Serve PROVE TypeOK' /\ Booted
  <2>1. /\ call[boot].at = "runs" /\ returns(boot) /\ \A q \in Runs : ~Open(q)
        /\ UNCHANGED <<ledger, root, doc, repository, process, runtimes, task, capsule, engine,
                       job, budget, kept>>
    BY <1>4 DEF Serve, durable
  <2>2. /\ call' \in [Callers -> CallRecord] /\ call'[boot].at = "idle"
        /\ \A d \in Callers : d # boot => call'[d] = call[d]
    BY <1>0, <2>1, CallMoves
  <2>3. ~Up /\ doc' \in [Runs -> DocRecord]
    BY <1>0, <2>1 DEF Up
  <2> QED
    BY <2>1, <2>2, <2>3, BootMoves
<1>5. ASSUME NEW r \in Runs, ReconcileRun(r) PROVE TypeOK' /\ Booted
  <2>1. /\ call[boot].at = "runs" /\ Open(r) /\ begin(boot, "lost", r, FALSE) /\ go(boot, "job")
        /\ UNCHANGED <<ledger, root, doc, repository, process, runtimes, task, capsule, engine,
                       budget, kept>>
    BY <1>5 DEF ReconcileRun, durable
  <2>2. /\ call' \in [Callers -> CallRecord] /\ call'[boot].at = "job"
        /\ \A d \in Callers : d # boot => call'[d] = call[d]
    BY <1>0, <2>1, CallMoves DEF CallAts
  <2>3. /\ job' \in [Workers -> JobRecord] /\ \A v \in Workers : v # boot => job'[v] = job[v]
        /\ job'[boot].kind = "lost" /\ job'[boot].run = r /\ job'[boot].step = "destroy"
    BY <1>0, <2>1, BeginType DEF Kinds
  <2>4. TypeOK'
    BY <1>0, <2>1, <2>2, <2>3 DEF TypeOK, DiskOK, HostOK, ControlOK
  <2>5. ~Up
    BY <2>1 DEF Up
  <2>6. Called(boot) /\ \A q \in Runs : SameRun(q)
    BY <2>1, <2>2, <2>3 DEF Called, FaultsGrow, SameRun
  <2> QED
    BY <2>1, <2>2, <2>3, <2>4, <2>5, <2>6 DEF Booted
<1> QED
  BY <1>1, <1>2, <1>3, <1>4, <1>5 DEF BootStep

\* Nobody moves.
Still == (\A q \in Runs : SameRun(q)) /\ UNCHANGED <<job, call, capsule>> /\ FaultsGrow

\* A discard, and a surviving process that exits.
LEMMA StillEffect ==
    ASSUME TypeOK
    PROVE  /\ \A r \in Runs : Discard(r) => TypeOK' /\ Still
           /\ \A i \in Identities : SurvivorExits(i) => TypeOK' /\ Still
           /\ UNCHANGED vars => TypeOK' /\ Still
<1>0. DiskOK /\ HostOK /\ ControlOK
  BY DEF TypeOK
<1>1. ASSUME NEW r \in Runs, Discard(r) PROVE TypeOK' /\ Still
  <2>1. /\ discard_workspace(r) \/ discard_fails(r)
        /\ Sound \/ Fault
        /\ UNCHANGED <<ledger, process, runtimes, task, capsule, engine, job, call>>
    BY <1>1 DEF Discard
  <2>2. DiskOK' /\ HostOK'
    BY <1>0, <2>1, DiscardType DEF HostOK
  <2>3. budget' \in [crashes : Nat, faults : Nat] /\ FaultsGrow
    BY <1>0, <2>1, FaultType DEF Sound, FaultsGrow, ControlOK
  <2>4. ControlOK'
    BY <1>0, <2>1, <2>3 DEF ControlOK
  <2> QED
    BY <2>1, <2>2, <2>3, <2>4 DEF TypeOK, Still, SameRun
<1>2. ASSUME NEW i \in Identities, SurvivorExits(i) PROVE TypeOK' /\ Still
  <2>1. UNCHANGED <<ledger, root, doc, repository, runtimes, task, capsule, engine, job, call,
                    budget, kept>>
    BY <1>2 DEF SurvivorExits, durable
  <2>2. process' \in [Identities -> SUBSET Runs]
    BY <1>0, <1>2 DEF SurvivorExits, HostOK
  <2> QED
    BY <1>0, <2>1, <2>2 DEF TypeOK, DiskOK, HostOK, ControlOK, Still, SameRun, FaultsGrow
<1>3. ASSUME UNCHANGED vars PROVE TypeOK' /\ Still
  BY <1>0, <1>3 DEF vars, TypeOK, DiskOK, HostOK, ControlOK, Still, SameRun, FaultsGrow
<1> QED
  BY <1>1, <1>2, <1>3

\* The controller process dies: what it held is gone.
Died ==
    /\ UNCHANGED ledger /\ UNCHANGED kept
    /\ \A r \in Runs : /\ runtimes'[r] = "none" /\ task'[r] = NoTask
                       /\ capsule'[r] = NoCapsule /\ engine'[r] = NoEngine
    /\ \A w \in Workers : job'[w] = NoJob
    /\ call'[boot].at = "down" /\ \A c \in Callers : c # boot => call'[c] = Idle

\* A crash does that.
LEMMA CrashEffect ==
    ASSUME TypeOK, Crash
    PROVE  TypeOK' /\ Died
<1>0. DiskOK /\ HostOK /\ ControlOK /\ boot \in Callers
  BY WorkerNames DEF TypeOK
<1>1. /\ budget' = [budget EXCEPT !.crashes = @ + 1]
      /\ runtimes' = [r \in Runs |-> "none"] /\ task' = [r \in Runs |-> NoTask]
      /\ capsule' = [r \in Runs |-> NoCapsule] /\ engine' = [r \in Runs |-> NoEngine]
      /\ job' = [w \in Workers |-> NoJob]
      /\ call' = [c \in Callers |-> IF c = boot THEN [Idle EXCEPT !.at = "down"] ELSE Idle]
      /\ process' \in {process, [i \in Identities |-> {}]}
      /\ UNCHANGED <<ledger, root, doc, repository, kept>>
  BY DEF Crash, durable
<1>2. [Idle EXCEPT !.at = "down"] \in CallRecord /\ [Idle EXCEPT !.at = "down"].at = "down"
  BY ConstantTypes DEF CallRecord, CallAts
<1>3. budget' \in [crashes : Nat, faults : Nat]
  BY <1>0, <1>1 DEF ControlOK
<1>4. process' \in [Identities -> SUBSET Runs] /\ capsule' \in [Runs -> CapsuleRecord]
  BY <1>0, <1>1, ConstantTypes DEF HostOK
<1>5. call' \in [Callers -> CallRecord]
  BY <1>1, <1>2, ConstantTypes
<1>6. ControlOK'
  BY <1>0, <1>1, <1>3, <1>5, ConstantTypes DEF ControlOK
<1>7. DiskOK' /\ HostOK'
  BY <1>0, <1>1, <1>4 DEF DiskOK, HostOK
<1>8. Died
  BY <1>0, <1>1, <1>2 DEF Died
<1> QED
  BY <1>6, <1>7, <1>8 DEF TypeOK

-----------------------------------------------------------------------------
(* Every step is one of these. *)

Effect ==
    \/ \E r \in Runs : Prepared(r) \/ Driven(r) \/ Submitted(r) \/ Resumed(r) \/ Requested(r)
    \/ \E w \in Workers : Worked(w)
    \/ \E c \in {submit, resume} : Started(c) \/ StartFailed(c)
    \/ Created \/ OrphanFailed \/ Forced \/ Booted \/ Still \/ Died

\* A step of the specification keeps the type and is one of these.
LEMMA StepEffect ==
    ASSUME IInv, [Next]_vars
    PROVE  TypeOK' /\ Effect
<1>0. TypeOK /\ HandoffInv /\ IdentityInv /\ JobInv /\ CallInv /\ RunInv
  BY DEF IInv
<1>1. ASSUME NEW r \in Runs, PreparationStep(r) PROVE TypeOK' /\ Effect
  BY <1>0, <1>1, PreparationEffect DEF Effect
<1>2. ASSUME NEW r \in Runs, EngineStep(r) PROVE TypeOK' /\ Effect
  BY <1>0, <1>2, EngineEffect DEF Effect
<1>3. ASSUME NEW r \in Runs, Submit(r) \/ \E s \in Runs : Resume(s, r) PROVE TypeOK' /\ Effect
  BY <1>0, <1>3, SubmissionEffect DEF Effect
<1>4. ASSUME NEW r \in Runs, RequestForce(r) PROVE TypeOK' /\ Effect
  BY <1>0, <1>4, ForceEffect DEF Effect
<1>5. ASSUME NEW r \in Runs, Discard(r) PROVE TypeOK' /\ Effect
  BY <1>0, <1>5, StillEffect DEF Effect
<1>6. ASSUME NEW w \in Workers, JobStep(w) PROVE TypeOK' /\ Effect
  BY <1>0, <1>6, JobEffect DEF Effect
<1>7. ASSUME CallStep PROVE TypeOK' /\ Effect
  <2>1. CASE FailOrphaned
    BY <1>0, <2>1, StartEffect DEF Effect
  <2>2. CASE CreateSuccessor
    <3>1. call[resume].run \in Runs
      BY <1>0, <2>2, Names, WorkerNames DEF CallInv, CallPlaces, StartInv, AcceptedInv, CreateSuccessor
    <3> QED
      BY <1>0, <2>2, <3>1, SubmissionEffect DEF Effect
  <2>3. CASE ForceStep
    BY <1>0, <2>3, ForceEffect DEF Effect
  <2>4. CASE \E c \in {submit, resume} : StartPreparation(c) \/ StartPreparationFails(c)
    BY <1>0, <2>4, StartEffect DEF Effect
  <2> QED
    BY <1>7, <2>1, <2>2, <2>3, <2>4 DEF CallStep
<1>8. ASSUME BootStep PROVE TypeOK' /\ Effect
  BY <1>0, <1>8, BootEffect DEF Effect
<1>9. ASSUME Crash PROVE TypeOK' /\ Effect
  BY <1>0, <1>9, CrashEffect DEF Effect
<1>10. ASSUME NEW i \in Identities, SurvivorExits(i) PROVE TypeOK' /\ Effect
  BY <1>0, <1>10, StillEffect DEF Effect
<1>11. ASSUME UNCHANGED vars PROVE TypeOK' /\ Effect
  BY <1>0, <1>11, StillEffect DEF Effect
<1> QED
  BY <1>1, <1>2, <1>3, <1>4, <1>5, <1>6, <1>7, <1>8, <1>9, <1>10, <1>11 DEF Next

-----------------------------------------------------------------------------
(* The runs. *)

\* A run that a step does not touch stays as it should be.
LEMMA SameRunOK ==
    ASSUME NEW q \in Runs, RunOK(q), SameRun(q), FaultsGrow
    PROVE  RunOK(q)'
BY DEF RunOK, SameRun, FaultsGrow, Finished, Terminal

\* A run that is being started has no engine and no teardown.
LEMMA StartsAlone ==
    ASSUME TypeOK, JobInv, CallInv, DownInv, NEW c \in {submit, resume}, call[c].at = "start"
    PROVE  \A w \in Workers : job[w].step # "none" => job[w].run # call[c].run
<1> SUFFICES ASSUME NEW w \in Workers, job[w].step # "none", job[w].run = call[c].run
             PROVE  FALSE
  OBVIOUS
<1>0. c \in Callers \ {boot}
  BY Names, WorkerNames
<1>1. task[call[c].run].at = "none"
  BY DEF CallInv, CallPlaces, StartInv, AcceptedInv
<1>2. JobOK(w)
  BY DEF JobInv
<1>3. CASE w \in Runs
  BY <1>1, <1>2, <1>3 DEF JobOK
<1>4. CASE w = submit \/ w = resume
  BY <1>2, <1>4, Names, WorkerNames DEF JobOK, CallInv, CallPlaces, StartInv, AcceptedInv
<1>5. CASE w = force
  BY <1>2, <1>5, WorkerNames DEF JobOK, CallInv, CallPlaces, StartInv, AcceptedInv
<1>6. CASE w = boot
  <2>1. ~Up
    BY <1>2, <1>6, WorkerNames DEF JobOK, Up
  <2> QED
    BY <1>0, <2>1 DEF DownInv
<1> QED
  BY <1>3, <1>4, <1>5, <1>6, WorkerNames

\* Every step keeps the runs as they should be.
LEMMA RunStep ==
    ASSUME IInv, TypeOK', Effect
    PROVE  RunInv'
<1>0. TypeOK /\ JobInv /\ CallInv /\ DownInv /\ RunInv /\ ledger \in [Runs -> LedgerRecord]
      /\ ledger' \in [Runs -> LedgerRecord]
  BY DEF IInv, TypeOK, ControlOK
<1> SUFFICES ASSUME NEW q \in Runs PROVE RunOK(q)'
  BY DEF RunInv
<1>a. RunOK(q)
  BY <1>0 DEF RunInv
<1>b. CASE SameRun(q) /\ FaultsGrow
  BY <1>a, <1>b, SameRunOK
<1>1. ASSUME NEW r \in Runs, Prepared(r) PROVE RunOK(q)'
  <2>1. CASE q # r
    BY <1>1, <1>b, <2>1 DEF Prepared
  <2>2. CASE q = r
    <3>1. task[q].at \in Preparation /\ UNCHANGED ledger /\ FaultsGrow
      BY <1>1, <2>2 DEF Prepared
    <3>2. /\ ledger[q].state # "absent" /\ ~Terminal(q) /\ engine[q].at = "off"
          /\ runtimes[q] = "preparing"
      BY <1>a, <3>1 DEF RunOK, Preparation, Resting, Finished
    <3>3. CASE Progresses(q)
      BY <1>a, <3>1, <3>2, <3>3 DEF Progresses, RunOK, Terminal, Finished, FaultsGrow, Preparation,
                                    Unbuilt, Resting
    <3>4. CASE Settles(q)
      BY <1>a, <3>1, <3>2, <3>4 DEF Settles, RunOK, Terminal, Finished, FaultsGrow, Preparation,
                                    Unbuilt, Resting
    <3>5. CASE HandsOver(q)
      BY <1>a, <3>1, <3>2, <3>5 DEF HandsOver, RunOK, Terminal, Finished, FaultsGrow, Preparation,
                                    Unbuilt, Resting
    <3> QED
      BY <1>1, <2>2, <3>3, <3>4, <3>5 DEF Prepared
  <2> QED
    BY <2>1, <2>2
<1>2. ASSUME NEW r \in Runs, Driven(r) PROVE RunOK(q)'
  <2>1. CASE q # r
    BY <1>2, <1>b, <2>1 DEF Driven
  <2>2. CASE q = r
    <3>1. Finished(q) /\ task'[q].at = "finished" /\ Driven(q)
      BY <1>2, <1>a, <2>2 DEF Driven, RunOK, Finished
    <3>2. ledger[q].state # "absent" /\ ledger'[q].state # "absent"
      BY <1>a, <3>1 DEF Driven, RunOK, Finished, EndedNow
    <3>3. Terminal(q)' => ~capsule'[q].active
      BY <1>a, <3>1 DEF Driven, RunOK, Terminal
    <3>4. Terminal(q) => Terminal(q)'
      BY <3>1 DEF Driven, Terminal, EndedNow
    <3>5. engine'[q].at \in {"removable", "gone"} => Terminal(q)' \/ engine'[q].again
      BY <1>a, <3>1, <3>4 DEF Driven, RunOK, Terminal, EndedNow
    <3>6. runtimes'[q] = "none" => Terminal(q)' \/ engine'[q].again
      BY <1>a, <3>1, <3>4 DEF Driven, RunOK
    <3>7. engine'[q].again => budget'.faults # 0
      BY <1>a, <3>1 DEF Driven, RunOK, FaultsGrow
    <3>8. engine'[q].at = "append" => ~capsule'[q].active
      BY <3>1 DEF Driven
    <3> QED
      BY <3>1, <3>2, <3>3, <3>5, <3>6, <3>7, <3>8 DEF RunOK, Finished, Preparation, Unbuilt, Resting
  <2> QED
    BY <2>1, <2>2
<1>3. ASSUME NEW w \in Workers, Worked(w) PROVE RunOK(q)'
  <2> DEFINE r == job[w].run
  <2>0. /\ r \in Runs /\ ledger[r].state # "absent"
        /\ job[w].step = "append" => ~capsule[r].active
        /\ job[w].step = "unslot" => Terminal(r)
        /\ w \in Runs => r = w /\ task[r].at = "settle"
        /\ w \in Callers => task[r].at \in Resting
        /\ job[w].kind = "init" => job[w].step # "unslot"
    BY <1>0, <1>3 DEF JobInv, JobOK, Worked
  <2>1. FaultsGrow /\ UNCHANGED engine
    BY <1>3 DEF Worked
  <2>2. \/ task'[q] = task[q]
        \/ w \in Runs /\ q = r /\ task'[q].at = "finished" /\ job[w].kind # "init"
    BY <1>3, <2>0 DEF Worked, Carries, Ended
  <2>3. CASE q # r
    <3>1. SameRun(q)
      BY <1>3, <2>1, <2>2, <2>3 DEF Worked, SameRun
    <3> QED
      BY <1>b, <2>1, <3>1
  <2>4. CASE q = r
    <3>1. capsule'[q].active => capsule[q].active
      BY <1>3, <2>4 DEF Worked
    <3>2. \/ ledger'[q].state = ledger[q].state
          \/ ~capsule[q].active /\ Terminal(q)'
      BY <1>3, <2>0, <2>4 DEF Worked, EndedNow, Terminal
    <3>3. \/ runtimes'[q] = runtimes[q]
          \/ Terminal(q)' /\ runtimes'[q] = "none" /\ job[w].step = "unslot"
      BY <1>3, <2>0, <2>4 DEF Worked, EndedNow, Terminal
    <3>4. task[q].at \in Resting \cup {"settle"} /\ ledger[q].state # "absent"
      BY <2>0, <2>4, WorkerNames
    <3>5. CASE task'[q] = task[q]
      <4>1. task[q].at = "settle" => runtimes'[q] = runtimes[q]
        <5> SUFFICES ASSUME task[q].at = "settle", job[w].step = "unslot",
                            ~UNCHANGED runtimes
                     PROVE  FALSE
          BY <3>3
        <5>1. w \in Runs /\ w = q
          BY <2>0, <2>4, WorkerNames DEF Resting
        <5>2. Ended(w, FALSE) \/ Ended(w, TRUE)
          BY <1>3 DEF Worked, Carries
        <5> QED
          BY <2>0, <3>5, <5>1, <5>2, WorkerNames DEF Ended
      <4> QED
        BY <1>a, <2>1, <3>1, <3>2, <3>3, <3>4, <3>5, <4>1
           DEF RunOK, Terminal, Finished, FaultsGrow, Preparation, Unbuilt, Resting
    <3>6. CASE task'[q].at = "finished" /\ task[q].at = "settle"
      <4>1. runtimes[q] = "preparing" /\ engine[q].at = "off"
        BY <1>a, <3>6 DEF RunOK, Resting, Finished
      <4> QED
        BY <1>a, <2>1, <3>1, <3>2, <3>3, <3>4, <3>6, <4>1
           DEF RunOK, Terminal, Finished, FaultsGrow, Preparation, Unbuilt, Resting
    <3> QED
      BY <2>0, <2>2, <2>4, <3>5, <3>6
  <2> QED
    BY <2>3, <2>4
<1>4. ASSUME NEW r \in Runs, Submitted(r) PROVE RunOK(q)'
  <2>1. FaultsGrow
    BY <1>4 DEF Submitted, Called
  <2>2. CASE q # r \/ SameRun(q)
    BY <1>4, <1>b, <2>1, <2>2 DEF Submitted
  <2>3. CASE q = r /\ ~SameRun(q)
    <3>1. /\ ledger[q].state = "absent" /\ ledger'[q].state = "open"
          /\ UNCHANGED <<task, runtimes, engine, capsule>>
      BY <1>4, <2>3 DEF Submitted, Called
    <3> QED
      BY <1>a, <2>1, <3>1 DEF RunOK, Terminal, Finished, FaultsGrow, Preparation, Unbuilt, Resting
  <2> QED
    BY <2>2, <2>3
<1>5. CASE Created
  <2> DEFINE r == call[resume].run
  <2>1. FaultsGrow /\ r \in Runs /\ ledger[r].state = "absent"
    BY <1>0, <1>5, Names, WorkerNames DEF Created, Called, CallInv, CallPlaces, StartInv, AcceptedInv
  <2>2. CASE q # r
    BY <1>5, <1>b, <2>1, <2>2 DEF Created
  <2>3. CASE q = r
    <3>1. ledger'[q].state = "open" /\ UNCHANGED <<task, runtimes, engine, capsule>>
      BY <1>5, <2>3 DEF Created, Called
    <3> QED
      BY <1>a, <2>1, <2>3, <3>1 DEF RunOK, Terminal, Finished, FaultsGrow, Preparation, Unbuilt, Resting
  <2> QED
    BY <2>2, <2>3
<1>6. ASSUME NEW c \in {submit, resume}, Started(c) PROVE RunOK(q)'
  <2> DEFINE r == call[c].run
  <2>1. FaultsGrow /\ Open(r) /\ task[r].at = "none" /\ engine[r].at = "off"
    BY <1>0, <1>6 DEF Started, Called, CallInv, CallPlaces, StartInv, AcceptedInv
  <2>2. CASE q # r
    BY <1>6, <1>b, <2>1, <2>2 DEF Started
  <2>3. CASE q = r
    <3>1. /\ runtimes'[q] = "preparing" /\ task'[q].at = "queued"
          /\ UNCHANGED <<ledger, engine, capsule>>
      BY <1>6, <2>3 DEF Started, Called
    <3> QED
      BY <1>a, <2>1, <2>3, <3>1 DEF RunOK, Terminal, Open, Finished, FaultsGrow, Preparation, Unbuilt, Resting
  <2> QED
    BY <2>2, <2>3
<1>7. CASE Forced
  <2> DEFINE r == call[force].run
  <2>1. FaultsGrow /\ UNCHANGED <<engine, capsule>>
    BY <1>7 DEF Forced, Called
  <2>2. CASE q # r
    BY <1>7, <1>b, <2>1, <2>2 DEF Forced
  <2>3. CASE q = r
    <3>1. /\ ledger'[q].state = ledger[q].state /\ task'[q].at = task[q].at
          /\ \/ runtimes'[q] = runtimes[q]
             \/ Terminal(q) /\ Finished(q) /\ runtimes'[q] = "none"
      BY <1>7, <2>3 DEF Forced
    <3> QED
      BY <1>a, <2>1, <3>1 DEF RunOK, Terminal, Finished, FaultsGrow, Preparation, Unbuilt, Resting
  <2> QED
    BY <2>2, <2>3
<1>8. CASE Died
  <2>1. task'[q].at = "none" /\ ~capsule'[q].active /\ engine'[q].at = "off" /\ ~engine'[q].again
    BY <1>8 DEF Died, NoTask, NoCapsule, NoEngine
  <2> QED
    BY <2>1 DEF RunOK, Finished, Preparation, Unbuilt, Resting
<1>9. ASSUME NEW r \in Runs, Resumed(r) \/ Requested(r) PROVE RunOK(q)'
  BY <1>9, <1>b DEF Resumed, Requested, Called
<1>10. ASSUME NEW c \in {submit, resume}, StartFailed(c) PROVE RunOK(q)'
  BY <1>10, <1>b DEF StartFailed, Called
<1>11. CASE OrphanFailed \/ Booted \/ Still
  BY <1>11, <1>b DEF OrphanFailed, Booted, Still, Called
<1> QED
  BY <1>1, <1>2, <1>3, <1>4, <1>5, <1>6, <1>7, <1>8, <1>9, <1>10, <1>11 DEF Effect

\* A handoff keeps its source.
LEMMA HandoffStep ==
    ASSUME IInv, Effect
    PROVE  HandoffInv'
<1>0. HandoffInv /\ JobInv
  BY DEF IInv
<1> SUFFICES ASSUME NEW q \in Runs, task'[q].at \in {"link", "rename"}
             PROVE  task'[q].from \in Runs
  BY DEF HandoffInv
<1>a. CASE task'[q].at = task[q].at /\ task'[q].from = task[q].from
  BY <1>0, <1>a DEF HandoffInv
<1>1. ASSUME NEW r \in Runs, Prepared(r) PROVE task'[q].from \in Runs
  BY <1>1, <1>a DEF Prepared, Progresses, Settles, HandsOver, SameRun
<1>2. ASSUME NEW r \in Runs, Driven(r) \/ Submitted(r) \/ Resumed(r) \/ Requested(r)
      PROVE  task'[q].from \in Runs
  BY <1>2, <1>a DEF Driven, Submitted, Resumed, Requested, SameRun
<1>3. ASSUME NEW w \in Workers, Worked(w) PROVE task'[q].from \in Runs
  BY <1>3, <1>a DEF Worked, Carries, Ended
<1>4. ASSUME NEW c \in {submit, resume}, Started(c) \/ StartFailed(c)
      PROVE  task'[q].from \in Runs
  BY <1>4, <1>a DEF Started, StartFailed, SameRun
<1>5. CASE Created \/ OrphanFailed \/ Booted \/ Still
  BY <1>5, <1>a DEF Created, OrphanFailed, Booted, Still, SameRun
<1>6. CASE Forced
  BY <1>6, <1>a DEF Forced, SameRun
<1>7. CASE Died
  BY <1>7 DEF Died, NoTask
<1> QED
  BY <1>1, <1>2, <1>3, <1>4, <1>5, <1>6, <1>7 DEF Effect

-----------------------------------------------------------------------------
(* The teardowns. *)

\* What a teardown relies on, and a step by somebody else leaves it.
Relied(w) ==
    LET r == job[w].run IN
    /\ job'[w] = job[w]
    /\ ledger[r].state # "absent" => ledger'[r].state # "absent"
    /\ Terminal(r) => EndedNow(r)
    /\ w \in Runs => (task[w].at = "settle" => task'[w].at = "settle")
    /\ w \in Callers => (task[r].at \in Resting => task'[r].at \in Resting)
    /\ w \in Callers => (call[w].at = "job" => call'[w] = call[w])
    /\ capsule'[r].active => capsule[r].active

\* Then the teardown stays as it should be.
LEMMA ReliedOK ==
    ASSUME NEW w \in Workers, JobOK(w), job[w].step # "none" => Relied(w), job'[w] = job[w]
    PROVE  JobOK(w)'
<1> SUFFICES ASSUME job[w].step # "none" PROVE JobOK(w)'
  BY DEF JobOK
<1>1. Relied(w)
  OBVIOUS
<1>2. force \in Callers
  BY WorkerNames
<1> QED
  BY <1>1, <1>2 DEF Relied, JobOK, Terminal, EndedNow

\* A step that leaves the run and the call of a teardown alone.
LEMMA UntouchedRelied ==
    ASSUME NEW w \in Workers, job'[w] = job[w], SameRun(job[w].run), JobOK(w),
           w \in Callers => (call[w].at = "job" => call'[w] = call[w])
    PROVE  job[w].step # "none" => Relied(w)
BY DEF Relied, SameRun, JobOK, Terminal, EndedNow

\* A teardown that a call undertakes is as it should be.
LEMMA UndertakenOK ==
    ASSUME NEW w \in Callers, NEW r, Undertakes(w, r), SameRun(r),
           call'[w].at = "job", w = force => call'[w].run = r
    PROVE  JobOK(w)'
BY WorkerNames DEF Undertakes, SameRun, JobOK

\* Every step keeps the teardowns as they should be.
LEMMA TeardownStep ==
    ASSUME IInv, TypeOK', Effect
    PROVE  JobInv'
<1>0. TypeOK /\ JobInv /\ CallInv /\ DownInv /\ RunInv
  BY DEF IInv
<1> SUFFICES ASSUME NEW v \in Workers PROVE JobOK(v)'
  BY DEF JobInv
<1> DEFINE p == job[v].run
<1>a. JobOK(v)
  BY <1>0 DEF JobInv
<1>b. ASSUME job'[v] = job[v], job[v].step # "none" => SameRun(p),
             v \in Callers => (call[v].at = "job" => call'[v] = call[v])
      PROVE  JobOK(v)'
  BY <1>a, <1>b, UntouchedRelied, ReliedOK
<1>c. job[v].step # "none" => p \in Runs /\ ledger[p].state # "absent"
  BY <1>a DEF JobOK
<1>1. ASSUME NEW r \in Runs, Prepared(r) PROVE JobOK(v)'
  <2>1. task[r].at \notin Resting /\ task[r].at # "settle"
    BY <1>1 DEF Prepared, Preparation, Resting
  <2>2. job[v].step # "none" => p # r
    BY <1>a, <2>1, WorkerNames DEF JobOK
  <2>3. CASE v # r \/ UNCHANGED job
    BY <1>1, <1>b, <1>c, <2>2, <2>3 DEF Prepared
  <2>4. CASE v = r /\ ~UNCHANGED job
    <3>1. Settles(r)
      BY <1>1, <2>4 DEF Prepared, Progresses, HandsOver
    <3>2. ledger'[r].state # "absent"
      <4>1. ledger[r].state # "absent"
        BY <1>0, <1>1 DEF Prepared, Preparation, RunInv, RunOK
      <4> QED
        BY <1>1, <4>1 DEF Prepared
    <3> QED
      BY <2>4, <3>1, <3>2, Names, WorkerNames DEF Settles, JobOK
  <2> QED
    BY <2>3, <2>4
<1>2. ASSUME NEW r \in Runs, Driven(r) PROVE JobOK(v)'
  <2>1. UNCHANGED <<task, job, call>>
    BY <1>2 DEF Driven
  <2>2. job[v].step # "none" => Relied(v)
    <3> SUFFICES ASSUME job[v].step # "none" PROVE Relied(v)
      OBVIOUS
    <3>1. CASE p # r
      BY <1>2, <1>c, <2>1, <3>1, <1>a, UntouchedRelied DEF Driven
    <3>2. CASE p = r
      BY <1>2, <2>1, <3>2 DEF Relied, Driven, Terminal, EndedNow
    <3> QED
      BY <3>1, <3>2
  <2> QED
    BY <1>a, <2>1, <2>2, ReliedOK
<1>3. ASSUME NEW w \in Workers, Worked(w) PROVE JobOK(v)'
  <2> DEFINE r == job[w].run
  <2>0. JobOK(w) /\ job[w].step # "none" /\ r \in Runs /\ ledger[r].state # "absent"
    BY <1>0, <1>3 DEF JobInv, JobOK, Worked
  <2>1. CASE v = w
    <3>1. CASE Carries(w)
      <4>1. /\ UNCHANGED <<task, call>> /\ job'[w].run = r
            /\ job'[w].kind = "init" => job'[w].step \in {"destroy", "append"}
            /\ job'[w].step = "append" => ~capsule'[r].active
            /\ job'[w].step \in {"unslot", "discard"} => EndedNow(r)
        BY <3>1 DEF Carries
      <4>2. ledger'[r].state # "absent"
        BY <1>3, <2>0 DEF Worked, EndedNow
      <4> QED
        BY <2>0, <2>1, <4>1, <4>2 DEF JobOK, Terminal, EndedNow
    <3>2. CASE Ended(w, TRUE) \/ Ended(w, FALSE)
      <4>1. CASE job'[w].step = "none"
        BY <2>1, <4>1 DEF JobOK
      <4>2. CASE job'[w].step # "none"
        <5>1. /\ w \in Runs /\ UNCHANGED <<task, call>>
              /\ job'[w].kind = "settle" /\ job'[w].run = w /\ job'[w].step = "check"
          BY <3>2, <4>2 DEF Ended
        <5>2. r = w /\ task[w].at = "settle"
          BY <2>0, <5>1 DEF JobOK
        <5>3. ledger'[w].state # "absent"
          BY <1>3, <2>0, <5>2 DEF Worked, EndedNow
        <5> QED
          BY <2>1, <5>1, <5>2, <5>3, Names, WorkerNames DEF JobOK
      <4> QED
        BY <4>1, <4>2
    <3> QED
      BY <1>3, <3>1, <3>2 DEF Worked
  <2>2. CASE v # w
    <3>1. job'[v] = job[v]
      BY <1>3, <2>2 DEF Worked
    <3> SUFFICES ASSUME job[v].step # "none" PROVE Relied(v)
      BY <1>a, <3>1, ReliedOK
    <3>2. v \in Callers => call'[v] = call[v]
      BY <1>3, <2>2 DEF Worked, Carries, Ended
    <3>3. /\ ledger[p].state # "absent" => ledger'[p].state # "absent"
          /\ Terminal(p) => EndedNow(p)
          /\ capsule'[p].active => capsule[p].active
      BY <1>3, <1>c DEF Worked, EndedNow, Terminal
    <3>4. w \in Runs => r = w /\ task[w].at = "settle"
      BY <2>0 DEF JobOK
    <3>5. v \in Runs => task'[v] = task[v]
      BY <1>3, <2>2 DEF Worked, Carries, Ended
    <3>6. v \in Callers => (task[p].at \in Resting => task'[p] = task[p])
      BY <1>3, <1>c, <3>4 DEF Worked, Carries, Ended, Resting
    <3> QED
      BY <3>1, <3>2, <3>3, <3>5, <3>6 DEF Relied
  <2> QED
    BY <2>1, <2>2
<1>4. ASSUME NEW r \in Runs, Submitted(r) PROVE JobOK(v)'
  <2>1. job[v].step # "none" => SameRun(p)
    BY <1>4, <1>c DEF Submitted
  <2>2. call[submit].at # "job"
    BY <1>4 DEF Submitted, SubmissionFree
  <2> QED
    BY <1>4, <1>b, <2>1, <2>2 DEF Submitted, Called
<1>5. CASE Created
  <2>1. ledger[call[resume].run].state = "absent"
    BY <1>0, <1>5 DEF Created, CallInv, CallPlaces, StartInv, AcceptedInv
  <2>2. job[v].step # "none" => SameRun(p)
    BY <1>5, <1>c, <2>1 DEF Created
  <2> QED
    BY <1>5, <1>b, <2>2 DEF Created, Called
<1>6. ASSUME NEW c \in {submit, resume}, Started(c) PROVE JobOK(v)'
  <2>1. job[v].step # "none" => p # call[c].run
    BY <1>0, <1>6, StartsAlone DEF Started
  <2>2. job[v].step # "none" => SameRun(p)
    BY <1>6, <1>c, <2>1 DEF Started
  <2> QED
    BY <1>6, <1>b, <2>2 DEF Started, Called
<1>7. ASSUME NEW r \in Runs, Resumed(r) PROVE JobOK(v)'
  BY <1>7, <1>b, <1>c DEF Resumed, Called, SubmissionFree
<1>8. ASSUME NEW r \in Runs, Requested(r) PROVE JobOK(v)'
  BY <1>8, <1>b, <1>c DEF Requested, Called
<1>9. ASSUME NEW c \in {submit, resume}, StartFailed(c) PROVE JobOK(v)'
  BY <1>9, <1>b, <1>c DEF StartFailed, Called
<1>10. CASE OrphanFailed
  <2>0. Called(submit) /\ call[submit].at = "orphan" /\ \A q \in Runs : SameRun(q)
    BY <1>10 DEF OrphanFailed
  <2>1. CASE v # submit \/ UNCHANGED job
    BY <1>b, <1>c, <2>0, <2>1 DEF Called
  <2>2. CASE v = submit /\ ~UNCHANGED job
    <3>1. Undertakes(submit, call[submit].run) /\ call'[submit].at = "job"
      BY <1>10, <2>2 DEF OrphanFailed
    <3>2. SameRun(call[submit].run)
      BY <2>0, <3>1 DEF Undertakes
    <3> QED
      BY <2>2, <3>1, <3>2, Names, WorkerNames, UndertakenOK
  <2> QED
    BY <2>1, <2>2
<1>11. CASE Forced
  <2> DEFINE r == call[force].run
  <2>0. /\ Called(force) /\ call[force].at # "job" /\ r \in Runs
        /\ \A q \in Runs : q # r => SameRun(q)
        /\ ledger'[r].state = ledger[r].state /\ task'[r].at = task[r].at
        /\ UNCHANGED capsule
    BY <1>11 DEF Forced, Called
  <2>1. CASE v # force \/ UNCHANGED job
    <3>1. job'[v] = job[v] /\ (v \in Callers => (call[v].at = "job" => call'[v] = call[v]))
      BY <2>0, <2>1 DEF Called
    <3>2. job[v].step # "none" => Relied(v)
      <4> SUFFICES ASSUME job[v].step # "none" PROVE Relied(v)
        OBVIOUS
      <4>1. CASE p # r
        BY <1>a, <1>c, <2>0, <3>1, <4>1, UntouchedRelied
      <4>2. CASE p = r
        <5>1. v \in Runs => v = r
          BY <1>a, <4>2 DEF JobOK
        <5> QED
          BY <2>0, <3>1, <4>2, <5>1 DEF Relied, Terminal, EndedNow
      <4> QED
        BY <4>1, <4>2
    <3> QED
      BY <1>a, <3>1, <3>2, ReliedOK
  <2>2. CASE v = force /\ ~UNCHANGED job
    <3>1. Undertakes(force, r) /\ call'[force].at = "job" /\ call'[force].run = r
      BY <1>11, <2>2 DEF Forced
    <3> QED
      BY <2>0, <2>2, <3>1, WorkerNames DEF Undertakes, JobOK
  <2> QED
    BY <2>1, <2>2
<1>12. CASE Booted
  <2>0. Called(boot) /\ ~Up /\ call[boot].at # "job" /\ \A q \in Runs : SameRun(q)
    BY <1>12 DEF Booted
  <2>1. CASE v # boot
    BY <1>b, <1>c, <2>0, <2>1 DEF Called
  <2>2. CASE v = boot /\ call'[boot].at = "job"
    <3>1. PICK r \in Runs : Open(r) /\ job'[boot].run = r /\ job'[boot].kind = "lost"
                            /\ job'[boot].step = "destroy"
      BY <1>12, <2>2 DEF Booted
    <3>2. task[r].at = "none"
      BY <1>0, <2>0 DEF DownInv
    <3>3. Undertakes(boot, r) /\ SameRun(r)
      BY <2>0, <3>1, <3>2 DEF Undertakes, Resting, Open
    <3> QED
      BY <2>2, <3>3, Names, WorkerNames, UndertakenOK
  <2>3. CASE v = boot /\ call'[boot].at # "job"
    <3>1. UNCHANGED job
      BY <1>12, <2>3 DEF Booted
    <3>2. job[boot].step = "none"
      BY <1>a, <2>0, <2>3, WorkerNames DEF JobOK
    <3> QED
      BY <2>3, <3>1, <3>2 DEF JobOK
  <2> QED
    BY <2>1, <2>2, <2>3
<1>13. CASE Still
  BY <1>13, <1>b, <1>c DEF Still
<1>14. CASE Died
  <2>1. job'[v].step = "none"
    BY <1>14 DEF Died, NoJob
  <2> QED
    BY <2>1 DEF JobOK
<1> QED
  BY <1>1, <1>2, <1>3, <1>4, <1>5, <1>6, <1>7, <1>8, <1>9, <1>10, <1>11, <1>12, <1>13, <1>14
     DEF Effect

-----------------------------------------------------------------------------
(* The calls. *)

\* Everybody is in a place of its own.
LEMMA PlacesStep ==
    ASSUME IInv, TypeOK', Effect
    PROVE  CallPlaces'
<1>0. TypeOK /\ JobInv /\ CallPlaces
  BY DEF IInv, CallInv
<1>n. /\ {submit, resume, force, boot} \subseteq Callers
      /\ submit # resume /\ submit # force /\ submit # boot
      /\ resume # force /\ resume # boot /\ force # boot
      /\ \A c \in Callers : c \in {submit, resume, force, boot}
  BY Names, WorkerNames
<1>a. CASE UNCHANGED call
  BY <1>0, <1>a DEF CallPlaces
<1>1. ASSUME NEW r \in Runs, Prepared(r) \/ Driven(r) PROVE CallPlaces'
  BY <1>1, <1>a DEF Prepared, Driven
<1>2. CASE Still
  BY <1>2, <1>a DEF Still
<1>3. ASSUME NEW r \in Runs, Submitted(r) \/ Resumed(r) PROVE CallPlaces'
  <2>1. CASE Submitted(r)
    BY <1>0, <1>n, <2>1 DEF Submitted, Called, SubmissionFree, CallPlaces
  <2>2. CASE Resumed(r)
    BY <1>0, <1>n, <2>2 DEF Resumed, Called, SubmissionFree, CallPlaces
  <2> QED
    BY <1>3, <2>1, <2>2
<1>4. ASSUME NEW r \in Runs, Requested(r) PROVE CallPlaces'
  BY <1>0, <1>n, <1>4 DEF Requested, Called, CallPlaces
<1>5. CASE Created
  BY <1>0, <1>n, <1>5 DEF Created, Called, CallPlaces
<1>6. ASSUME NEW c \in {submit, resume}, Started(c) \/ StartFailed(c) PROVE CallPlaces'
  <2>1. /\ c \in {submit, resume} /\ call'[c].at = "idle"
        /\ \A d \in Callers : d # c => call'[d] = call[d]
    BY <1>6 DEF Started, StartFailed, Called
  <2> QED
    BY <1>0, <1>n, <2>1 DEF CallPlaces
<1>7. CASE OrphanFailed
  <2>1. /\ call'[submit].at \in {"idle", "job"}
        /\ call[submit].at = "orphan"
        /\ call'[submit].at = "job" => call'[submit].run = call[submit].run
        /\ \A d \in Callers : d # submit => call'[d] = call[d]
    BY <1>7 DEF OrphanFailed, Called
  <2> QED
    BY <1>0, <1>n, <2>1 DEF CallPlaces
<1>8. CASE Forced
  <2>1. /\ call'[force].at \notin {"create", "start"}
        /\ call'[force].at # "idle" => call'[force].run \in Runs
        /\ \A d \in Callers : d # force => call'[d] = call[d]
    BY <1>8 DEF Forced, Called
  <2> QED
    BY <1>0, <1>n, <2>1 DEF CallPlaces
<1>9. CASE Booted
  <2>1. /\ call'[boot].at = "unlink" => call'[boot].run \in Runs
        /\ \A d \in Callers : d # boot => call'[d] = call[d]
    BY <1>9 DEF Booted, Called
  <2> QED
    BY <1>0, <1>n, <2>1 DEF CallPlaces
<1>10. CASE Died
  <2>1. \A c \in Callers : c # boot => call'[c].at = "idle"
    BY <1>10 DEF Died, Idle
  <2>2. call'[boot].at = "down"
    BY <1>10 DEF Died
  <2> QED
    BY <1>n, <2>1, <2>2 DEF CallPlaces
<1>11. ASSUME NEW w \in Workers, Worked(w) PROVE CallPlaces'
  <2>1. CASE UNCHANGED call
    BY <1>a, <2>1
  <2>2. CASE ~UNCHANGED call
    <3>1. /\ w \in Callers /\ \A c \in Callers : c # w => call'[c] = call[c]
          /\ w = boot => call'[w].at \in {"runs", "down"}
          /\ w # boot => \/ call'[w].at = "idle"
                         \/ w = force /\ call'[w].at = "done" /\ call'[w].run = job[w].run
      BY <1>11, <2>2 DEF Worked, Carries, Ended
    <3>2. job[w].run \in Runs /\ call[w].at = "job"
      BY <1>0, <1>11, <3>1 DEF JobInv, JobOK, Worked
    <3> QED
      BY <1>0, <1>n, <3>1, <3>2 DEF CallPlaces
  <2> QED
    BY <2>1, <2>2
<1> QED
  BY <1>1, <1>2, <1>3, <1>4, <1>5, <1>6, <1>7, <1>8, <1>9, <1>10, <1>11 DEF Effect

\* No run is forgotten by the ledger, and one that is touched was accepted.
LEMMA AcceptedStep ==
    ASSUME IInv, TypeOK', Effect
    PROVE  AcceptedInv'
<1>0. TypeOK /\ JobInv /\ CallPlaces /\ AcceptedInv /\ RunInv
  BY DEF IInv, CallInv
<1>n. /\ {submit, resume, force, boot} \subseteq Callers
      /\ submit # resume /\ submit # force /\ submit # boot
      /\ resume # force /\ resume # boot /\ force # boot
      /\ \A c \in Callers : c \in {submit, resume, force, boot}
  BY Names, WorkerNames
<1>a. /\ call[resume].at = "create" => call[resume].run \in Runs
      /\ call[force].at # "idle" => call[force].run \in Runs
  BY <1>0, <1>n DEF CallPlaces
<1>b. ASSUME call'[resume] = call[resume], call'[force] = call[force],
             \A q \in Runs : \/ ledger'[q].state = ledger[q].state
                             \/ ledger[q].state # "absent" /\ EndedNow(q)
      PROVE  AcceptedInv'
  BY <1>0, <1>a, <1>b DEF AcceptedInv, EndedNow
<1>1. ASSUME NEW r \in Runs, Prepared(r) PROVE AcceptedInv'
  BY <1>1, <1>b DEF Prepared
<1>2. ASSUME NEW r \in Runs, Driven(r) PROVE AcceptedInv'
  <2>1. ledger[r].state # "absent"
    BY <1>0, <1>2 DEF Driven, RunInv, RunOK, Finished
  <2> QED
    BY <1>2, <1>b, <2>1 DEF Driven, SameRun
<1>3. CASE Still
  BY <1>3, <1>b DEF Still, SameRun
<1>4. ASSUME NEW r \in Runs, Submitted(r) PROVE AcceptedInv'
  <2>1. /\ call'[force] = call[force] /\ call'[resume].at = "idle"
        /\ \A q \in Runs : ledger[q].state # "absent" => ledger'[q].state # "absent"
    BY <1>4, <1>n DEF Submitted, Called, SubmissionFree, SameRun
  <2> QED
    BY <1>0, <1>a, <2>1 DEF AcceptedInv
<1>5. ASSUME NEW r \in Runs, Resumed(r) PROVE AcceptedInv'
  <2>1. /\ call'[force] = call[force] /\ call'[resume].run = r /\ ledger[r].state = "absent"
        /\ \A q \in Runs : ledger'[q].state = ledger[q].state
    BY <1>5, <1>n DEF Resumed, Called, SameRun
  <2> QED
    BY <1>0, <1>a, <2>1 DEF AcceptedInv
<1>6. ASSUME NEW r \in Runs, Requested(r) PROVE AcceptedInv'
  <2>1. /\ call'[resume] = call[resume] /\ call'[force].run = r /\ ledger[r].state # "absent"
        /\ \A q \in Runs : ledger'[q].state = ledger[q].state
    BY <1>6, <1>n DEF Requested, Called, SameRun
  <2> QED
    BY <1>0, <1>a, <2>1 DEF AcceptedInv
<1>7. CASE Created
  <2>1. /\ call'[force] = call[force] /\ call'[resume].at = "start"
        /\ \A q \in Runs : ledger[q].state # "absent" => ledger'[q].state # "absent"
    BY <1>7, <1>n DEF Created, Called, SameRun
  <2> QED
    BY <1>0, <1>a, <2>1 DEF AcceptedInv
<1>8. ASSUME NEW c \in {submit, resume}, Started(c) \/ StartFailed(c) PROVE AcceptedInv'
  <2>1. /\ call'[force] = call[force]
        /\ call'[resume] = call[resume] \/ call'[resume].at = "idle"
        /\ \A q \in Runs : ledger'[q].state = ledger[q].state
    BY <1>8, <1>n DEF Started, StartFailed, Called, SameRun
  <2> QED
    BY <1>0, <1>a, <2>1 DEF AcceptedInv
<1>9. CASE OrphanFailed
  BY <1>9, <1>b, <1>n DEF OrphanFailed, Called, SameRun
<1>10. CASE Booted
  BY <1>10, <1>b, <1>n DEF Booted, Called, SameRun
<1>11. CASE Forced
  <2>1. /\ call'[resume] = call[resume] /\ call[force].at # "idle"
        /\ call'[force].at # "idle" => call'[force].run = call[force].run
        /\ \A q \in Runs : ledger'[q].state = ledger[q].state
    BY <1>11, <1>n DEF Forced, Called, SameRun
  <2> QED
    BY <1>0, <1>a, <2>1 DEF AcceptedInv
<1>12. CASE Died
  BY <1>12, <1>n DEF Died, Idle, AcceptedInv
<1>13. ASSUME NEW w \in Workers, Worked(w) PROVE AcceptedInv'
  <2> DEFINE r == job[w].run
  <2>1. r \in Runs /\ ledger[r].state # "absent"
    BY <1>0, <1>13 DEF JobInv, JobOK, Worked
  <2>2. \A q \in Runs : \/ ledger'[q].state = ledger[q].state
                        \/ ledger[q].state # "absent" /\ EndedNow(q)
    BY <1>13, <2>1 DEF Worked
  <2>3. CASE call'[resume] = call[resume] /\ call'[force] = call[force]
    BY <1>b, <2>2, <2>3
  <2>4. CASE w = resume
    <3>1. call[w].at = "job"
      BY <1>0, <1>13, <1>n, <2>4 DEF JobInv, JobOK, Worked
    <3> QED
      BY <1>0, <2>4, <3>1 DEF CallPlaces
  <2>5. CASE w = force /\ ~UNCHANGED call
    <3>1. /\ call'[resume] = call[resume]
          /\ call'[force].at = "idle" \/ call'[force].run = r
      BY <1>13, <1>n, <2>5 DEF Worked, Carries, Ended
    <3> QED
      BY <1>0, <1>a, <2>1, <2>2, <3>1 DEF AcceptedInv, EndedNow
  <2> QED
    BY <1>13, <1>n, <2>3, <2>4, <2>5 DEF Worked, Carries, Ended
<1> QED
  BY <1>1, <1>2, <1>3, <1>4, <1>5, <1>6, <1>7, <1>8, <1>9, <1>10, <1>11, <1>12, <1>13 DEF Effect

\* A run that is being started is nobody else's.
LEMMA StartStep ==
    ASSUME IInv, TypeOK', Effect
    PROVE  StartInv'
<1>0. TypeOK /\ JobInv /\ CallInv /\ CallPlaces /\ AcceptedInv /\ RunInv /\ DownInv /\ StartInv
  BY DEF IInv, CallInv
<1>n. /\ {submit, resume, force, boot} \subseteq Callers
      /\ submit # resume /\ submit # force /\ submit # boot
      /\ resume # force /\ resume # boot /\ force # boot
      /\ \A c \in Callers : c \in {submit, resume, force, boot}
  BY Names, WorkerNames
<1> SUFFICES ASSUME NEW c \in {submit, resume}, call'[c].at = "start"
             PROVE  /\ ledger'[call'[c].run].state = "open"
                    /\ task'[call'[c].run].at = "none" /\ engine'[call'[c].run].at = "off"
                    /\ call'[force].at \in {"rebuild", "job"} => call'[force].run # call'[c].run
  BY DEF StartInv, Open
<1> DEFINE p == call[c].run
           Goal == /\ ledger'[call'[c].run].state = "open"
                   /\ task'[call'[c].run].at = "none" /\ engine'[call'[c].run].at = "off"
                   /\ call'[force].at \in {"rebuild", "job"} => call'[force].run # call'[c].run
<1>a. call[c].at = "start" =>
        /\ p \in Runs /\ ledger[p].state = "open" /\ task[p].at = "none" /\ engine[p].at = "off"
        /\ call[force].at \in {"rebuild", "job"} => call[force].run # p
  BY <1>0, <1>n DEF StartInv, CallPlaces, Open
<1>b. ASSUME call'[c] = call[c], SameRun(p) \/ (p \in Runs => SameRun(p)),
             call'[force].at \in {"rebuild", "job"} => call'[force] = call[force]
      PROVE  Goal
  BY <1>a, <1>b DEF SameRun
<1>c. ASSUME NEW r \in Runs, ledger[r].state = "absent", ledger'[r].state = "open",
             UNCHANGED <<task, engine>>, call'[c].run = r, call'[force] = call[force]
      PROVE  Goal
  <2>1. task[r].at = "none" /\ engine[r].at = "off"
    BY <1>0, <1>c DEF RunInv, RunOK
  <2>2. call[force].at \in {"rebuild", "job"} => call[force].run # r
    BY <1>0, <1>c DEF AcceptedInv
  <2> QED
    BY <1>c, <2>1, <2>2
<1>1. ASSUME NEW r \in Runs, Prepared(r) PROVE Goal
  <2>1. UNCHANGED call /\ task[r].at # "none" /\ \A q \in Runs : q # r => SameRun(q)
    BY <1>1 DEF Prepared, Preparation
  <2> QED
    BY <1>a, <1>b, <2>1
<1>2. ASSUME NEW r \in Runs, Driven(r) PROVE Goal
  <2>1. UNCHANGED call /\ engine[r].at # "off" /\ \A q \in Runs : q # r => SameRun(q)
    BY <1>2 DEF Driven
  <2> QED
    BY <1>a, <1>b, <2>1
<1>3. CASE Still
  BY <1>3, <1>b DEF Still
<1>4. ASSUME NEW r \in Runs, Submitted(r) PROVE Goal
  <2>1. /\ c = submit /\ call'[force] = call[force] /\ call'[c].run = r
        /\ ledger[r].state = "absent" /\ ledger'[r].state = "open" /\ UNCHANGED <<task, engine>>
    BY <1>4, <1>n DEF Submitted, Called, SubmissionFree
  <2> QED
    BY <1>c, <2>1
<1>5. ASSUME NEW r \in Runs, Resumed(r) PROVE Goal
  BY <1>5, <1>n DEF Resumed, Called, SubmissionFree
<1>6. ASSUME NEW r \in Runs, Requested(r) PROVE Goal
  BY <1>6, <1>b, <1>n DEF Requested, Called
<1>7. CASE Created
  <2>1. call[resume].at = "create" /\ call[submit].at = "idle"
    BY <1>0, <1>7 DEF Created, CallPlaces
  <2>2. /\ c = resume /\ call'[force] = call[force] /\ call'[c].run = p
        /\ ledger'[p].state = "open" /\ UNCHANGED <<task, engine>>
    BY <1>7, <1>n, <2>1 DEF Created, Called
  <2>3. p \in Runs /\ ledger[p].state = "absent"
    BY <1>0, <1>n, <2>1, <2>2 DEF CallPlaces, AcceptedInv
  <2> QED
    BY <1>c, <2>2, <2>3
<1>8. ASSUME NEW d \in {submit, resume}, Started(d) \/ StartFailed(d) PROVE Goal
  <2>1. call[d].at = "start" /\ call'[d].at = "idle" /\ \A e \in Callers : e # d => call'[e] = call[e]
    BY <1>8 DEF Started, StartFailed, Called
  <2> QED
    BY <1>0, <1>n, <2>1 DEF CallPlaces
<1>9. CASE OrphanFailed
  <2>1. /\ call[submit].at = "orphan" /\ call'[submit].at \in {"idle", "job"}
        /\ call'[resume] = call[resume]
    BY <1>9, <1>n DEF OrphanFailed, Called
  <2> QED
    BY <1>0, <2>1 DEF CallPlaces
<1>10. CASE Booted
  <2>1. ~Up /\ call'[c] = call[c]
    BY <1>10, <1>n DEF Booted, Called
  <2> QED
    BY <1>0, <1>n, <2>1 DEF DownInv
<1>11. CASE Died
  BY <1>11, <1>n DEF Died, Idle
<1>12. CASE Forced
  <2> DEFINE r == call[force].run
  <2>1. /\ UNCHANGED engine /\ call'[c] = call[c] /\ r \in Runs
        /\ \A q \in Runs : q # r => SameRun(q)
        /\ ledger'[r].state = ledger[r].state /\ task'[r].at = task[r].at
    BY <1>12, <1>n DEF Forced, Called
  <2>2. ledger'[p].state = "open" /\ task'[p].at = "none" /\ engine'[p].at = "off"
    BY <1>a, <2>1 DEF SameRun
  <2>3. call'[force].at # "rebuild"
    BY <1>12, <1>n, <2>1 DEF Forced, SubmissionFree
  <2>4. call'[force].at = "job" => call'[force].run # p
    <3> SUFFICES ASSUME call'[force].at = "job", call'[force].run = p PROVE FALSE
      OBVIOUS
    <3>1. r = p /\ (call[force].at = "rebuild" \/ Finished(r))
      BY <1>12 DEF Forced
    <3> QED
      BY <1>a, <2>1, <3>1 DEF Finished
  <2> QED
    BY <2>1, <2>2, <2>3, <2>4
<1>13. ASSUME NEW w \in Workers, Worked(w) PROVE Goal
  <2>1. /\ UNCHANGED engine /\ job[w].step # "none"
        /\ call'[w].at \notin {"start", "rebuild", "job"} \/ UNCHANGED call
        /\ \A d \in Callers : d # w => call'[d] = call[d]
    BY <1>13, <1>n DEF Worked, Carries, Ended
  <2>2. call'[c] = call[c]
    BY <1>n, <2>1
  <2>3. p # job[w].run
    BY <1>0, <2>1, <2>2, StartsAlone
  <2>4. task'[p] = task[p]
    BY <1>0, <1>13, <1>a, <2>2, <2>3 DEF Worked, Carries, Ended, JobInv, JobOK
  <2>5. ledger'[p].state = ledger[p].state
    BY <1>13, <1>a, <2>2, <2>3 DEF Worked
  <2> QED
    BY <1>a, <1>n, <2>1, <2>2, <2>4, <2>5
<1> QED
  BY <1>1, <1>2, <1>3, <1>4, <1>5, <1>6, <1>7, <1>8, <1>9, <1>10, <1>11, <1>12, <1>13 DEF Effect

\* While the controller is down, nobody but startup is at work.
LEMMA DownStep ==
    ASSUME IInv, Effect
    PROVE  DownInv'
<1>0. JobInv /\ RunInv /\ DownInv
  BY DEF IInv
<1>n. /\ {submit, resume, force, boot} \subseteq Callers
      /\ submit # boot /\ resume # boot /\ force # boot
  BY Names, WorkerNames
<1>a. CASE Up /\ call'[boot] = call[boot]
  BY <1>a DEF DownInv, Up
<1>b. CASE /\ ~Up /\ \A q \in Runs : task'[q].at = task[q].at
           /\ \A c \in Callers \ {boot} : call'[c] = call[c]
  BY <1>0, <1>b DEF DownInv
<1>1. ASSUME NEW r \in Runs, Prepared(r) PROVE DownInv'
  <2>1. UNCHANGED call /\ task[r].at # "none"
    BY <1>1 DEF Prepared, Preparation
  <2> QED
    BY <1>0, <1>a, <2>1 DEF DownInv
<1>2. ASSUME NEW r \in Runs, Driven(r) PROVE DownInv'
  <2>1. UNCHANGED call /\ task[r].at # "none"
    BY <1>0, <1>2 DEF Driven, RunInv, RunOK
  <2> QED
    BY <1>0, <1>a, <2>1 DEF DownInv
<1>3. CASE Still
  BY <1>3, <1>a, <1>b DEF Still, SameRun
<1>4. ASSUME NEW r \in Runs, Submitted(r) \/ Resumed(r) \/ Requested(r) PROVE DownInv'
  BY <1>4, <1>a, <1>n DEF Submitted, Resumed, Requested, Called
<1>5. CASE Created \/ OrphanFailed \/ Forced
  <2>1. call'[boot] = call[boot]
    BY <1>5, <1>n DEF Created, OrphanFailed, Forced, Called
  <2>2. call[resume].at # "idle" \/ call[submit].at # "idle" \/ call[force].at # "idle"
    BY <1>5 DEF Created, OrphanFailed, Forced
  <2> QED
    BY <1>0, <1>a, <1>n, <2>1, <2>2 DEF DownInv
<1>6. ASSUME NEW c \in {submit, resume}, Started(c) \/ StartFailed(c) PROVE DownInv'
  <2>1. call'[boot] = call[boot] /\ call[c].at # "idle"
    BY <1>6, <1>n DEF Started, StartFailed, Called
  <2> QED
    BY <1>0, <1>a, <1>n, <2>1 DEF DownInv
<1>7. CASE Booted
  BY <1>7, <1>b DEF Booted, Called, SameRun
<1>8. CASE Died
  BY <1>8 DEF Died, NoTask, Idle, DownInv
<1>9. ASSUME NEW w \in Workers, Worked(w) PROVE DownInv'
  <2>1. JobOK(w) /\ job[w].step # "none"
    BY <1>0, <1>9 DEF JobInv, Worked
  <2>2. CASE w = boot
    <3>1. ~Up /\ w \notin Runs
      BY <1>n, <2>1, <2>2, Names DEF JobOK, Up
    <3>2. /\ UNCHANGED task
          /\ \A c \in Callers \ {boot} : call'[c] = call[c]
      BY <1>9, <2>2, <3>1 DEF Worked, Carries, Ended
    <3> QED
      BY <1>b, <3>1, <3>2
  <2>3. CASE w # boot
    <3>1. Up
      <4>1. CASE w \in Runs
        BY <1>0, <2>1, <4>1 DEF JobOK, DownInv
      <4>2. CASE w \in Callers
        BY <1>0, <2>1, <2>3, <4>2 DEF JobOK, DownInv
      <4> QED
        BY <4>1, <4>2, WorkerNames
    <3>2. call'[boot] = call[boot]
      BY <1>9, <1>n, <2>3 DEF Worked, Carries, Ended
    <3> QED
      BY <1>a, <3>1, <3>2
  <2> QED
    BY <2>2, <2>3
<1> QED
  BY <1>1, <1>2, <1>3, <1>4, <1>5, <1>6, <1>7, <1>8, <1>9 DEF Effect

\* What ended stays ended, and an engine that gave up is remembered.
LEMMA EndedStays ==
    ASSUME IInv, Effect, ~Died
    PROVE  \A q \in Runs : /\ Terminal(q) => EndedNow(q)
                           /\ engine[q].again => engine'[q].again
<1>0. CallInv
  BY DEF IInv
<1> SUFFICES ASSUME NEW q \in Runs
             PROVE  (Terminal(q) => EndedNow(q)) /\ (engine[q].again => engine'[q].again)
  OBVIOUS
<1> DEFINE Stays == (Terminal(q) => EndedNow(q)) /\ (engine[q].again => engine'[q].again)
<1>a. CASE ledger'[q].state = ledger[q].state /\ engine'[q] = engine[q]
  BY <1>a DEF Terminal, EndedNow
<1>1. ASSUME NEW r \in Runs, Prepared(r) PROVE Stays
  BY <1>1, <1>a DEF Prepared, Progresses, Settles, HandsOver, SameRun, Terminal, EndedNow
<1>2. ASSUME NEW r \in Runs, Driven(r) PROVE Stays
  BY <1>2, <1>a DEF Driven, SameRun, Terminal, EndedNow
<1>3. ASSUME NEW r \in Runs, Submitted(r) PROVE Stays
  BY <1>3, <1>a DEF Submitted, Called, SameRun, Terminal
<1>4. ASSUME NEW r \in Runs, Resumed(r) \/ Requested(r) PROVE Stays
  BY <1>4, <1>a DEF Resumed, Requested, SameRun
<1>5. ASSUME NEW w \in Workers, Worked(w) PROVE Stays
  BY <1>5 DEF Worked, Terminal, EndedNow
<1>6. ASSUME NEW c \in {submit, resume}, Started(c) \/ StartFailed(c) PROVE Stays
  BY <1>6, <1>a DEF Started, StartFailed, Called, SameRun
<1>7. CASE Created
  BY <1>0, <1>7, <1>a DEF Created, Called, SameRun, CallInv, AcceptedInv, Terminal
<1>8. CASE OrphanFailed \/ Booted \/ Still
  BY <1>8, <1>a DEF OrphanFailed, Booted, Still, SameRun
<1>9. CASE Forced
  BY <1>9, <1>a DEF Forced, Called, SameRun
<1> QED
  BY <1>1, <1>2, <1>3, <1>4, <1>5, <1>6, <1>7, <1>8, <1>9 DEF Effect

\* A force call that has succeeded keeps having ended its run.
LEMMA ForceStepEnds ==
    ASSUME IInv, Effect
    PROVE  ForceEndsTheRun'
<1>0. JobInv /\ CallPlaces /\ RunInv /\ ForceEndsTheRun
  BY DEF IInv, CallInv
<1>n. /\ {submit, resume, force, boot} \subseteq Callers
      /\ submit # force /\ resume # force /\ boot # force
  BY Names, WorkerNames
<1> SUFFICES ASSUME call'[force].at = "done"
             PROVE  EndedNow(call'[force].run) \/ engine'[call'[force].run].again
  BY DEF ForceEndsTheRun, Terminal, EndedNow
<1>1. CASE Died
  BY <1>1, <1>n DEF Died, Idle
<1>2. ASSUME ~Died, call'[force] = call[force]
      PROVE  EndedNow(call'[force].run) \/ engine'[call'[force].run].again
  <2>1. call[force].run \in Runs
    BY <1>0, <1>2, <1>n DEF CallPlaces
  <2> QED
    BY <1>0, <1>2, <2>1, EndedStays DEF ForceEndsTheRun
<1>3. CASE Forced
  <2> DEFINE r == call[force].run
  <2>1. /\ call'[force].run = r /\ r \in Runs /\ UNCHANGED engine
        /\ ledger'[r].state = ledger[r].state
        /\ Terminal(r) \/ (Finished(r) /\ runtimes[r] = "none")
    BY <1>3 DEF Forced, Called
  <2>2. Terminal(r) \/ engine[r].again
    BY <1>0, <2>1 DEF RunInv, RunOK
  <2> QED
    BY <2>1, <2>2 DEF Terminal, EndedNow
<1>4. ASSUME NEW w \in Workers, Worked(w), ~(call'[force] = call[force])
      PROVE  EndedNow(call'[force].run) \/ engine'[call'[force].run].again
  <2>1. w = force
    BY <1>4, <1>n DEF Worked, Carries, Ended
  <2>2. EndedNow(job[w].run) /\ call'[force].run = job[w].run
    BY <1>4, <1>n, <2>1, Names DEF Worked, Carries, Ended
  <2> QED
    BY <2>2
<1>5. ASSUME NEW r \in Runs, Requested(r) PROVE FALSE
  BY <1>5 DEF Requested
<1>6. ASSUME NEW r \in Runs, Prepared(r) \/ Driven(r) \/ Submitted(r) \/ Resumed(r)
      PROVE  call'[force] = call[force]
  BY <1>6, <1>n DEF Prepared, Driven, Submitted, Resumed, Called
<1>7. ASSUME NEW c \in {submit, resume}, Started(c) \/ StartFailed(c)
      PROVE  call'[force] = call[force]
  BY <1>7, <1>n DEF Started, StartFailed, Called
<1>8. Created \/ OrphanFailed \/ Booted \/ Still => call'[force] = call[force]
  BY <1>n DEF Created, OrphanFailed, Booted, Still, Called
<1> QED
  BY <1>1, <1>2, <1>3, <1>4, <1>5, <1>6, <1>7, <1>8 DEF Effect

-----------------------------------------------------------------------------
(* Owners. *)

\* Somebody answers for the run after the step.
OwnedNow(q) ==
    \/ runtimes'[q] # "none"
    \/ \E c \in {submit, resume} : call'[c].at = "start" /\ call'[c].run = q

\* As long as nothing failed, an open run of a serving controller keeps an owner.
LEMMA OwnedStep ==
    ASSUME IInv, Effect
    PROVE  OwnedInv'
<1>0. JobInv /\ CallInv /\ RunInv /\ DownInv /\ OwnedInv
  BY DEF IInv
<1>n. /\ {submit, resume, force, boot} \subseteq Callers
      /\ submit # force /\ resume # force /\ boot # force
      /\ submit # boot /\ resume # boot /\ submit # resume
  BY Names, WorkerNames
<1> SUFFICES ASSUME call'[boot].at = "idle", budget'.faults = 0,
                    NEW q \in Runs, ledger'[q].state = "open"
             PROVE  OwnedNow(q)
  BY DEF OwnedInv, OwnedNow, Up, Open
<1>e. ~EndedNow(q)
  BY DEF EndedNow
<1>a. ASSUME Up, FaultsGrow, Open(q), runtimes'[q] = runtimes[q] \/ runtimes'[q] # "none",
             \A c \in {submit, resume} : call[c].at = "start" => call'[c] = call[c]
      PROVE  OwnedNow(q)
  BY <1>0, <1>a DEF FaultsGrow, OwnedInv, OwnedNow
<1>1. ASSUME NEW r \in Runs, Prepared(r) PROVE OwnedNow(q)
  <2>1. UNCHANGED call /\ FaultsGrow /\ Open(q)
    BY <1>1 DEF Prepared, Open
  <2>2. runtimes'[q] = runtimes[q] \/ runtimes'[q] # "none"
    BY <1>1 DEF Prepared, Progresses, Settles, HandsOver, SameRun
  <2> QED
    BY <1>a, <2>1, <2>2 DEF Up
<1>2. ASSUME NEW r \in Runs, Driven(r) PROVE OwnedNow(q)
  <2>1. UNCHANGED call /\ FaultsGrow /\ Open(q)
    BY <1>2, <1>e DEF Driven, SameRun, Open
  <2>2. CASE runtimes'[q] = runtimes[q]
    BY <1>a, <2>1, <2>2 DEF Up
  <2>3. CASE runtimes'[q] # runtimes[q]
    <3>1. q = r /\ engine[q].at \in {"removable", "gone"}
      BY <1>2, <2>3 DEF Driven, SameRun
    <3>2. budget.faults = 0 /\ ~Terminal(q)
      BY <2>1 DEF FaultsGrow, Open, Terminal
    <3> QED
      BY <1>0, <3>1, <3>2 DEF RunInv, RunOK
  <2> QED
    BY <2>2, <2>3
<1>3. CASE Still
  BY <1>3, <1>a DEF Still, SameRun, Up, Open
<1>4. ASSUME NEW r \in Runs, Submitted(r) PROVE OwnedNow(q)
  <2>1. CASE q = r /\ call'[submit].at = "start"
    BY <1>4, <2>1 DEF Submitted, OwnedNow
  <2>2. CASE SameRun(q)
    <3>1. Up /\ FaultsGrow /\ Open(q) /\ runtimes'[q] = runtimes[q]
      BY <1>4, <2>2 DEF Submitted, Called, SameRun, Open
    <3>2. \A c \in {submit, resume} : call[c].at # "start"
      BY <1>4 DEF Submitted, SubmissionFree
    <3> QED
      BY <1>a, <3>1, <3>2
  <2> QED
    BY <1>4, <2>1, <2>2 DEF Submitted
<1>5. ASSUME NEW r \in Runs, Resumed(r) PROVE OwnedNow(q)
  <2>1. Up /\ FaultsGrow /\ Open(q) /\ runtimes'[q] = runtimes[q]
    BY <1>5 DEF Resumed, Called, SameRun, Open
  <2>2. \A c \in {submit, resume} : call[c].at # "start"
    BY <1>5 DEF Resumed, SubmissionFree
  <2> QED
    BY <1>a, <2>1, <2>2
<1>6. ASSUME NEW r \in Runs, Requested(r) PROVE OwnedNow(q)
  <2>1. Up /\ FaultsGrow /\ Open(q) /\ runtimes'[q] = runtimes[q]
    BY <1>6 DEF Requested, Called, SameRun, Open
  <2>2. \A c \in {submit, resume} : call'[c] = call[c]
    BY <1>6, <1>n DEF Requested, Called
  <2> QED
    BY <1>a, <2>1, <2>2
<1>7. CASE Created
  <2>1. CASE q = call[resume].run
    BY <1>7, <2>1 DEF Created, OwnedNow
  <2>2. CASE q # call[resume].run
    <3>1. FaultsGrow /\ Open(q) /\ runtimes'[q] = runtimes[q]
      BY <1>7, <2>2 DEF Created, Called, SameRun, Open
    <3>2. Up /\ \A c \in {submit, resume} : call[c].at = "start" => call'[c] = call[c]
      BY <1>7, <1>n DEF Created, Called, Up
    <3> QED
      BY <1>a, <3>1, <3>2
  <2> QED
    BY <2>1, <2>2
<1>8. ASSUME NEW c \in {submit, resume}, Started(c) PROVE OwnedNow(q)
  <2>1. CASE q = call[c].run
    BY <1>8, <2>1 DEF Started, OwnedNow
  <2>2. CASE q # call[c].run
    <3>1. FaultsGrow /\ Open(q) /\ runtimes'[q] = runtimes[q] /\ Up
      BY <1>8, <1>n, <2>2 DEF Started, Called, SameRun, Open, Up
    <3>2. budget.faults = 0
      BY <3>1 DEF FaultsGrow
    <3>3. runtimes[q] # "none" \/ \E d \in {submit, resume} : call[d].at = "start" /\ call[d].run = q
      BY <1>0, <3>1, <3>2 DEF OwnedInv
    <3>4. \A d \in {submit, resume} : d # c => call'[d] = call[d]
      BY <1>8, <1>n DEF Started, Called
    <3> QED
      BY <2>2, <3>1, <3>3, <3>4 DEF OwnedNow
  <2> QED
    BY <2>1, <2>2
<1>9. ASSUME NEW c \in {submit, resume}, StartFailed(c) PROVE OwnedNow(q)
  BY <1>9 DEF StartFailed
<1>10. CASE OrphanFailed
  <2>1. FaultsGrow /\ Open(q) /\ runtimes'[q] = runtimes[q] /\ Up
    BY <1>10, <1>n DEF OrphanFailed, Called, SameRun, Open, Up
  <2>2. \A c \in {submit, resume} : call[c].at = "start" => call'[c] = call[c]
    BY <1>10, <1>n DEF OrphanFailed, Called
  <2> QED
    BY <1>a, <2>1, <2>2
<1>11. CASE Forced
  <2>1. FaultsGrow /\ Open(q) /\ Up
    BY <1>11, <1>n DEF Forced, Called, SameRun, Open, Up
  <2>2. \A c \in {submit, resume} : call'[c] = call[c]
    BY <1>11, <1>n DEF Forced, Called
  <2>3. runtimes'[q] = runtimes[q]
    BY <1>11, <2>1 DEF Forced, SameRun, Open, Terminal
  <2> QED
    BY <1>a, <2>1, <2>2, <2>3
<1>12. CASE Booted
  <2>1. \A r \in Runs : ~Open(r)
    BY <1>12 DEF Booted
  <2> QED
    BY <1>12, <2>1 DEF Booted, SameRun, Open
<1>13. CASE Died
  BY <1>13 DEF Died
<1>14. ASSUME NEW w \in Workers, Worked(w) PROVE OwnedNow(q)
  <2>1. JobOK(w) /\ job[w].step # "none"
    BY <1>0, <1>14 DEF JobInv, Worked
  <2>2. w # boot /\ Up
    <3>1. w = boot => call[boot].at = "job"
      BY <1>n, <2>1 DEF JobOK
    <3>2. w # boot
      BY <1>14, <1>n, <3>1, Names DEF Worked, Carries, Ended
    <3>3. call'[boot] = call[boot]
      BY <1>14, <1>n, <3>2 DEF Worked, Carries, Ended
    <3> QED
      BY <3>2, <3>3 DEF Up
  <2>3. FaultsGrow /\ Open(q)
    BY <1>14, <1>e DEF Worked, Open
  <2>4. runtimes'[q] = runtimes[q]
    <3>1. job[w].step = "unslot" => Terminal(job[w].run)
      BY <2>1 DEF JobOK
    <3> QED
      BY <1>14, <2>3, <3>1 DEF Worked, Open, Terminal
  <2>5. \A c \in {submit, resume} : call[c].at = "start" => call'[c] = call[c]
    <3> SUFFICES ASSUME NEW c \in {submit, resume}, call[c].at = "start" PROVE call'[c] = call[c]
      OBVIOUS
    <3>1. w # c
      BY <1>n, <2>1 DEF JobOK
    <3> QED
      BY <1>14, <1>n, <3>1 DEF Worked, Carries, Ended
  <2> QED
    BY <1>a, <2>2, <2>3, <2>4, <2>5
<1> QED
  BY <1>1, <1>2, <1>3, <1>4, <1>5, <1>6, <1>7, <1>8, <1>9, <1>10, <1>11, <1>12, <1>13, <1>14
  DEF Effect

-----------------------------------------------------------------------------
(* Process identities. *)

\* Identities are only given back and processes only exit.
Releases ==
    /\ \A i \in Identities : process'[i] \subseteq process[i]
    /\ \A q \in Runs :
        /\ capsule'[q].identity \in {capsule[q].identity, NoIdentity}
        /\ capsule'[q].active \/ task'[q].at = "register" =>
             /\ capsule'[q].identity = capsule[q].identity
             /\ capsule[q].active \/ task[q].at = "register"

\* A run leases an identity that no capsule has and no process runs under.
Leases(r) ==
    \E i \in Identities :
        /\ process[i] = {} /\ UNCHANGED process
        /\ \A q \in Runs : capsule[q].identity # i
        /\ capsule'[r].identity = i
        /\ \A q \in Runs : q # r => capsule'[q] = capsule[q] /\ task'[q] = task[q]

\* A run's first process starts under the identity it leased.
Populates(r) ==
    /\ task[r].at = "register" /\ capsule'[r].identity = capsule[r].identity
    /\ \A q \in Runs : q # r => capsule'[q] = capsule[q] /\ task'[q] = task[q]
    /\ \A i \in Identities :
        process'[i] \subseteq IF i = capsule[r].identity THEN process[i] \cup {r} ELSE process[i]

\* acquire takes the lowest identity nobody holds, and prepare_git_identity has
\* found no process under it.
LEMMA AcquiredIsFree ==
    ASSUME MayLease, NEW i \in Acquired
    PROVE  i \in Identities /\ process[i] = {} /\ \A q \in Runs : capsule[q].identity # i
<1>1. PICK j \in Acquired : process[j] = {}
  BY DEF MayLease
<1>2. i \in Identities \ Leased /\ j \in Identities \ Leased /\ i <= j /\ j <= i
  BY <1>1 DEF Acquired
<1>3. i \in Nat /\ j \in Nat
  BY <1>2, HostingAssumption
<1>4. i = j
  BY <1>2, <1>3
<1>5. i # NoIdentity
  BY <1>2, HostingAssumption
<1>6. \A q \in Runs : capsule[q].identity # i
  BY <1>2, <1>5 DEF Leased
<1> QED
  BY <1>1, <1>2, <1>4, <1>6

\* The three kinds of step keep identities exclusive.
LEMMA IdentityKept ==
    ASSUME IdentityInv, HostOK,
           Releases \/ \E r \in Runs : Leases(r) \/ Populates(r)
    PROVE  IdentityInv'
<1>0. NoIdentity \notin Identities
  BY HostingAssumption
<1>1. CASE Releases
  <2>1. ASSUME NEW r \in Runs, capsule'[r].identity \in Identities
        PROVE  process'[capsule'[r].identity] \subseteq {r}
    BY <1>0, <1>1, <2>1 DEF Releases, IdentityInv
  <2>2. ASSUME NEW r \in Runs, capsule'[r].active \/ task'[r].at = "register"
        PROVE  capsule'[r].identity \in Identities
    BY <1>1, <2>2 DEF Releases, IdentityInv
  <2>3. ASSUME NEW q \in Runs, NEW r \in Runs, q # r, capsule'[q].identity = capsule'[r].identity
        PROVE  capsule'[q].identity = NoIdentity
    BY <1>1, <2>3 DEF Releases, IdentityInv
  <2> QED
    BY <2>1, <2>2, <2>3 DEF IdentityInv
<1>2. ASSUME NEW r \in Runs, Leases(r) PROVE IdentityInv'
  <2>0. PICK i \in Identities :
          /\ process[i] = {} /\ UNCHANGED process
          /\ \A q \in Runs : capsule[q].identity # i
          /\ capsule'[r].identity = i
          /\ \A q \in Runs : q # r => capsule'[q] = capsule[q] /\ task'[q] = task[q]
    BY <1>2 DEF Leases
  <2>1. ASSUME NEW p \in Runs, capsule'[p].identity \in Identities
        PROVE  process'[capsule'[p].identity] \subseteq {p}
    BY <2>0, <2>1 DEF IdentityInv
  <2>2. ASSUME NEW p \in Runs, capsule'[p].active \/ task'[p].at = "register"
        PROVE  capsule'[p].identity \in Identities
    BY <2>0, <2>2 DEF IdentityInv
  <2>3. ASSUME NEW p \in Runs, NEW q \in Runs, p # q, capsule'[p].identity = capsule'[q].identity
        PROVE  capsule'[p].identity = NoIdentity
    BY <2>0, <2>3 DEF IdentityInv
  <2> QED
    BY <2>1, <2>2, <2>3 DEF IdentityInv
<1>3. ASSUME NEW r \in Runs, Populates(r) PROVE IdentityInv'
  <2>0. /\ capsule[r].identity \in Identities /\ capsule'[r].identity = capsule[r].identity
        /\ \A q \in Runs : q # r => capsule'[q] = capsule[q] /\ task'[q] = task[q]
        /\ \A i \in Identities : process'[i] \subseteq
             IF i = capsule[r].identity THEN process[i] \cup {r} ELSE process[i]
    BY <1>3 DEF Populates, IdentityInv
  <2>1. ASSUME NEW p \in Runs, capsule'[p].identity \in Identities
        PROVE  process'[capsule'[p].identity] \subseteq {p}
    <3>1. CASE p = r
      BY <2>0, <3>1 DEF IdentityInv
    <3>2. CASE p # r
      <4>1. capsule[p].identity # capsule[r].identity
        BY <1>0, <2>0, <3>2 DEF IdentityInv
      <4> QED
        BY <2>0, <2>1, <3>2, <4>1 DEF IdentityInv
    <3> QED
      BY <3>1, <3>2
  <2>2. ASSUME NEW p \in Runs, capsule'[p].active \/ task'[p].at = "register"
        PROVE  capsule'[p].identity \in Identities
    BY <2>0, <2>2 DEF IdentityInv
  <2>3. ASSUME NEW p \in Runs, NEW q \in Runs, p # q, capsule'[p].identity = capsule'[q].identity
        PROVE  capsule'[p].identity = NoIdentity
    BY <2>0, <2>3 DEF IdentityInv
  <2> QED
    BY <2>1, <2>2, <2>3 DEF IdentityInv
<1> QED
  BY <1>1, <1>2, <1>3

\* A cleanup gives back, in what it confirms and in what it fails at.
LEMMA CleanupReleases ==
    ASSUME HostOK, NEW r \in Runs, NEW exit,
           cleanup_state(r, exit) \/ cleanup_state_fails(r, exit),
           \A q \in Runs : task'[q].at = "register" => task[q].at = "register" /\ q # r
    PROVE  Releases
<1>1. \A i \in Identities : process'[i] \subseteq process[i]
  BY DEF cleanup_state, cleanup_state_fails, HostOK
<1>2. CASE cleanup_state(r, exit)
  BY <1>1, <1>2, CleanupStateHost DEF Releases
<1>3. CASE cleanup_state_fails(r, exit)
  BY <1>1, <1>3 DEF cleanup_state_fails, Releases
<1> QED
  BY <1>2, <1>3

\* A step that leaves capsules and processes alone, and leases nothing.
LEMMA UntouchedReleases ==
    ASSUME UNCHANGED <<capsule, process>>,
           \A q \in Runs : task'[q].at = "register" => task[q].at = "register"
    PROVE  Releases
BY DEF Releases

\* A preparation leases, registers, or gives back.
LEMMA PreparationIdentity ==
    ASSUME TypeOK, RunInv, NEW r \in Runs, PreparationStep(r)
    PROVE  Releases \/ Leases(r) \/ Populates(r)
<1>0. /\ HostOK /\ ControlOK /\ capsule \in [Runs -> CapsuleRecord]
      /\ task \in [Runs -> TaskRecord] /\ process \in [Identities -> SUBSET Runs]
      /\ task[r].at = "register" => ~capsule[r].active
  BY DEF TypeOK, HostOK, ControlOK, RunInv, RunOK, Unbuilt
<1>f. ASSUME NEW failure \in {"unavailable", "force_stopped"}, fails(r, failure)
      PROVE  \A q \in Runs : task'[q].at = "register" => task[q].at = "register" /\ q # r
  BY <1>0, <1>f, FailsType
<1>g. ASSUME NEW at \in TaskAts, task' = [task EXCEPT ![r].at = at]
      PROVE  \A q \in Runs : /\ q # r => task'[q] = task[q]
                             /\ q = r => task'[q].at = at
  BY <1>0, <1>g DEF TaskRecord
<1>t. {"register", "link", "rename", "build", "installed", "ready"} \subseteq TaskAts
  BY DEF TaskAts
<1>1. CASE Allocate(r)
  <2>1. CASE capsule[r].allocated \/ ~MayLease
    <3>1. /\ fails(r, "unavailable") /\ UNCHANGED process
          /\ capsule' = [capsule EXCEPT ![r].allocated = TRUE]
      BY <1>1, <2>1 DEF Allocate
    <3>2. \A q \in Runs : /\ capsule'[q].identity = capsule[q].identity
                          /\ capsule'[q].active = capsule[q].active
      BY <1>0, <3>1 DEF CapsuleRecord
    <3> QED
      BY <1>f, <3>1, <3>2 DEF Releases
  <2>2. CASE ~(capsule[r].allocated \/ ~MayLease)
    <3>1. PICK i \in Acquired : capsule' = [capsule EXCEPT ![r].allocated = TRUE,
                                                           ![r].identity = i,
                                                           ![r].delivery = r]
      BY <1>1, <2>2 DEF Allocate
    <3>2. i \in Identities /\ process[i] = {} /\ \A q \in Runs : capsule[q].identity # i
      BY <2>2, AcquiredIsFree
    <3>3. /\ \A q \in Runs : q # r => capsule'[q] = capsule[q]
          /\ capsule'[r].identity = i
      BY <1>0, <3>1 DEF CapsuleRecord
    <3>4. UNCHANGED process /\ task' = [task EXCEPT ![r].at = "register"]
      BY <1>1, <2>2 DEF Allocate
    <3>5. \A q \in Runs : q # r => task'[q] = task[q]
      BY <1>g, <1>t, <3>4
    <3> QED
      BY <3>2, <3>3, <3>4, <3>5 DEF Leases
  <2> QED
    BY <2>1, <2>2
<1>2. CASE ClaimRetained(r)
  <2>1. fails(r, "unavailable") \/ task' = [task EXCEPT ![r].at = "link"]
    BY <1>2 DEF ClaimRetained
  <2>2. \A q \in Runs : task'[q].at = "register" => task[q].at = "register"
    BY <1>f, <1>g, <1>t, <2>1
  <2>3. UNCHANGED <<capsule, process>>
    BY <1>2 DEF ClaimRetained
  <2> QED
    BY <2>2, <2>3, UntouchedReleases
<1>3. CASE LinkRetained(r)
  <2>1. task' = [task EXCEPT ![r].at = "rename"] /\ UNCHANGED <<capsule, process>>
    BY <1>3 DEF LinkRetained
  <2> QED
    BY <1>g, <1>t, <2>1, UntouchedReleases
<1>4. CASE RetainedFails(r)
  <2>1. fails(r, "unavailable") /\ UNCHANGED <<capsule, process>>
    BY <1>4 DEF RetainedFails
  <2> QED
    BY <1>f, <2>1, UntouchedReleases
<1>5. CASE RenameRetained(r)
  <2>1. CASE MayLease
    <3>1. PICK i \in Acquired : capsule' = [capsule EXCEPT ![r].identity = i,
                                                           ![r].delivery = doc[r].delivery,
                                                           ![r].inherited = TRUE]
      BY <1>5, <2>1 DEF RenameRetained
    <3>2. i \in Identities /\ process[i] = {} /\ \A q \in Runs : capsule[q].identity # i
      BY <2>1, AcquiredIsFree
    <3>3. /\ \A q \in Runs : q # r => capsule'[q] = capsule[q]
          /\ capsule'[r].identity = i
      BY <1>0, <3>1 DEF CapsuleRecord
    <3>4. UNCHANGED process /\ task' = [task EXCEPT ![r].at = "register"]
      BY <1>5, <2>1 DEF RenameRetained
    <3>5. \A q \in Runs : q # r => task'[q] = task[q]
      BY <1>g, <1>t, <3>4
    <3> QED
      BY <3>2, <3>3, <3>4, <3>5 DEF Leases
  <2>2. CASE ~MayLease
    <3>1. fails(r, "unavailable") /\ UNCHANGED <<capsule, process>>
      BY <1>5, <2>2 DEF RenameRetained
    <3> QED
      BY <1>f, <3>1, UntouchedReleases
  <2> QED
    BY <2>1, <2>2
<1>6. CASE Register(r)
  <2>1. /\ task[r].at = "register" /\ task' = [task EXCEPT ![r].at = "build"]
        /\ capsule' = [capsule EXCEPT ![r].active = TRUE]
        /\ process' = [process EXCEPT ![capsule[r].identity] = process[capsule[r].identity] \cup {r}]
    BY <1>6 DEF Register
  <2>2. \A q \in Runs : q # r => task'[q] = task[q]
    BY <1>g, <1>t, <2>1
  <2>3. /\ \A q \in Runs : q # r => capsule'[q] = capsule[q]
        /\ capsule'[r].identity = capsule[r].identity
    BY <1>0, <2>1 DEF CapsuleRecord
  <2>4. \A i \in Identities : process'[i] \subseteq
          IF i = capsule[r].identity THEN process[i] \cup {r} ELSE process[i]
    BY <1>0, <2>1
  <2> QED
    BY <2>1, <2>2, <2>3, <2>4 DEF Populates
<1>7. CASE Install(r)
  <2>1. task' = [task EXCEPT ![r].at = "installed"] /\ UNCHANGED <<capsule, process>>
    BY <1>7 DEF Install
  <2> QED
    BY <1>g, <1>t, <2>1, UntouchedReleases
<1>8. CASE FinishCapsule(r)
  <2>1. /\ task' = [task EXCEPT ![r].at = "ready"] /\ UNCHANGED process
        /\ capsule' = [capsule EXCEPT ![r].endpoint = TRUE, ![r].allocated = TRUE]
    BY <1>8 DEF FinishCapsule
  <2>2. \A q \in Runs : /\ capsule'[q].identity = capsule[q].identity
                        /\ capsule'[q].active = capsule[q].active
    BY <1>0, <2>1 DEF CapsuleRecord
  <2>3. \A q \in Runs : task'[q].at = "register" => task[q].at = "register"
    BY <1>g, <1>t, <2>1
  <2> QED
    BY <2>1, <2>2, <2>3 DEF Releases
<1>9. CASE BuildFails(r)
  <2>1. PICK exit : cleanup_state(r, exit) \/ cleanup_state_fails(r, exit)
    BY <1>9 DEF BuildFails
  <2>2. fails(r, "unavailable")
    BY <1>9 DEF BuildFails
  <2> QED
    BY <1>0, <1>f, <2>1, <2>2, CleanupReleases
<1>10. CASE PreparationCancelled(r) \/ PreparationTimeout(r)
  <2>1. /\ dropped(r) /\ UNCHANGED process
        /\ fails(r, "force_stopped") \/ fails(r, "unavailable")
    BY <1>10 DEF PreparationCancelled, PreparationTimeout
  <2>2. capsule' = [capsule EXCEPT ![r].identity =
          IF task[r].at = "register" THEN NoIdentity ELSE capsule[r].identity]
    BY <1>0, <2>1 DEF dropped
  <2>3. \A q \in Runs : /\ q # r => capsule'[q] = capsule[q]
                        /\ capsule'[q].active = capsule[q].active
                        /\ capsule'[q].identity \in {capsule[q].identity, NoIdentity}
                        /\ task[q].at # "register" => capsule'[q].identity = capsule[q].identity
    BY <1>0, <2>2 DEF CapsuleRecord
  <2>4. \A q \in Runs : task'[q].at = "register" => task[q].at = "register" /\ q # r
    BY <1>f, <2>1
  <2> QED
    BY <1>0, <2>1, <2>3, <2>4 DEF Releases
<1>11. CASE Handoff(r)
  <2>1. /\ fails(r, "force_stopped") \/ task' = [task EXCEPT ![r] = Done]
        /\ UNCHANGED <<capsule, process>>
    BY <1>11 DEF Handoff
  <2>2. task' = [task EXCEPT ![r] = Done] =>
          \A q \in Runs : task'[q].at = "register" => task[q].at = "register"
    BY <1>0 DEF Done, NoTask
  <2> QED
    BY <1>f, <2>1, <2>2, UntouchedReleases
<1>12. CASE HandoffFails(r)
  <2>1. /\ task' = [task EXCEPT ![r].at = "settle", ![r].failure = "unavailable"]
        /\ UNCHANGED <<capsule, process>>
    BY <1>12 DEF HandoffFails
  <2>2. \A q \in Runs : task'[q].at = "register" => task[q].at = "register"
    BY <1>0, <2>1 DEF TaskRecord
  <2> QED
    BY <2>1, <2>2, UntouchedReleases
<1> QED
  BY <1>1, <1>2, <1>3, <1>4, <1>5, <1>6, <1>7, <1>8, <1>9, <1>10, <1>11, <1>12
  DEF PreparationStep

\* So does an engine.
LEMMA EngineIdentity ==
    ASSUME TypeOK, RunInv, NEW r \in Runs, EngineStep(r)
    PROVE  Releases
<1>0. HostOK
  BY DEF TypeOK
<1>1. CASE EngineCleanup(r)
  <2>1. UNCHANGED task /\ engine[r].at = "cleanup"
    BY <1>1 DEF EngineCleanup
  <2>2. task[r].at # "register"
    BY <2>1 DEF RunInv, RunOK, Finished
  <2>3. CASE UNCHANGED <<capsule, process>>
    BY <2>1, <2>3, UntouchedReleases
  <2>4. CASE cleanup_state(r, engine[r].exit) \/ cleanup_state_fails(r, engine[r].exit)
    BY <1>0, <2>1, <2>2, <2>4, CleanupReleases
  <2> QED
    BY <1>1, <2>3, <2>4 DEF EngineCleanup
<1>2. CASE ~EngineCleanup(r)
  <2>1. UNCHANGED <<task, capsule, process>>
    BY <1>2 DEF EngineStep, EngineOutcome, EngineStopped, EngineAppend, RemoveFinished, DropClaim
  <2> QED
    BY <2>1, UntouchedReleases
<1> QED
  BY <1>1, <1>2

\* So does a teardown.
LEMMA JobIdentity ==
    ASSUME TypeOK, JobInv, NEW w \in Workers, JobStep(w), Worked(w)
    PROVE  Releases
<1> DEFINE r == job[w].run
<1>0. HostOK /\ r \in Runs
  BY DEF TypeOK, Worked, JobInv, JobOK
<1>1. \A q \in Runs : task'[q].at = "register" => task[q].at = "register"
  BY DEF Worked, Carries, Ended
<1>2. CASE JobDestroy(w) \/ JobDestroyFails(w)
  <2>1. PICK exit : destroy(r, exit) \/ destroy_fails(r, exit)
    BY <1>2 DEF JobDestroy, JobDestroyFails
  <2>2. task[r].at # "register"
    BY <2>1 DEF destroy, destroy_fails, AllocationTurn
  <2>3. CASE UNCHANGED <<capsule, process>>
    BY <1>1, <2>3, UntouchedReleases
  <2>4. CASE cleanup_state(r, exit) \/ cleanup_state_fails(r, exit)
    BY <1>0, <1>1, <2>2, <2>4, CleanupReleases
  <2> QED
    BY <2>1, <2>3, <2>4 DEF destroy, destroy_fails
<1>3. CASE ~(JobDestroy(w) \/ JobDestroyFails(w))
  <2>1. UNCHANGED <<capsule, process>>
    BY <1>3 DEF JobStep, JobCheck, JobAppend, JobAppendFails, JobUnslot, JobDiscard
  <2> QED
    BY <1>1, <2>1, UntouchedReleases
<1> QED
  BY <1>2, <1>3

\* Calls, startup, discards, a dying controller and an exiting process give back
\* or leave alone.
LEMMA OtherIdentity ==
    ASSUME TypeOK, CallInv,
           \/ \E r \in Runs : Submit(r) \/ RequestForce(r) \/ Discard(r)
           \/ \E r, s \in Runs : Resume(s, r)
           \/ CallStep \/ BootStep \/ Crash
           \/ \E i \in Identities : SurvivorExits(i)
           \/ UNCHANGED vars
    PROVE  Releases
<1>0. HostOK /\ task \in [Runs -> TaskRecord] /\ process \in [Identities -> SUBSET Runs]
  BY DEF TypeOK, HostOK, ControlOK
<1>1. CASE Crash
  BY <1>0, <1>1 DEF Crash, NoCapsule, NoTask, Releases
<1>2. CASE \E i \in Identities : SurvivorExits(i)
  BY <1>0, <1>2 DEF SurvivorExits, Releases
<1>3. ASSUME NEW c \in {submit, resume}, StartPreparation(c) PROVE Releases
  <2>1. /\ UNCHANGED <<capsule, process>>
        /\ task' = [task EXCEPT ![call[c].run] = [NoTask EXCEPT !.at = "queued",
                                                                !.from = call[c].from]]
    BY <1>3 DEF StartPreparation
  <2>2. [NoTask EXCEPT !.at = "queued", !.from = call[c].from].at = "queued"
    BY DEF NoTask
  <2>3. \A q \in Runs : task'[q].at = "register" => task[q].at = "register"
    BY <1>0, <2>1, <2>2
  <2> QED
    BY <2>1, <2>3, UntouchedReleases
<1>4. CASE ForceCancel
  <2>1. UNCHANGED <<capsule, process>> /\ task' = [task EXCEPT ![call[force].run].cancel = TRUE]
    BY <1>4 DEF ForceCancel
  <2>2. \A q \in Runs : task'[q].at = "register" => task[q].at = "register"
    BY <1>0, <2>1 DEF TaskRecord
  <2> QED
    BY <2>1, <2>2, UntouchedReleases
<1>5. CASE UNCHANGED <<task, capsule, process>>
  BY <1>5, UntouchedReleases
<1>6. ASSUME NEW r \in Runs, NEW s \in Runs,
             Submit(r) \/ RequestForce(r) \/ Discard(r) \/ Resume(s, r)
      PROVE  UNCHANGED <<task, capsule, process>>
  BY <1>6 DEF Submit, RequestForce, Discard, Resume
<1>7. ASSUME CallStep, ~ForceCancel, ~\E c \in {submit, resume} : StartPreparation(c)
      PROVE  UNCHANGED <<task, capsule, process>>
  BY <1>7 DEF CallStep, FailOrphaned, CreateSuccessor, ForceStep, ForceTurn, ForceWaited,
              ForceSignal, ForceDriven, ForceRebuild, StartPreparationFails
<1>8. ASSUME BootStep PROVE UNCHANGED <<task, capsule, process>>
  BY <1>8 DEF BootStep, ReconcileDocument, ReconcileRun, UnlinkSuccessor, Reconciled, Serve
<1>9. UNCHANGED vars => UNCHANGED <<task, capsule, process>>
  BY DEF vars
<1> QED
  BY <1>1, <1>2, <1>3, <1>4, <1>5, <1>6, <1>7, <1>8, <1>9

\* No step lets two runs share an identity.
LEMMA IdentityStep ==
    ASSUME IInv, [Next]_vars
    PROVE  IdentityInv'
<1>0. TypeOK /\ HostOK /\ JobInv /\ CallInv /\ RunInv /\ IdentityInv
  BY DEF IInv, TypeOK
<1>1. ASSUME NEW r \in Runs, PreparationStep(r) PROVE IdentityInv'
  BY <1>0, <1>1, PreparationIdentity, IdentityKept
<1>2. ASSUME NEW r \in Runs, EngineStep(r) PROVE IdentityInv'
  BY <1>0, <1>2, EngineIdentity, IdentityKept
<1>3. ASSUME NEW w \in Workers, JobStep(w) PROVE IdentityInv'
  <2>1. Worked(w)
    BY <1>0, <1>3, JobEffect
  <2> QED
    BY <1>0, <1>3, <2>1, JobIdentity, IdentityKept
<1>4. CASE \/ \E r \in Runs : Submit(r) \/ RequestForce(r) \/ Discard(r)
           \/ \E r, s \in Runs : Resume(s, r)
           \/ CallStep \/ BootStep \/ Crash
           \/ \E i \in Identities : SurvivorExits(i)
           \/ UNCHANGED vars
  BY <1>0, <1>4, OtherIdentity, IdentityKept
<1> QED
  BY <1>1, <1>2, <1>3, <1>4 DEF Next

-----------------------------------------------------------------------------
(* The theorems. *)

\* The controller's first state.
LEMMA InitInv == Init => IInv
<1> SUFFICES ASSUME Init PROVE IInv
  OBVIOUS
<1>1. TypeOK
  BY TypeInit
<1>2. /\ \A r \in Runs : /\ ledger[r].state = "absent" /\ runtimes[r] = "none"
                         /\ task[r].at = "none" /\ engine[r].at = "off" /\ ~engine[r].again
                         /\ ~capsule[r].active /\ capsule[r].identity = NoIdentity
      /\ \A w \in Workers : job[w].step = "none"
      /\ \A c \in Callers : call[c].at = "idle"
  BY DEF Init, NoTask, NoEngine, NoCapsule, NoJob, Idle
<1>3. HandoffInv /\ JobInv /\ RunInv
  BY <1>2 DEF HandoffInv, JobInv, JobOK, RunInv, RunOK, Unbuilt, Resting, Preparation, Finished,
              Terminal
<1>4. CallInv /\ DownInv /\ ForceEndsTheRun
  BY <1>2, WorkerNames DEF CallInv, CallPlaces, StartInv, AcceptedInv, DownInv, ForceEndsTheRun, Up
<1>5. IdentityInv
  BY <1>2, HostingAssumption DEF IdentityInv
<1>6. OwnedInv
  BY <1>2 DEF OwnedInv, Open
<1> QED
  BY <1>1, <1>3, <1>4, <1>5, <1>6 DEF IInv

\* The controller, its tasks, engines and calls, the teardowns they run and the
\* identities they hold stay consistent with each other, whatever fails and
\* however often the controller dies.
THEOREM Invariant == Spec => []IInv
<1>1. ASSUME IInv, [Next]_vars PROVE IInv'
  <2>1. TypeOK' /\ Effect
    BY <1>1, StepEffect
  <2>2. HandoffInv' /\ JobInv' /\ RunInv'
    BY <1>1, <2>1, HandoffStep, TeardownStep, RunStep
  <2>3. CallInv'
    BY <1>1, <2>1, PlacesStep, StartStep, AcceptedStep DEF CallInv
  <2>4. IdentityInv'
    BY <1>1, IdentityStep
  <2>5. DownInv' /\ ForceEndsTheRun' /\ OwnedInv'
    BY <1>1, <2>1, DownStep, ForceStepEnds, OwnedStep
  <2> QED
    BY <2>1, <2>2, <2>3, <2>4, <2>5 DEF IInv
<1> QED
  BY <1>1, InitInv, PTL DEF Spec

\* No two capsules ever hold the same process identity, and none runs under one
\* in which processes of another run are alive.
THEOREM IdentityExclusion == Spec => []IdentitiesAreExclusive
<1>1. ASSUME IInv PROVE IdentitiesAreExclusive
  <2>0. IdentityInv /\ NoIdentity \notin Identities
    BY <1>1, HostingAssumption DEF IInv
  <2>1. ASSUME NEW i \in Identities
        PROVE  Cardinality({r \in Runs : capsule[r].identity = i}) <= 1
    <3> DEFINE S == {r \in Runs : capsule[r].identity = i}
    <3>1. S = {} \/ \E r \in S : S = {r}
      BY <2>0, <2>1 DEF IdentityInv
    <3>2. Cardinality({}) = 0 /\ \A r : Cardinality({r}) = 1
      BY FS_EmptySet, FS_Singleton
    <3> HIDE DEF S
    <3>3. Cardinality(S) \in {0, 1}
      BY <3>1, <3>2
    <3>4. Cardinality(S) <= 1
      BY <3>3
    <3> QED
      BY <3>4 DEF S
  <2>2. \A r \in Runs : capsule[r].active => process[capsule[r].identity] \subseteq {r}
    BY <2>0 DEF IdentityInv
  <2> QED
    BY <2>1, <2>2 DEF IdentitiesAreExclusive
<1> QED
  BY <1>1, Invariant, PTL

\* No run of this process has ended while its capsule is registered.
THEOREM TeardownComesFirst == Spec => []EndsAfterTeardown
<1>1. ASSUME IInv PROVE EndsAfterTeardown
  BY <1>1 DEF IInv, RunInv, RunOK, EndsAfterTeardown
<1> QED
  BY <1>1, Invariant, PTL

\* A force call that reports success has left a run that ended, or an engine that
\* gave up on it after a fault.
THEOREM ForceIsEffective == Spec => []ForceEndsTheRun
<1>1. ASSUME IInv PROVE ForceEndsTheRun
  BY <1>1 DEF IInv
<1> QED
  BY <1>1, Invariant, PTL

\* Unless something failed, every open run of a serving controller has a runtime
\* slot or a call at work on it.
THEOREM Ownership == Spec => []OpenRunsAreOwned
<1>1. ASSUME IInv PROVE OpenRunsAreOwned
  <2>1. OwnedInv /\ {submit, resume} \subseteq Callers
    BY <1>1, WorkerNames DEF IInv
  <2> QED
    BY <2>1 DEF OwnedInv, OpenRunsAreOwned
<1> QED
  BY <1>1, Invariant, PTL
=============================================================================
