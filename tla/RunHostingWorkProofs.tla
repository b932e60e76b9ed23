-------------------------- MODULE RunHostingWorkProofs --------------------------
(***************************************************************************)
(* The proof that RunHosting loses no work (WorkIsKept).                   *)
(*                                                                         *)
(* WInv relates what is on disk to who is where, on top of IInv of         *)
(* RunHostingProofs: directories are apart and kept work is in one         *)
(* (RootInv); a run is built, and its work may be offered, as its task     *)
(* says (BuildInv); a handoff's source has ended (SourceInv); a teardown   *)
(* and a working engine exclude each other (JobEngineInv); and whoever is  *)
(* about to publish a terminal event has settled the work first            *)
(* (SettledInv).  A step is reduced to what it does to the disk            *)
(* (DiskStep: it rewrites offers, sheds a directory, makes one, moves one  *)
(* or begins to keep one), and each part is shown to survive that.         *)
(***************************************************************************)
EXTENDS RunHostingProofs

\* A run's document offers its work, or names the run that took it over.
Offered(r) == doc[r].recoverable \/ doc[r].successor # None

\* Its work is not worth keeping, or offered.
Settled(r) == root[r] \in kept => Offered(r)

\* A call is about to start the run's preparation.
Starting(r) == \E c \in {submit, resume} : call[c].at = "start" /\ call[c].run = r

\* A run that has made no directory yet ...
Unmade(r) ==
    \/ ledger[r].state = "absent" \/ Starting(r)
    \/ task[r].at \in {"queued", "link", "rename"}
    \/ task[r].at = "register" /\ ~capsule[r].inherited

\* ... leaves no trace of its name on disk.
Blank(r) == root[r] = None /\ r \notin kept /\ \A q \in Runs : root[q] # r
BlankInv == \A r \in Runs : Unmade(r) => Blank(r)

\* No lineage is in two directories, and kept work is in one.
RootsApart == \A q, r \in Runs : root[q] = root[r] /\ root[q] # None => q = r
KeptHeld == \A l \in kept : l # None /\ \E r \in Runs : root[r] = l
RootInv == RootsApart /\ KeptHeld /\ BlankInv

\* The build of one run, and who may offer its work.
BuildOK(r) ==
    /\ task[r].at \in {"none", "queued", "link", "rename"} => ~capsule[r].inherited
    /\ task[r].at = "register" /\ capsule[r].inherited => root[r] # None
    /\ task[r].at \in {"build", "installed", "ready"} => capsule[r].active /\ root[r] # None
    /\ task[r].at = "ready" => capsule[r].endpoint
    /\ capsule[r].active /\ ~recovery_eligible(r) => root[r] \notin kept
    /\ ledger[r].state = "absent" \/ Starting(r) \/ task[r].at \in Preparation =>
         ~doc[r].recoverable
    /\ engine[r].at = "driving" => capsule[r].active
    /\ engine[r].at \in {"driving", "cleanup", "append"} => runtimes[r] = "running"
    /\ engine[r].at \in {"cleanup", "append"} => engine[r].exit # "none"
BuildInv == \A r \in Runs : BuildOK(r)

\* The source of a handoff has ended.
SourceInv ==
    /\ call[submit].at # "idle" => call[submit].from = None
    /\ call[resume].at \in {"create", "start"} =>
         call[resume].from \in Runs /\ Terminal(call[resume].from)
    /\ \A r \in Runs : task[r].at \in Preparation /\ task[r].from # None =>
         task[r].from \in Runs /\ Terminal(task[r].from)

\* A teardown and a working engine exclude each other.
JobEngineInv ==
    \A w \in Workers : job[w].step # "none" =>
        engine[job[w].run].at \in {"off", "removable", "gone"}

\* Whose work has to be settled.
MustSettle(r) ==
    \/ Terminal(r)
    \/ engine[r].at = "append" \/ (engine[r].at = "cleanup" /\ ~capsule[r].active)
    \/ \E w \in Workers : job[w].step = "append" /\ job[w].run = r
SettledInv == \A r \in Runs : MustSettle(r) => Settled(r)

\* Startup removes the document of a successor without a directory only.
UnlinkInv == call[boot].at = "unlink" => root[call[boot].run] = None

\* The inductive invariant, relative to IInv.
WInv == RootInv /\ BuildInv /\ SourceInv /\ JobEngineInv /\ SettledInv /\ UnlinkInv

-----------------------------------------------------------------------------
(* How a preparation builds its capsule. *)

SameCapsules(r) == \A q \in Runs : q # r => capsule'[q] = capsule[q]

\* Where a preparation comes from, and what its capsule has there.
Grows(r) ==
    /\ task'[r].at \in {"queued", "link", "rename", "register", "build", "installed", "ready",
                        "settle", "finished"}
    /\ task'[r].at \in {"queued", "link", "rename"} =>
         task[r].at \in {"queued", "link", "rename"} /\ capsule'[r] = capsule[r]
    /\ task'[r].at = "register" =>
         \/ task[r].at = "queued" /\ capsule'[r].inherited = capsule[r].inherited
         \/ task[r].at = "rename" /\ capsule'[r].inherited
    /\ task'[r].at = "build" => task[r].at = "register" /\ capsule'[r].active
    /\ task'[r].at = "installed" => task[r].at = "build" /\ capsule'[r] = capsule[r]
    /\ task'[r].at = "ready" => /\ task[r].at = "installed" /\ capsule'[r].endpoint
                                /\ capsule'[r].active = capsule[r].active
    /\ task'[r].at = "finished" => task[r].at = "ready" /\ capsule'[r] = capsule[r]
    /\ capsule'[r].active => /\ capsule[r].active \/ task'[r].at = "build"
                             /\ capsule[r].inherited => capsule'[r].inherited
                             /\ capsule[r].endpoint => capsule'[r].endpoint
    /\ task'[r].from = task[r].from \/ task'[r].at = "finished"

\* A step of a preparation is of that kind.
LEMMA PreparationGrows ==
    ASSUME TypeOK, NEW r \in Runs, PreparationStep(r)
    PROVE  SameCapsules(r) /\ Grows(r)
<1>0. /\ HostOK /\ ControlOK /\ capsule \in [Runs -> CapsuleRecord]
      /\ task \in [Runs -> TaskRecord] /\ capsule[r] \in CapsuleRecord /\ task[r] \in TaskRecord
  BY DEF TypeOK, HostOK, ControlOK
<1>s. ASSUME UNCHANGED capsule PROVE SameCapsules(r) /\ capsule'[r] = capsule[r]
  BY <1>s DEF SameCapsules
<1>f. ASSUME NEW failure, task' = [task EXCEPT ![r].at = "settle", ![r].failure = failure]
      PROVE  task'[r].at = "settle" /\ task'[r].from = task[r].from
  BY <1>0, <1>f DEF TaskRecord
<1>fails. ASSUME NEW failure, fails(r, failure)
          PROVE  task'[r].at = "settle" /\ task'[r].from = task[r].from
  BY <1>f, <1>fails DEF fails
<1>g. ASSUME NEW at \in TaskAts, task' = [task EXCEPT ![r].at = at]
      PROVE  task'[r].at = at /\ task'[r].from = task[r].from
  BY <1>0, <1>g DEF TaskRecord
<1>t. {"register", "link", "rename", "build", "installed", "ready"} \subseteq TaskAts
  BY DEF TaskAts
<1>1. CASE Allocate(r)
  <2>0. task[r].at = "queued"
    BY <1>1 DEF Allocate
  <2>1. CASE capsule[r].allocated \/ ~MayLease
    <3>1. fails(r, "unavailable") /\ capsule' = [capsule EXCEPT ![r].allocated = TRUE]
      BY <1>1, <2>1 DEF Allocate
    <3>2. /\ SameCapsules(r) /\ capsule'[r].active = capsule[r].active
          /\ capsule'[r].inherited = capsule[r].inherited
          /\ capsule'[r].endpoint = capsule[r].endpoint
      BY <1>0, <3>1 DEF CapsuleRecord, SameCapsules
    <3> QED
      BY <1>fails, <3>1, <3>2 DEF Grows
  <2>2. CASE ~(capsule[r].allocated \/ ~MayLease)
    <3>1. PICK i : capsule' = [capsule EXCEPT ![r].allocated = TRUE, ![r].identity = i,
                                              ![r].delivery = r]
      BY <1>1, <2>2 DEF Allocate
    <3>2. /\ SameCapsules(r) /\ capsule'[r].active = capsule[r].active
          /\ capsule'[r].inherited = capsule[r].inherited
          /\ capsule'[r].endpoint = capsule[r].endpoint
      BY <1>0, <3>1 DEF CapsuleRecord, SameCapsules
    <3>3. task' = [task EXCEPT ![r].at = "register"]
      BY <1>1, <2>2 DEF Allocate
    <3>4. task'[r].at = "register" /\ task'[r].from = task[r].from
      BY <1>g, <1>t, <3>3
    <3> QED
      BY <2>0, <3>2, <3>4 DEF Grows
  <2> QED
    BY <2>1, <2>2
<1>2. CASE ClaimRetained(r)
  <2>1. task[r].at = "queued" /\ UNCHANGED capsule
    BY <1>2 DEF ClaimRetained
  <2>2. fails(r, "unavailable") \/ task' = [task EXCEPT ![r].at = "link"]
    BY <1>2 DEF ClaimRetained
  <2>3. task'[r].at \in {"settle", "link"} /\ task'[r].from = task[r].from
    BY <1>fails, <1>g, <1>t, <2>2
  <2> QED
    BY <1>s, <2>1, <2>3 DEF Grows
<1>3. CASE LinkRetained(r)
  <2>1. /\ task[r].at = "link" /\ UNCHANGED capsule
        /\ task' = [task EXCEPT ![r].at = "rename"]
    BY <1>3 DEF LinkRetained
  <2>2. task'[r].at = "rename" /\ task'[r].from = task[r].from
    BY <1>g, <1>t, <2>1
  <2> QED
    BY <1>s, <2>1, <2>2 DEF Grows
<1>4. CASE RetainedFails(r)
  <2>1. fails(r, "unavailable") /\ UNCHANGED capsule
    BY <1>4 DEF RetainedFails
  <2> QED
    BY <1>s, <1>fails, <2>1 DEF Grows
<1>5. CASE RenameRetained(r)
  <2>0. task[r].at = "rename"
    BY <1>5 DEF RenameRetained
  <2>1. CASE MayLease
    <3>1. PICK i, d : capsule' = [capsule EXCEPT ![r].identity = i, ![r].delivery = d,
                                                 ![r].inherited = TRUE]
      BY <1>5, <2>1 DEF RenameRetained
    <3>2. /\ SameCapsules(r) /\ capsule'[r].active = capsule[r].active
          /\ capsule'[r].inherited /\ capsule'[r].endpoint = capsule[r].endpoint
      BY <1>0, <3>1 DEF CapsuleRecord, SameCapsules
    <3>3. task' = [task EXCEPT ![r].at = "register"]
      BY <1>5, <2>1 DEF RenameRetained
    <3>4. task'[r].at = "register" /\ task'[r].from = task[r].from
      BY <1>g, <1>t, <3>3
    <3> QED
      BY <2>0, <3>2, <3>4, SMTT(20) DEF Grows
  <2>2. CASE ~MayLease
    <3>1. fails(r, "unavailable") /\ UNCHANGED capsule
      BY <1>5, <2>2 DEF RenameRetained
    <3> QED
      BY <1>s, <1>fails, <3>1 DEF Grows
  <2> QED
    BY <2>1, <2>2
<1>6. CASE Register(r)
  <2>1. /\ task[r].at = "register" /\ task' = [task EXCEPT ![r].at = "build"]
        /\ capsule' = [capsule EXCEPT ![r].active = TRUE]
    BY <1>6 DEF Register
  <2>2. /\ SameCapsules(r) /\ capsule'[r].active
        /\ capsule'[r].inherited = capsule[r].inherited
        /\ capsule'[r].endpoint = capsule[r].endpoint
    BY <1>0, <2>1 DEF CapsuleRecord, SameCapsules
  <2>3. task'[r].at = "build" /\ task'[r].from = task[r].from
    BY <1>g, <1>t, <2>1
  <2> QED
    BY <2>1, <2>2, <2>3 DEF Grows
<1>7. CASE Install(r)
  <2>1. /\ task[r].at = "build" /\ UNCHANGED capsule
        /\ task' = [task EXCEPT ![r].at = "installed"]
    BY <1>7 DEF Install
  <2>2. task'[r].at = "installed" /\ task'[r].from = task[r].from
    BY <1>g, <1>t, <2>1
  <2> QED
    BY <1>s, <2>1, <2>2 DEF Grows
<1>8. CASE FinishCapsule(r)
  <2>1. /\ task[r].at = "installed" /\ task' = [task EXCEPT ![r].at = "ready"]
        /\ capsule' = [capsule EXCEPT ![r].endpoint = TRUE, ![r].allocated = TRUE]
    BY <1>8 DEF FinishCapsule
  <2>2. /\ SameCapsules(r) /\ capsule'[r].active = capsule[r].active
        /\ capsule'[r].inherited = capsule[r].inherited /\ capsule'[r].endpoint
    BY <1>0, <2>1 DEF CapsuleRecord, SameCapsules
  <2>3. task'[r].at = "ready" /\ task'[r].from = task[r].from
    BY <1>g, <1>t, <2>1
  <2> QED
    BY <2>1, <2>2, <2>3 DEF Grows
<1>9. CASE BuildFails(r)
  <2>1. PICK exit : cleanup_state(r, exit) \/ cleanup_state_fails(r, exit)
    BY <1>9 DEF BuildFails
  <2>2. fails(r, "unavailable")
    BY <1>9 DEF BuildFails
  <2>3. CASE cleanup_state(r, exit)
    <3>1. SameCapsules(r) /\ ~capsule'[r].active
      BY <1>0, <2>3, CleanupStateHost DEF SameCapsules
    <3> QED
      BY <1>fails, <2>2, <3>1 DEF Grows
  <2>4. CASE cleanup_state_fails(r, exit)
    BY <1>s, <1>fails, <2>2, <2>4 DEF Grows, cleanup_state_fails
  <2> QED
    BY <2>1, <2>3, <2>4
<1>10. CASE PreparationCancelled(r) \/ PreparationTimeout(r)
  <2>1. dropped(r) /\ (fails(r, "force_stopped") \/ fails(r, "unavailable"))
    BY <1>10 DEF PreparationCancelled, PreparationTimeout
  <2>2. PICK i : capsule' = [capsule EXCEPT ![r].identity = i]
    BY <1>0, <2>1 DEF dropped
  <2>3. /\ SameCapsules(r) /\ capsule'[r].active = capsule[r].active
        /\ capsule'[r].inherited = capsule[r].inherited
        /\ capsule'[r].endpoint = capsule[r].endpoint
    BY <1>0, <2>2 DEF CapsuleRecord, SameCapsules
  <2> QED
    BY <1>fails, <2>1, <2>3 DEF Grows
<1>11. CASE Handoff(r)
  <2>1. /\ task[r].at = "ready" /\ UNCHANGED capsule
        /\ fails(r, "force_stopped") \/ task' = [task EXCEPT ![r] = Done]
    BY <1>11 DEF Handoff
  <2>2. task' = [task EXCEPT ![r] = Done] => task'[r].at = "finished"
    BY <1>0 DEF Done, NoTask
  <2> QED
    BY <1>s, <1>fails, <2>1, <2>2 DEF Grows
<1>12. CASE HandoffFails(r)
  <2>1. /\ task' = [task EXCEPT ![r].at = "settle", ![r].failure = "unavailable"]
        /\ UNCHANGED capsule
    BY <1>12 DEF HandoffFails
  <2> QED
    BY <1>s, <1>f, <2>1 DEF Grows
<1> QED
  BY <1>1, <1>2, <1>3, <1>4, <1>5, <1>6, <1>7, <1>8, <1>9, <1>10, <1>11, <1>12
  DEF PreparationStep

-----------------------------------------------------------------------------
(* What a step does to the disk. *)

\* After the step: the work is offered, the run is about to be started, and it is
\* past its start.
OffersNow(r) == doc'[r].recoverable \/ doc'[r].successor # None
StartingNow(r) == \E c \in {submit, resume} : call'[c].at = "start" /\ call'[c].run = r
Spent(r) == ledger'[r].state # "absent" /\ task'[r].at \notin Preparation /\ ~StartingNow(r)

\* The step leaves directories, documents and kept work alone.
DiskSame == UNCHANGED <<root, doc, kept>>

\* A run's directory goes or stays; work is dropped only when it is nobody's to keep.
Sheds(r) ==
    /\ \A q \in Runs : q # r => root'[q] = root[q] /\ doc'[q] = doc[q]
    /\ root'[r] \in {root[r], None}
    /\ kept' \subseteq kept /\ kept \ {root[r]} \subseteq kept'
    /\ root'[r] # root[r] => root[r] \notin kept'
    /\ root'[r] \in kept' /\ Offered(r) => OffersNow(r)

\* The teardown is confirmed: what is left to keep is offered.
TornDown(r) == Sheds(r) /\ (root'[r] \in kept' => OffersNow(r))

\* The directory's cleanup, if what is to be kept is eligible for it.
LEMMA CleanupDirectorySheds ==
    ASSUME DiskOK, KeptHeld, NEW r \in Runs, NEW exit \in {"completed", "failed", "lost", "forced"},
           NEW eligible, NEW defer, NEW delivery \in Lineages,
           root[r] \in kept => eligible,
           cleanup_run_directory(r, exit, eligible, defer, delivery)
    PROVE  TornDown(r)
<1>0. /\ root \in [Runs -> Lineages] /\ doc \in [Runs -> DocRecord] /\ doc[r] \in DocRecord
      /\ None \notin kept
  BY DEF DiskOK, KeptHeld
<1>1. CASE eligible /\ exit \in {"failed", "lost"} /\ HasWorkspace(r)
  <2>1. retain_failed_workspace(r, delivery)
    BY <1>1 DEF cleanup_run_directory
  <2>2. UNCHANGED <<root, kept>>
    BY <2>1 DEF retain_failed_workspace
  <2> DEFINE new == [doc[r] EXCEPT !.present = TRUE, !.recoverable = TRUE,
                         !.delivery = IF doc[r].delivery = None THEN delivery ELSE doc[r].delivery]
  <2>3. new.recoverable
    BY <1>0 DEF DocRecord
  <2>4. doc' = [doc EXCEPT ![r] = new]
    BY <1>0, <2>1 DEF retain_failed_workspace, DocRecord
  <2> HIDE DEF new
  <2>5. doc'[r].recoverable /\ \A q \in Runs : q # r => doc'[q] = doc[q]
    BY <1>0, <2>3, <2>4
  <2> QED
    BY <2>2, <2>5 DEF TornDown, Sheds, OffersNow
<1>2. CASE ~(eligible /\ exit \in {"failed", "lost"} /\ HasWorkspace(r))
  <2>1. dispose_run_directory(r, exit, defer, delivery)
    BY <1>2 DEF cleanup_run_directory
  <2>2. root' = [root EXCEPT ![r] = None] /\ doc' = doc
    BY <2>1 DEF dispose_run_directory
  <2>3. root'[r] = None /\ \A q \in Runs : q # r => root'[q] = root[q]
    BY <1>0, <2>2
  <2>4. CASE exit \in {"forced", "completed"}
    <3>1. kept' = kept \ {root[r]}
      BY <2>1, <2>4 DEF dispose_run_directory
    <3> QED
      BY <1>0, <2>2, <2>3, <3>1 DEF TornDown, Sheds
  <2>5. CASE exit \in {"failed", "lost"}
    <3>1. kept' = kept
      BY <2>1, <2>5 DEF dispose_run_directory
    <3>2. root[r] \notin kept
      BY <1>0, <1>2, <2>5 DEF HasWorkspace
    <3> QED
      BY <1>0, <2>2, <2>3, <3>1, <3>2 DEF TornDown, Sheds
  <2> QED
    BY <2>4, <2>5
<1> QED
  BY <1>1, <1>2

\* A disk that stays the same has shed nothing.
LEMMA SameSheds ==
    ASSUME NEW r \in Runs, DiskSame
    PROVE  Sheds(r)
BY DEF DiskSame, Sheds, Offered, OffersNow

\* The cleanup of an active capsule, confirmed or not.
LEMMA CleanupSheds ==
    ASSUME DiskOK, HostOK, KeptHeld, NEW r \in Runs, BuildOK(r), capsule[r].active,
           NEW exit \in {"completed", "failed", "lost", "forced"}
    PROVE  /\ cleanup_state(r, exit) => TornDown(r)
           /\ cleanup_state_fails(r, exit) => Sheds(r)
<1>1. ASSUME cleanup_state(r, exit) PROVE TornDown(r)
  <2>1. capsule[r].delivery \in Lineages
    BY DEF HostOK, CapsuleRecord
  <2>2. root[r] \in kept => recovery_eligible(r)
    BY DEF BuildOK
  <2>3. cleanup_run_directory(r, exit, recovery_eligible(r), TRUE, capsule[r].delivery)
    BY <1>1 DEF cleanup_state
  <2> QED
    BY <2>1, <2>2, <2>3, CleanupDirectorySheds
<1>2. ASSUME cleanup_state_fails(r, exit) PROVE Sheds(r)
  BY <1>2, SameSheds DEF cleanup_state_fails, untouched, DiskSame
<1> QED
  BY <1>1, <1>2

\* destroy_or_confirm_absent, confirmed or not.
LEMMA DestroySheds ==
    ASSUME DiskOK, HostOK, KeptHeld, NEW r \in Runs, BuildOK(r), NEW exit \in {"lost", "forced"}
    PROVE  /\ destroy(r, exit) => TornDown(r)
           /\ destroy_fails(r, exit) => Sheds(r)
<1>0. root \in [Runs -> Lineages] /\ None \notin kept
  BY DEF DiskOK, KeptHeld
<1>1. CASE capsule[r].active
  BY <1>1, CleanupSheds DEF destroy, destroy_fails
<1>2. CASE ~capsule[r].active
  <2>1. ASSUME destroy(r, exit) PROVE TornDown(r)
    <3>1. CASE capsule[r].allocated
      <4>1. untouched /\ (~HasWorkspace(r) \/ confirmed_retained(r))
        BY <1>2, <2>1, <3>1 DEF destroy
      <4>2. Sheds(r)
        BY <4>1, SameSheds DEF untouched, DiskSame
      <4> QED
        BY <1>0, <4>1, <4>2 DEF untouched, TornDown, OffersNow, HasWorkspace, confirmed_retained
    <3>2. CASE ~capsule[r].allocated
      <4>1. cleanup_run_directory(r, exit, TRUE, FALSE, delivery_of(r))
        BY <1>2, <2>1, <3>2 DEF destroy
      <4>2. delivery_of(r) \in Lineages
        BY DEF delivery_of, DiskOK, DocRecord, Lineages
      <4> QED
        BY <4>1, <4>2, CleanupDirectorySheds
    <3> QED
      BY <3>1, <3>2
  <2>2. ASSUME destroy_fails(r, exit) PROVE Sheds(r)
    <3>1. CASE untouched
      BY <3>1, SameSheds DEF untouched, DiskSame
    <3>2. CASE ~untouched
      <4>1. /\ ~(exit = "lost" /\ HasWorkspace(r))
            /\ root' = [root EXCEPT ![r] = None] /\ doc' = doc
            /\ kept' = IF exit = "forced" THEN kept \ {root[r]} ELSE kept
        BY <1>2, <2>2, <3>2 DEF destroy_fails
      <4>2. root'[r] = None /\ \A q \in Runs : q # r => root'[q] = root[q]
        BY <1>0, <4>1
      <4>3. CASE exit = "forced"
        BY <1>0, <4>1, <4>2, <4>3 DEF Sheds
      <4>4. CASE exit = "lost"
        BY <1>0, <4>1, <4>2, <4>4 DEF Sheds, HasWorkspace
      <4> QED
        BY <4>3, <4>4
    <3> QED
      BY <3>1, <3>2
  <2> QED
    BY <2>1, <2>2
<1> QED
  BY <1>1, <1>2

\* discard_workspace, to its end or part of the way.
LEMMA DiscardSheds ==
    ASSUME DiskOK, KeptHeld, NEW r \in Runs, discard_workspace(r) \/ discard_fails(r)
    PROVE  Sheds(r) /\ (doc'[r].recoverable => doc[r].recoverable)
<1>0. /\ root \in [Runs -> Lineages] /\ doc \in [Runs -> DocRecord] /\ doc[r] \in DocRecord
      /\ None \notin kept
  BY DEF DiskOK, KeptHeld
<1>1. CASE untouched
  BY <1>1, SameSheds DEF untouched, DiskSame
<1>2. CASE discard_workspace(r) /\ ~untouched
  <2>1. /\ root' = [root EXCEPT ![r] = None] /\ kept' = kept \ {root[r]}
        /\ doc' = [doc EXCEPT ![r].recoverable = FALSE]
    BY <1>2 DEF discard_workspace
  <2>2. root'[r] = None /\ \A q \in Runs : q # r => root'[q] = root[q]
    BY <1>0, <2>1
  <2>3. ~doc'[r].recoverable /\ \A q \in Runs : q # r => doc'[q] = doc[q]
    BY <1>0, <2>1 DEF DocRecord
  <2> QED
    BY <1>0, <2>1, <2>2, <2>3 DEF Sheds
<1>3. CASE discard_fails(r)
  <2>1. /\ root' = [root EXCEPT ![r] = None] \/ root' = root
        /\ kept' = kept \ {root[r]} /\ doc' = doc
    BY <1>3 DEF discard_fails
  <2>2. root'[r] \in {root[r], None} /\ \A q \in Runs : q # r => root'[q] = root[q]
    BY <1>0, <2>1
  <2> QED
    BY <1>0, <2>1, <2>2 DEF Sheds
<1> QED
  BY <1>1, <1>2, <1>3

-----------------------------------------------------------------------------
(* What a step does to the capsules. *)

\* One capsule at most is touched, and only to deregister it.
Lowers(r) ==
    /\ SameCapsules(r)
    /\ capsule'[r] = capsule[r] \/ (capsule[r].active /\ ~capsule'[r].active)

\* Everything but preparations, engines, teardowns and a dying controller.
OtherStep ==
    \/ \E r \in Runs : Submit(r) \/ RequestForce(r) \/ Discard(r)
    \/ \E r, s \in Runs : Resume(s, r)
    \/ CallStep \/ BootStep
    \/ \E i \in Identities : SurvivorExits(i)
    \/ UNCHANGED vars

\* What such a step may move.
OtherEffect ==
    /\ UNCHANGED <<capsule, engine>>
    /\ \/ \E r \in Runs : Submitted(r) \/ Resumed(r) \/ Requested(r)
       \/ \E c \in {submit, resume} : Started(c) \/ StartFailed(c)
       \/ Created \/ OrphanFailed \/ Forced \/ Booted \/ Still

\* The kinds of steps, with what each is known to do.
StepKinds ==
    \/ \E r \in Runs : PreparationStep(r) /\ Prepared(r) /\ SameCapsules(r) /\ Grows(r)
    \/ \E r \in Runs : EngineStep(r) /\ Driven(r) /\ Lowers(r)
    \/ \E w \in Workers : JobStep(w) /\ Worked(w) /\ Lowers(job[w].run)
    \/ OtherStep /\ OtherEffect
    \/ Crash /\ Died

\* An engine deregisters its own capsule, when its cleanup is confirmed.
LEMMA EngineLowers ==
    ASSUME HostOK, NEW r \in Runs, EngineStep(r)
    PROVE  Lowers(r)
<1>1. CASE UNCHANGED capsule
  BY <1>1 DEF Lowers, SameCapsules
<1>2. ASSUME NEW exit, capsule[r].active, cleanup_state(r, exit) PROVE Lowers(r)
  BY <1>2, CleanupStateHost DEF Lowers, SameCapsules
<1>3. CASE EngineCleanup(r)
  BY <1>1, <1>2, <1>3 DEF EngineCleanup, cleanup_state_fails
<1> QED
  BY <1>1, <1>3 DEF EngineStep, EngineOutcome, EngineStopped, EngineAppend, RemoveFinished, DropClaim

\* A teardown deregisters the capsule of its run.
LEMMA JobLowers ==
    ASSUME HostOK, NEW w \in Workers, job[w].run \in Runs, JobStep(w)
    PROVE  Lowers(job[w].run)
<1> DEFINE r == job[w].run
<1>1. CASE UNCHANGED capsule
  BY <1>1 DEF Lowers, SameCapsules
<1>2. ASSUME NEW exit, capsule[r].active, cleanup_state(r, exit) PROVE Lowers(r)
  BY <1>2, CleanupStateHost DEF Lowers, SameCapsules
<1>3. CASE JobDestroy(w)
  BY <1>1, <1>2, <1>3 DEF JobDestroy, destroy
<1>4. CASE JobDestroyFails(w)
  BY <1>1, <1>4 DEF JobDestroyFails, destroy_fails, cleanup_state_fails
<1> QED
  BY <1>1, <1>3, <1>4 DEF JobStep, JobCheck, JobAppend, JobAppendFails, JobUnslot, JobDiscard

\* Nobody else touches a capsule or an engine.
LEMMA OthersLeave ==
    ASSUME OtherStep
    PROVE  UNCHANGED <<capsule, engine>>
<1>1. CASE \E r, s \in Runs : Submit(r) \/ RequestForce(r) \/ Discard(r) \/ Resume(s, r)
  BY <1>1 DEF Submit, RequestForce, Discard, Resume
<1>2. CASE CallStep
  BY <1>2 DEF CallStep, FailOrphaned, CreateSuccessor, ForceStep, ForceTurn, ForceWaited,
              ForceCancel, ForceSignal, ForceDriven, ForceRebuild, StartPreparation,
              StartPreparationFails
<1>3. CASE BootStep
  BY <1>3 DEF BootStep, ReconcileDocument, ReconcileRun, UnlinkSuccessor, Reconciled, Serve
<1>4. CASE (\E i \in Identities : SurvivorExits(i)) \/ UNCHANGED vars
  BY <1>4 DEF SurvivorExits, vars
<1> QED
  BY <1>1, <1>2, <1>3, <1>4 DEF OtherStep

\* And it moves its call, or nothing.
LEMMA OthersMove ==
    ASSUME IInv, OtherStep
    PROVE  OtherEffect
<1>0. TypeOK /\ CallInv /\ RunInv /\ UNCHANGED <<capsule, engine>>
  BY OthersLeave DEF IInv
<1>1. ASSUME NEW r \in Runs, Submit(r) \/ \E s \in Runs : Resume(s, r) PROVE OtherEffect
  BY <1>0, <1>1, SubmissionEffect DEF OtherEffect
<1>2. ASSUME NEW r \in Runs, RequestForce(r) PROVE OtherEffect
  BY <1>0, <1>2, ForceEffect DEF OtherEffect
<1>3. ASSUME NEW r \in Runs, Discard(r) PROVE OtherEffect
  BY <1>0, <1>3, StillEffect DEF OtherEffect
<1>4. CASE CallStep
  <2>1. CASE FailOrphaned
    BY <1>0, <2>1, StartEffect DEF OtherEffect
  <2>2. CASE CreateSuccessor
    <3>1. call[resume].run \in Runs
      BY <1>0, <2>2, Names, WorkerNames DEF CallInv, CallPlaces, CreateSuccessor
    <3> QED
      BY <1>0, <2>2, <3>1, SubmissionEffect DEF OtherEffect
  <2>3. CASE ForceStep
    BY <1>0, <2>3, ForceEffect DEF OtherEffect
  <2>4. CASE \E c \in {submit, resume} : StartPreparation(c) \/ StartPreparationFails(c)
    BY <1>0, <2>4, StartEffect DEF OtherEffect
  <2> QED
    BY <1>4, <2>1, <2>2, <2>3, <2>4 DEF CallStep
<1>5. CASE BootStep
  BY <1>0, <1>5, BootEffect DEF OtherEffect
<1>6. CASE (\E i \in Identities : SurvivorExits(i)) \/ UNCHANGED vars
  BY <1>0, <1>6, StillEffect DEF OtherEffect
<1> QED
  BY <1>1, <1>2, <1>3, <1>4, <1>5, <1>6 DEF OtherStep

\* Every step is of one of these kinds.
LEMMA KindOfStep ==
    ASSUME IInv, [Next]_vars
    PROVE  StepKinds
<1>0. TypeOK /\ HandoffInv /\ IdentityInv /\ HostOK /\ JobInv
  BY DEF IInv, TypeOK
<1>1. ASSUME NEW r \in Runs, PreparationStep(r) PROVE StepKinds
  BY <1>0, <1>1, PreparationEffect, PreparationGrows DEF StepKinds
<1>2. ASSUME NEW r \in Runs, EngineStep(r) PROVE StepKinds
  BY <1>0, <1>2, EngineEffect, EngineLowers DEF StepKinds
<1>3. ASSUME NEW w \in Workers, JobStep(w) PROVE StepKinds
  <2>1. Worked(w)
    BY <1>0, <1>3, JobEffect
  <2>2. job[w].run \in Runs
    BY <1>0, <2>1 DEF Worked, JobInv, JobOK
  <2> QED
    BY <1>0, <1>3, <2>1, <2>2, JobLowers DEF StepKinds
<1>4. CASE OtherStep
  BY <1>4, OthersMove DEF StepKinds
<1>5. CASE Crash
  BY <1>0, <1>5, CrashEffect DEF StepKinds
<1> QED
  BY <1>1, <1>2, <1>3, <1>4, <1>5 DEF Next, OtherStep

-----------------------------------------------------------------------------
(* What a step does to the work on disk. *)

\* Directories stay, and so does every offer of kept work.
Redocs ==
    /\ UNCHANGED <<root, kept>>
    /\ \A q \in Runs : root[q] \in kept /\ Offered(q) => OffersNow(q)

\* A new directory.
Makes(r) ==
    /\ Blank(r) /\ task'[r].at = "build" /\ UNCHANGED <<doc, kept>>
    /\ root'[r] = r /\ \A q \in Runs : q # r => root'[q] = root[q]

\* A directory becomes the successor's.
Moves(r, s) ==
    /\ r # s /\ Terminal(s) /\ UNCHANGED <<ledger, kept>>
    /\ root[r] = None /\ root'[r] = root[s] /\ root'[s] = None
    /\ \A q \in Runs : q # r /\ q # s => root'[q] = root[q]
    /\ \A q \in Runs : q # r => doc'[q] = doc[q]
    /\ \/ task'[r].at = "register" /\ capsule'[r].inherited
       \/ task'[r].at = "settle" /\ doc'[r].recoverable
    /\ ~capsule'[r].active

\* The work in a directory becomes worth keeping.
Keeps(r) ==
    /\ root[r] # None /\ UNCHANGED <<root, doc>> /\ kept' = kept \cup {root[r]}
    /\ task[r].at = "ready" /\ task'[r].at = "finished" /\ capsule'[r].endpoint
    /\ engine'[r].at = "driving" /\ UNCHANGED <<ledger, job>>

\* What a step may do to the disk.
DiskStep ==
    \/ Redocs
    \/ \E r \in Runs : Sheds(r) /\ task'[r].at \notin Preparation
    \/ \E r \in Runs : Makes(r) \/ Keeps(r)
    \/ \E r, s \in Runs : Moves(r, s)

\* A run's work comes to be offered only when the run is past its start.
Recovers == \A q \in Runs : doc'[q].recoverable => doc[q].recoverable \/ Spent(q)

\* The directories, documents and kept work left alone.
LEMMA SameRedocs ==
    ASSUME DiskSame
    PROVE  DiskStep /\ Recovers
BY DEF DiskSame, DiskStep, Redocs, Recovers, Offered, OffersNow

\* A run with a task, or that has ended, is past its start.
LEMMA TaskSpends ==
    ASSUME IInv', NEW r \in Runs, task'[r].at \notin Preparation,
           task'[r].at # "none" \/ EndedNow(r)
    PROVE  Spent(r)
<1>1. task'[r].at # "none" => ledger'[r].state # "absent"
  BY DEF IInv, RunInv, RunOK
<1>2. StartingNow(r) => ledger'[r].state = "open" /\ task'[r].at = "none"
  BY DEF IInv, CallInv, StartInv, StartingNow, Open
<1> QED
  BY <1>1, <1>2 DEF Spent, EndedNow

\* A run that has ended has no preparation, before or after.
LEMMA EndedRests ==
    ASSUME IInv, IInv', NEW r \in Runs
    PROVE  /\ Terminal(r) => task[r].at \notin Preparation
           /\ EndedNow(r) => task'[r].at \notin Preparation
BY DEF IInv, RunInv, RunOK, Terminal, EndedNow

\* The claim on a retained workspace, written, followed up or rolled back.
LEMMA ClaimDisk ==
    ASSUME IInv, IInv', WInv, NEW r \in Runs,
           ClaimRetained(r) \/ LinkRetained(r) \/ RetainedFails(r)
    PROVE  DiskStep /\ Recovers
<1> DEFINE s == task[r].from
<1>0. /\ doc \in [Runs -> DocRecord] /\ task \in [Runs -> TaskRecord] /\ None \notin kept
      /\ task[r].at \in {"queued", "link", "rename"} /\ s # None
  <2>1. task[r].at \in {"link", "rename"} => s # None
    BY Names DEF IInv, HandoffInv
  <2> QED
    BY <2>1 DEF IInv, TypeOK, DiskOK, ControlOK, WInv, RootInv, KeptHeld, ClaimRetained,
                LinkRetained, RetainedFails
<1>1. s \in Runs /\ Terminal(s) /\ r # s /\ UNCHANGED <<root, kept, ledger>>
  <2>1. s \in Runs /\ Terminal(s)
    BY <1>0 DEF WInv, SourceInv, Preparation
  <2>2. ~Terminal(r)
    BY <1>0, EndedRests DEF Preparation
  <2> QED
    BY <2>1, <2>2 DEF ClaimRetained, LinkRetained, RetainedFails
<1>2. root[r] = None
  BY <1>0 DEF WInv, RootInv, BlankInv, Unmade, Blank
<1>3. Spent(s)
  BY <1>1, EndedRests, TaskSpends DEF Terminal, EndedNow
<1>4. ASSUME \A q \in Runs : q # r /\ q # s => doc'[q] = doc[q],
             OffersNow(s) \/ doc'[s] = doc[s],
             doc'[r].recoverable => doc[r].recoverable
      PROVE  DiskStep /\ Recovers
  BY <1>0, <1>1, <1>2, <1>3, <1>4 DEF DiskStep, Redocs, Recovers, Offered, OffersNow
<1>5. CASE ClaimRetained(r)
  <2>1. CASE UNCHANGED doc
    BY <1>4, <2>1
  <2>2. CASE ~UNCHANGED doc
    <3>1. doc' = [doc EXCEPT ![s].recoverable = FALSE, ![s].successor = r,
                             ![s].delivery = delivery_of(s)]
      BY <1>5, <2>2 DEF ClaimRetained
    <3>2. /\ \A q \in Runs : q # s => doc'[q] = doc[q]
          /\ doc'[s].successor = r
      BY <1>0, <1>1, <3>1 DEF DocRecord
    <3> QED
      BY <1>1, <1>4, <3>2, Names DEF OffersNow
  <2> QED
    BY <2>1, <2>2
<1>6. CASE LinkRetained(r)
  <2>1. /\ \A q \in Runs : q # r => doc'[q] = doc[q]
        /\ ~doc'[r].recoverable
    BY <1>0, <1>6 DEF LinkRetained
  <2> QED
    BY <1>1, <1>4, <2>1
<1>7. CASE RetainedFails(r)
  <2>1. PICK broken : rollback_retained_claim(r, broken)
    BY <1>7 DEF RetainedFails
  <2> DEFINE new == IF "source" \in broken THEN doc[s]
                    ELSE [doc[s] EXCEPT !.recoverable = TRUE, !.successor = None]
             old == IF "successor" \in broken THEN doc[r] ELSE NoDoc
  <2>2. doc' = [doc EXCEPT ![s] = new, ![r] = old]
    BY <2>1 DEF rollback_retained_claim
  <2>3. new = doc[s] \/ new.recoverable
    BY <1>0, <1>1 DEF DocRecord
  <2>4. old.recoverable => doc[r].recoverable
    BY DEF NoDoc
  <2> HIDE DEF new, old
  <2>5. doc'[s] = new /\ doc'[r] = old /\ \A q \in Runs : q # r /\ q # s => doc'[q] = doc[q]
    BY <1>0, <1>1, <2>2
  <2> QED
    BY <1>4, <2>3, <2>4, <2>5 DEF OffersNow
<1> QED
  BY <1>5, <1>6, <1>7

\* The directory moves to the successor.
LEMMA RenameDisk ==
    ASSUME IInv, IInv', WInv, NEW r \in Runs, RenameRetained(r), Grows(r)
    PROVE  DiskStep /\ Recovers
<1> DEFINE s == task[r].from
<1>0. /\ doc \in [Runs -> DocRecord] /\ root \in [Runs -> Lineages] /\ task[r].at = "rename"
      /\ s \in Runs
  BY DEF IInv, TypeOK, DiskOK, HandoffInv, RenameRetained
<1>1. Terminal(s) /\ r # s
  <2>1. Terminal(s)
    BY <1>0, Names DEF WInv, SourceInv, Preparation
  <2>2. ~Terminal(r)
    BY <1>0, EndedRests DEF Preparation
  <2> QED
    BY <2>1, <2>2
<1>2. root[r] = None
  BY <1>0 DEF WInv, RootInv, BlankInv, Unmade, Blank
<1>3. /\ root'[r] = root[s] /\ root'[s] = None /\ UNCHANGED <<ledger, kept>>
      /\ \A q \in Runs : q # r /\ q # s => root'[q] = root[q]
  BY <1>0, <1>1 DEF RenameRetained
<1>4. ~capsule[r].active
  BY <1>0 DEF IInv, RunInv, RunOK, Unbuilt
<1>5. CASE MayLease
  <2>1. UNCHANGED doc
    BY <1>5 DEF RenameRetained
  <2>2. task' = [task EXCEPT ![r].at = "register"]
    BY <1>5 DEF RenameRetained
  <2>3. task'[r].at = "register"
    BY <2>2 DEF IInv, TypeOK, ControlOK, TaskRecord
  <2>4. capsule'[r].inherited
    BY <1>0, <2>3 DEF Grows
  <2>5. ~capsule'[r].active
    BY <1>4, <2>3 DEF Grows
  <2> QED
    BY <1>0, <1>1, <1>2, <1>3, <2>1, <2>3, <2>4, <2>5 DEF DiskStep, Moves, Recovers
<1>6. CASE ~MayLease
  <2>1. /\ doc' = [doc EXCEPT ![r].recoverable = TRUE] /\ fails(r, "unavailable")
        /\ UNCHANGED capsule
    BY <1>6 DEF RenameRetained
  <2>2. doc'[r].recoverable /\ \A q \in Runs : q # r => doc'[q] = doc[q]
    BY <1>0, <2>1 DEF DocRecord
  <2>3. task'[r].at = "settle"
    BY <2>1, FailsType DEF IInv, TypeOK
  <2>4. Spent(r)
    BY <2>3, TaskSpends DEF Preparation
  <2>5. DiskStep
    BY <1>0, <1>1, <1>2, <1>3, <1>4, <2>1, <2>2, <2>3 DEF DiskStep, Moves
  <2> QED
    BY <2>2, <2>4, <2>5 DEF Recovers
<1> QED
  BY <1>5, <1>6

\* Every step of a preparation.
LEMMA PreparationDisk ==
    ASSUME IInv, IInv', WInv, NEW r \in Runs, PreparationStep(r), Grows(r)
    PROVE  DiskStep /\ Recovers
<1>0. /\ root \in [Runs -> Lineages] /\ TypeOK /\ DiskOK /\ HostOK /\ ControlOK /\ KeptHeld
      /\ BuildOK(r) /\ capsule \in [Runs -> CapsuleRecord]
  BY DEF IInv, TypeOK, DiskOK, HostOK, WInv, RootInv, BuildInv
<1>1. CASE Allocate(r) \/ Install(r) \/ FinishCapsule(r) \/ HandoffFails(r)
           \/ PreparationCancelled(r) \/ PreparationTimeout(r)
  <2>1. DiskSame
    BY <1>1 DEF Allocate, Install, FinishCapsule, HandoffFails, PreparationCancelled,
                PreparationTimeout, durable, DiskSame
  <2> QED
    BY <2>1, SameRedocs
<1>2. CASE Register(r)
  <2>1. /\ task[r].at = "register" /\ UNCHANGED <<doc, kept>>
        /\ root' = [root EXCEPT ![r] = IF capsule[r].inherited THEN root[r] ELSE r]
        /\ task' = [task EXCEPT ![r].at = "build"]
    BY <1>0, <1>2 DEF Register
  <2>2. task'[r].at = "build"
    BY <1>0, <2>1 DEF ControlOK, TaskRecord
  <2>3. CASE capsule[r].inherited
    BY <1>0, <2>1, <2>3, SameRedocs DEF DiskSame
  <2>4. CASE ~capsule[r].inherited
    <3>1. Blank(r)
      BY <2>1, <2>4 DEF WInv, RootInv, BlankInv, Unmade
    <3>2. root'[r] = r /\ \A q \in Runs : q # r => root'[q] = root[q]
      BY <1>0, <2>1, <2>4
    <3> QED
      BY <2>1, <2>2, <3>1, <3>2 DEF DiskStep, Makes, Recovers
  <2> QED
    BY <2>3, <2>4
<1>3. CASE BuildFails(r)
  <2> DEFINE exit == IF capsule[r].inherited THEN "lost" ELSE "completed"
  <2>1. /\ task[r].at \in {"build", "installed"} /\ fails(r, "unavailable")
        /\ cleanup_state(r, exit) \/ cleanup_state_fails(r, exit)
    BY <1>3 DEF BuildFails
  <2>2. capsule[r].active
    BY <1>0, <2>1 DEF BuildOK
  <2>3. exit \in {"completed", "failed", "lost", "forced"}
    OBVIOUS
  <2> HIDE DEF exit
  <2>4. Sheds(r)
    BY <1>0, <2>1, <2>2, <2>3, CleanupSheds DEF TornDown
  <2>5. task'[r].at = "settle"
    BY <1>0, <2>1, FailsType
  <2>6. Spent(r)
    BY <2>5, TaskSpends DEF Preparation
  <2> QED
    BY <2>4, <2>5, <2>6 DEF DiskStep, Sheds, Recovers, Preparation
<1>4. CASE Handoff(r)
  <2>0. task[r].at = "ready" /\ UNCHANGED <<ledger, root, doc, capsule>>
    BY <1>4 DEF Handoff, durable
  <2>1. CASE task[r].cancel
    BY <1>4, <2>0, <2>1, SameRedocs DEF Handoff, DiskSame
  <2>2. CASE ~task[r].cancel
    <3>1. /\ kept' = kept \cup {root[r]} /\ task' = [task EXCEPT ![r] = Done]
          /\ engine' = [engine EXCEPT ![r].at = "driving"] /\ UNCHANGED job
      BY <1>4, <2>2 DEF Handoff
    <3>2. task'[r].at = "finished"
      BY <1>0, <3>1 DEF ControlOK, Done, NoTask
    <3>3. engine'[r].at = "driving"
      BY <1>0, <3>1 DEF ControlOK, EngineRecord
    <3>4. root[r] # None /\ capsule'[r].endpoint
      BY <1>0, <2>0 DEF BuildOK
    <3> QED
      BY <2>0, <3>1, <3>2, <3>3, <3>4 DEF DiskStep, Keeps, Recovers
  <2> QED
    BY <2>1, <2>2
<1> QED
  BY <1>1, <1>2, <1>3, <1>4, ClaimDisk, RenameDisk DEF PreparationStep

\* Every step of an engine.
LEMMA EngineDisk ==
    ASSUME IInv, IInv', WInv, NEW r \in Runs, EngineStep(r), Driven(r)
    PROVE  /\ DiskStep /\ Recovers
           /\ EngineCleanup(r) /\ engine'[r].at = "append" /\ capsule[r].active => TornDown(r)
<1>0. DiskOK /\ HostOK /\ KeptHeld /\ BuildOK(r) /\ engine \in [Runs -> EngineRecord]
  BY DEF IInv, TypeOK, ControlOK, WInv, RootInv, BuildInv
<1>1. CASE DiskSame /\ ~EngineCleanup(r)
  BY <1>1, SameRedocs
<1>2. CASE EngineCleanup(r)
  <2>1. /\ engine[r].at = "cleanup" /\ UNCHANGED task
    BY <1>2 DEF EngineCleanup
  <2>2. CASE ~capsule[r].active
    BY <1>2, <2>2, SameRedocs DEF EngineCleanup, DiskSame, untouched
  <2>3. CASE capsule[r].active
    <3> DEFINE exit == engine[r].exit
    <3>1. exit \in {"completed", "failed", "lost", "forced"}
      BY <1>0, <2>1 DEF BuildOK, EngineRecord, Exits
    <3>2. \/ cleanup_state(r, exit)
          \/ cleanup_state_fails(r, exit) /\ gives_up(r)
      BY <1>2, <2>3 DEF EngineCleanup
    <3> HIDE DEF exit
    <3>3. Sheds(r) /\ (cleanup_state(r, exit) => TornDown(r))
      BY <1>0, <2>3, <3>1, <3>2, CleanupSheds DEF TornDown
    <3>4. gives_up(r) => engine'[r].at # "append"
      BY <1>0, GivesUp
    <3>5. task'[r].at = "finished"
      BY <2>1 DEF IInv, RunInv, RunOK, Finished
    <3>6. Spent(r)
      BY <3>5, TaskSpends DEF Preparation
    <3> QED
      BY <3>2, <3>3, <3>4, <3>5, <3>6 DEF DiskStep, Sheds, Recovers, Preparation
  <2> QED
    BY <2>2, <2>3
<1> QED
  BY <1>1, <1>2 DEF EngineStep, EngineOutcome, EngineStopped, EngineAppend, RemoveFinished, DropClaim,
                    durable, DiskSame

\* A teardown's run is at rest or settles, and goes on doing so.
LEMMA TeardownRests ==
    ASSUME IInv, NEW w \in Workers, Worked(w)
    PROVE  /\ job[w].run \in Runs /\ task[job[w].run].at \notin Preparation
           /\ task'[job[w].run].at \notin Preparation
<1> DEFINE r == job[w].run
<1>1. JobOK(w) /\ job[w].step # "none"
  BY DEF IInv, JobInv, Worked
<1>2. r \in Runs /\ task[r].at \in {"settle", "none", "finished"}
  BY <1>1, WorkerNames DEF JobOK, Resting
<1>3. task'[r].at = task[r].at \/ task'[r].at = "finished"
  BY <1>2 DEF Worked, Carries, Ended
<1> QED
  BY <1>2, <1>3 DEF Preparation

\* Every step of a teardown.
LEMMA JobDisk ==
    ASSUME IInv, IInv', WInv, NEW w \in Workers, JobStep(w), Worked(w)
    PROVE  /\ DiskStep /\ Recovers
           /\ JobDestroy(w) => TornDown(job[w].run)
<1> DEFINE r == job[w].run
<1>0. DiskOK /\ HostOK /\ KeptHeld /\ r \in Runs /\ BuildOK(r) /\ task'[r].at \notin Preparation
  BY TeardownRests DEF IInv, TypeOK, WInv, RootInv, BuildInv
<1>e. exit_of(w) \in {"lost", "forced"}
  BY DEF exit_of
<1>1. CASE JobDestroy(w)
  <2>1. destroy(r, exit_of(w)) /\ UNCHANGED <<ledger, call>>
    BY <1>1 DEF JobDestroy
  <2>2. TornDown(r)
    BY <1>0, <1>e, <2>1, DestroySheds
  <2>3. ledger'[r].state # "absent"
    BY <2>1 DEF IInv, JobInv, JobOK, Worked
  <2>4. ~StartingNow(r)
    BY <2>1, StartsAlone DEF IInv, StartingNow, Worked
  <2>5. Spent(r)
    BY <1>0, <2>3, <2>4 DEF Spent
  <2> QED
    BY <1>0, <2>2, <2>5 DEF DiskStep, TornDown, Sheds, Recovers
<1>2. CASE JobDestroyFails(w)
  <2>1. job[w].step = "destroy" /\ destroy_fails(r, exit_of(w))
    BY <1>2 DEF JobDestroyFails
  <2>2. Sheds(r)
    BY <1>0, <1>e, <2>1, DestroySheds
  <2>3. UNCHANGED doc
    BY <2>1 DEF destroy_fails, cleanup_state_fails, untouched
  <2>4. JobDestroy(w) => TornDown(r)
    BY <1>1
  <2> QED
    BY <1>0, <2>2, <2>3, <2>4 DEF DiskStep, Recovers
<1>3. CASE JobDiscard(w)
  <2>1. discard_workspace(r) \/ discard_fails(r)
    BY <1>3 DEF JobDiscard
  <2>2. Sheds(r) /\ (doc'[r].recoverable => doc[r].recoverable)
    BY <1>0, <2>1, DiscardSheds
  <2>3. ~JobDestroy(w)
    BY <1>3 DEF JobDiscard, JobDestroy
  <2> QED
    BY <1>0, <2>2, <2>3 DEF DiskStep, Sheds, Recovers
<1>4. CASE ~(JobDestroy(w) \/ JobDestroyFails(w) \/ JobDiscard(w))
  <2>1. DiskSame
    BY <1>4 DEF JobStep, JobCheck, JobAppend, JobAppendFails, JobUnslot, DiskSame, durable
  <2> QED
    BY <1>4, <2>1, SameRedocs
<1> QED
  BY <1>1, <1>2, <1>3, <1>4

\* Startup reconciles documents with directories.
LEMMA BootDisk ==
    ASSUME IInv, IInv', WInv, BootStep
    PROVE  DiskStep /\ Recovers
<1>0. doc \in [Runs -> DocRecord] /\ DownInv /\ None \notin kept /\ boot \in Callers
  BY WorkerNames DEF IInv, TypeOK, DiskOK, WInv, RootInv, KeptHeld
<1>1. ASSUME NEW s \in Runs, ReconcileDocument(s) PROVE DiskStep /\ Recovers
  <2> DEFINE r == doc[s].successor
  <2>0. /\ r \in Runs /\ UNCHANGED <<ledger, root, task, kept>> /\ call[boot].at = "down"
        /\ s \in Claims
    BY <1>0, <1>1 DEF ReconcileDocument, Claims, DocRecord, Lineages
  <2>1. CASE HasWorkspace(s) /\ ~HasWorkspace(r)
    <3>1. /\ doc' = [doc EXCEPT ![s].recoverable = TRUE, ![s].successor = None]
          /\ call' = [call EXCEPT ![boot] = [at |-> "unlink", run |-> r, from |-> None]]
      BY <1>1, <2>1 DEF ReconcileDocument
    <3>2. doc'[s].recoverable /\ \A q \in Runs : q # s => doc'[q] = doc[q]
      BY <1>0, <3>1 DEF DocRecord
    <3>3. task[s].at = "none" /\ ledger[s].state # "absent"
      <4>1. task[s].at = "none"
        BY <1>0, <2>0 DEF DownInv, Up
      <4> QED
        BY <2>1, <4>1 DEF WInv, RootInv, BlankInv, Unmade, Blank, HasWorkspace
    <3>4. ~StartingNow(s)
      <4>1. call'[submit] = call[submit] /\ call'[resume] = call[resume]
        BY <3>1, Names, WorkerNames DEF IInv, TypeOK, ControlOK
      <4>2. call[submit].at = "idle" /\ call[resume].at = "idle"
        BY <1>0, <2>0, Names, WorkerNames DEF DownInv, Up
      <4> QED
        BY <4>1, <4>2 DEF StartingNow
    <3>5. Spent(s)
      BY <2>0, <3>3, <3>4 DEF Spent, Preparation
    <3> QED
      BY <2>0, <3>2, <3>5 DEF DiskStep, Redocs, Recovers, Offered, OffersNow
  <2>2. CASE ~HasWorkspace(s)
    <3>1. doc' = [doc EXCEPT ![r].present = TRUE, ![r].from = s, ![r].delivery = doc[s].delivery]
      BY <1>1, <2>2 DEF ReconcileDocument
    <3>2. \A q \in Runs : doc'[q].recoverable = doc[q].recoverable
                          /\ doc'[q].successor = doc[q].successor
      BY <1>0, <2>0, <3>1 DEF DocRecord
    <3> QED
      BY <2>0, <3>2 DEF DiskStep, Redocs, Recovers, Offered, OffersNow
  <2> QED
    BY <1>1, <2>1, <2>2 DEF ReconcileDocument
<1>2. CASE UnlinkSuccessor
  <2> DEFINE p == call[boot].run
  <2>1. /\ call[boot].at = "unlink" /\ doc' = [doc EXCEPT ![p] = NoDoc] /\ UNCHANGED <<root, kept>>
    BY <1>2 DEF UnlinkSuccessor
  <2>2. p \in Runs /\ root[p] = None
    BY <2>1 DEF IInv, CallInv, CallPlaces, WInv, UnlinkInv
  <2>3. ~doc'[p].recoverable /\ \A q \in Runs : q # p => doc'[q] = doc[q]
    BY <1>0, <2>1, <2>2 DEF NoDoc
  <2> QED
    BY <1>0, <2>1, <2>2, <2>3 DEF DiskStep, Redocs, Recovers, Offered, OffersNow
<1>3. CASE (\E r \in Runs : ReconcileRun(r)) \/ Reconciled \/ Serve
  <2>1. DiskSame
    BY <1>3 DEF ReconcileRun, Reconciled, Serve, durable, DiskSame
  <2> QED
    BY <2>1, SameRedocs
<1> QED
  BY <1>1, <1>2, <1>3 DEF BootStep

\* Clients' calls, a discard, an exiting process.
LEMMA OtherDisk ==
    ASSUME IInv, IInv', WInv, OtherStep
    PROVE  DiskStep /\ Recovers
<1>1. ASSUME NEW r \in Runs, Discard(r) PROVE DiskStep /\ Recovers
  <2>1. /\ discard_workspace(r) \/ discard_fails(r)
        /\ doc[r].recoverable /\ UNCHANGED task
    BY <1>1 DEF Discard
  <2>2. Sheds(r) /\ (doc'[r].recoverable => doc[r].recoverable)
    BY <2>1, DiscardSheds DEF IInv, TypeOK, WInv, RootInv
  <2>3. task'[r].at \notin Preparation
    BY <2>1 DEF WInv, BuildInv, BuildOK
  <2> QED
    BY <2>2, <2>3 DEF DiskStep, Sheds, Recovers
<1>2. CASE \E r, s \in Runs : Submit(r) \/ RequestForce(r) \/ Resume(s, r)
  BY <1>2, SameRedocs DEF Submit, RequestForce, Resume, durable, DiskSame
<1>3. CASE CallStep
  <2>1. DiskSame
    BY <1>3 DEF CallStep, FailOrphaned, CreateSuccessor, ForceStep, ForceTurn, ForceWaited,
                ForceCancel, ForceSignal, ForceDriven, ForceRebuild, StartPreparation,
                StartPreparationFails, durable, DiskSame
  <2> QED
    BY <2>1, SameRedocs
<1>4. CASE (\E i \in Identities : SurvivorExits(i)) \/ UNCHANGED vars
  BY <1>4, SameRedocs DEF SurvivorExits, vars, durable, DiskSame
<1> QED
  BY <1>1, <1>2, <1>3, <1>4, BootDisk DEF OtherStep

\* Every step.
LEMMA EveryDiskStep ==
    ASSUME IInv, IInv', WInv, StepKinds
    PROVE  DiskStep /\ Recovers
<1>1. CASE Crash
  BY <1>1, SameRedocs DEF Crash, durable, DiskSame
<1> QED
  BY <1>1, PreparationDisk, EngineDisk, JobDisk, OtherDisk DEF StepKinds

-----------------------------------------------------------------------------
(* Directories. *)

\* After the step: the run has made no directory yet.
UnmadeNow(q) ==
    \/ ledger'[q].state = "absent" \/ StartingNow(q)
    \/ task'[q].at \in {"queued", "link", "rename"}
    \/ task'[q].at = "register" /\ ~capsule'[q].inherited

\* A run that has made no directory after the step had made none before.
LEMMA UnmadeStep ==
    ASSUME IInv, StepKinds, NEW q \in Runs, UnmadeNow(q)
    PROVE  Unmade(q)
<1>n. submit \in Callers /\ resume \in Callers /\ submit # resume /\ submit \in Workers
      /\ resume \in Workers /\ submit # force /\ resume # force /\ submit # boot /\ resume # boot
      /\ submit \notin Runs /\ resume \notin Runs
  BY Names, WorkerNames
<1>a. ASSUME SameRun(q), capsule'[q] = capsule[q], StartingNow(q) => Starting(q) PROVE Unmade(q)
  BY <1>a DEF SameRun, UnmadeNow, Unmade
<1>b. UNCHANGED call => (StartingNow(q) => Starting(q))
  BY DEF StartingNow, Starting
<1>1. ASSUME NEW r \in Runs, Prepared(r), SameCapsules(r), Grows(r) PROVE Unmade(q)
  <2>1. CASE q # r
    BY <1>1, <1>a, <1>b, <2>1 DEF Prepared, SameCapsules
  <2>2. CASE q = r
    <3>1. /\ ledger'[q].state = "absent" => ledger[q].state = "absent"
          /\ StartingNow(q) => Starting(q)
      BY <1>1, <1>b DEF Prepared
    <3>2. task'[q].at \in {"queued", "link", "rename"} => task[q].at \in {"queued", "link", "rename"}
      BY <1>1, <2>2 DEF Grows
    <3>3. task'[q].at = "register" /\ ~capsule'[q].inherited => task[q].at = "queued"
      BY <1>1, <2>2 DEF Grows
    <3> QED
      BY <3>1, <3>2, <3>3 DEF UnmadeNow, Unmade
  <2> QED
    BY <2>1, <2>2
<1>2. ASSUME NEW r \in Runs, Driven(r), Lowers(r) PROVE Unmade(q)
  <2>1. CASE q # r
    BY <1>2, <1>a, <1>b, <2>1 DEF Driven, Lowers, SameCapsules
  <2>2. CASE q = r
    <3>1. /\ ledger'[q].state = "absent" => ledger[q].state = "absent"
          /\ StartingNow(q) => Starting(q)
      BY <1>2, <1>b, <2>2 DEF Driven, EndedNow
    <3>2. task'[q].at = "finished"
      BY <1>2, <2>2 DEF Driven, IInv, RunInv, RunOK, Finished
    <3> QED
      BY <3>1, <3>2 DEF UnmadeNow, Unmade
  <2> QED
    BY <2>1, <2>2
<1>3. ASSUME NEW w \in Workers, Worked(w), Lowers(job[w].run) PROVE Unmade(q)
  <2>1. ledger'[q].state = "absent" => ledger[q].state = "absent"
    BY <1>3 DEF Worked, EndedNow
  <2>2. StartingNow(q) => Starting(q)
    <3>1. ASSUME NEW c \in {submit, resume}, call'[c].at = "start" PROVE call'[c] = call[c]
      BY <1>3, <1>n, <3>1 DEF Worked, Carries, Ended
    <3> QED
      BY <3>1 DEF StartingNow, Starting
  <2>3. task'[q].at \in {"queued", "link", "rename", "register"} =>
          task[q].at = task'[q].at /\ capsule'[q] = capsule[q]
    <3>1. CASE q = job[w].run
      BY <1>3, <3>1, TeardownRests DEF Preparation
    <3>2. CASE q # job[w].run
      BY <1>3, <3>2 DEF Worked, Carries, Ended, Lowers, SameCapsules
    <3> QED
      BY <3>1, <3>2
  <2> QED
    BY <2>1, <2>2, <2>3 DEF UnmadeNow, Unmade
<1>4. ASSUME OtherEffect PROVE Unmade(q)
  <2>0. capsule'[q] = capsule[q]
    BY <1>4 DEF OtherEffect
  <2>1. ASSUME NEW r \in Runs, Submitted(r) PROVE Unmade(q)
    <3>1. call'[resume] = call[resume] /\ call[submit].at = "idle"
      BY <1>n, <2>1 DEF Submitted, Called, SubmissionFree
    <3>2. CASE q # r
      <4>1. StartingNow(q) => Starting(q)
        BY <2>1, <3>1, <3>2 DEF StartingNow, Starting, Submitted
      <4> QED
        BY <1>a, <2>0, <2>1, <3>2, <4>1 DEF Submitted
    <3>3. CASE q = r /\ ledger[r].state = "absent"
      BY <3>3 DEF Unmade
    <3>4. CASE q = r /\ SameRun(r) /\ call'[submit].at = "orphan"
      <4>1. StartingNow(q) => Starting(q)
        BY <3>1, <3>4 DEF StartingNow, Starting
      <4> QED
        BY <1>a, <2>0, <3>4, <4>1
    <3> QED
      BY <2>1, <3>2, <3>3, <3>4 DEF Submitted
  <2>2. ASSUME NEW r \in Runs, Resumed(r) \/ Requested(r) PROVE Unmade(q)
    <3>1. StartingNow(q) => Starting(q)
      BY <1>n, <2>2 DEF StartingNow, Starting, Resumed, Requested, Called
    <3> QED
      BY <1>a, <2>0, <2>2, <3>1 DEF Resumed, Requested
  <2>3. CASE Created
    <3>1. CASE q = call[resume].run
      BY <2>3, <3>1 DEF Created, Unmade, IInv, CallInv, AcceptedInv
    <3>2. CASE q # call[resume].run
      <4>1. StartingNow(q) => Starting(q)
        BY <1>n, <2>3, <3>2 DEF StartingNow, Starting, Created, Called
      <4> QED
        BY <1>a, <2>0, <2>3, <3>2, <4>1 DEF Created
    <3> QED
      BY <3>1, <3>2
  <2>4. ASSUME NEW c \in {submit, resume}, Started(c) PROVE Unmade(q)
    <3>1. CASE q = call[c].run
      BY <2>4, <3>1 DEF Started, Unmade, Starting
    <3>2. CASE q # call[c].run
      <4>1. StartingNow(q) => Starting(q)
        BY <1>n, <2>4, <3>2 DEF StartingNow, Starting, Started, Called
      <4> QED
        BY <1>a, <2>0, <2>4, <3>2, <4>1 DEF Started
    <3> QED
      BY <3>1, <3>2
  <2>5. ASSUME NEW c \in {submit, resume}, StartFailed(c) PROVE Unmade(q)
    <3>1. StartingNow(q) => Starting(q)
      BY <1>n, <2>5 DEF StartingNow, Starting, StartFailed, Called
    <3> QED
      BY <1>a, <2>0, <2>5, <3>1 DEF StartFailed
  <2>6. CASE OrphanFailed \/ Booted \/ Still
    <3>1. StartingNow(q) => Starting(q)
      BY <1>n, <2>6 DEF StartingNow, Starting, OrphanFailed, Booted, Still, Called
    <3> QED
      BY <1>a, <2>0, <2>6, <3>1 DEF OrphanFailed, Booted, Still
  <2>7. CASE Forced
    <3>1. StartingNow(q) => Starting(q)
      BY <1>n, <2>7 DEF StartingNow, Starting, Forced, Called
    <3>2. ledger'[q].state = ledger[q].state /\ task'[q].at = task[q].at
      BY <2>7 DEF Forced, SameRun
    <3> QED
      BY <2>0, <3>1, <3>2 DEF UnmadeNow, Unmade
  <2> QED
    BY <1>4, <2>1, <2>2, <2>3, <2>4, <2>5, <2>6, <2>7 DEF OtherEffect
<1>5. CASE Died
  BY <1>5, <1>n DEF Died, NoTask, Idle, UnmadeNow, StartingNow, Unmade
<1> QED
  BY <1>1, <1>2, <1>3, <1>4, <1>5 DEF StepKinds

\* A run that begins to build or that inherits has a directory or gets one.
LEMMA MadeNow ==
    ASSUME IInv', NEW r \in Runs,
           \/ task'[r].at \in {"build", "settle", "finished"}
           \/ task'[r].at = "register" /\ capsule'[r].inherited
    PROVE  ~UnmadeNow(r)
<1>1. ledger'[r].state # "absent"
  BY DEF IInv, RunInv, RunOK
<1>2. ~StartingNow(r)
  BY DEF IInv, CallInv, StartInv, StartingNow
<1> QED
  BY <1>1, <1>2 DEF UnmadeNow

\* Directories stay apart, kept work stays in one, and a run that has made none
\* leaves no trace of its name.
LEMMA RootStep ==
    ASSUME IInv, IInv', WInv, StepKinds, DiskStep
    PROVE  RootInv'
<1>0. RootsApart /\ KeptHeld /\ BlankInv /\ None \notin kept /\ None \notin Runs
  BY Names DEF WInv, RootInv, KeptHeld
<1>u. \A q \in Runs : UnmadeNow(q) => Unmade(q) /\ Blank(q)
  BY <1>0, UnmadeStep DEF BlankInv
<1>s. ASSUME /\ \A q, r \in Runs : root'[q] = root'[r] /\ root'[q] # None => q = r
             /\ \A l \in kept' : l # None /\ \E r \in Runs : root'[r] = l
             /\ \A r \in Runs : UnmadeNow(r) =>
                  root'[r] = None /\ r \notin kept' /\ \A q \in Runs : root'[q] # r
      PROVE  RootInv'
  <2>1. RootsApart' /\ KeptHeld'
    BY <1>s DEF RootsApart, KeptHeld
  <2>2. BlankInv'
    BY <1>s DEF BlankInv, Blank, Unmade, UnmadeNow, Starting, StartingNow
  <2> QED
    BY <2>1, <2>2 DEF RootInv
<1>1. CASE Redocs
  BY <1>0, <1>1, <1>s, <1>u DEF Redocs, RootsApart, KeptHeld, Blank
<1>2. ASSUME NEW r \in Runs, Sheds(r) PROVE RootInv'
  <2>1. \A q \in Runs : root'[q] \in {root[q], None}
    BY <1>2 DEF Sheds
  <2>2. \A p, q \in Runs : root'[p] = root'[q] /\ root'[p] # None => p = q
    BY <1>0, <2>1 DEF RootsApart
  <2>3. ASSUME NEW l \in kept' PROVE l # None /\ \E q \in Runs : root'[q] = l
    <3>1. l \in kept
      BY <1>2, <2>3 DEF Sheds
    <3>2. PICK q \in Runs : root[q] = l
      BY <1>0, <3>1 DEF KeptHeld
    <3>3. root'[q] = l
      BY <1>2, <2>3, <3>2 DEF Sheds
    <3> QED
      BY <1>0, <3>1, <3>3
  <2>4. ASSUME NEW p \in Runs, UnmadeNow(p)
        PROVE  root'[p] = None /\ p \notin kept' /\ \A q \in Runs : root'[q] # p
    BY <1>0, <1>2, <1>u, <2>1, <2>4 DEF Blank, Sheds
  <2> QED
    BY <1>s, <2>2, <2>3, <2>4
<1>3. ASSUME NEW r \in Runs, Makes(r) PROVE RootInv'
  <2>0. /\ root'[r] = r /\ \A q \in Runs : q # r => root'[q] = root[q]
        /\ kept' = kept /\ Blank(r)
    BY <1>3 DEF Makes
  <2>1. ASSUME NEW p \in Runs, NEW q \in Runs, root'[p] = root'[q], root'[p] # None PROVE p = q
    BY <1>0, <2>0, <2>1 DEF RootsApart, Blank
  <2>2. ASSUME NEW l \in kept' PROVE l # None /\ \E q \in Runs : root'[q] = l
    BY <1>0, <2>0, <2>2 DEF KeptHeld, Blank
  <2>3. ~UnmadeNow(r)
    BY <1>3, MadeNow DEF Makes
  <2>4. ASSUME NEW p \in Runs, UnmadeNow(p)
        PROVE  root'[p] = None /\ p \notin kept' /\ \A q \in Runs : root'[q] # p
    BY <1>u, <2>0, <2>3, <2>4 DEF Blank
  <2> QED
    BY <1>s, <2>1, <2>2, <2>4
<1>4. ASSUME NEW r \in Runs, Keeps(r) PROVE RootInv'
  <2>0. root' = root /\ kept' = kept \cup {root[r]} /\ root[r] # None
    BY <1>4 DEF Keeps
  <2>1. \A p, q \in Runs : root'[p] = root'[q] /\ root'[p] # None => p = q
    BY <1>0, <2>0 DEF RootsApart
  <2>2. \A l \in kept' : l # None /\ \E q \in Runs : root'[q] = l
    BY <1>0, <2>0 DEF KeptHeld
  <2>3. ASSUME NEW p \in Runs, UnmadeNow(p)
        PROVE  root'[p] = None /\ p \notin kept' /\ \A q \in Runs : root'[q] # p
    BY <1>u, <2>0, <2>3 DEF Blank
  <2> QED
    BY <1>s, <2>1, <2>2, <2>3
<1>5. ASSUME NEW r \in Runs, NEW s \in Runs, Moves(r, s) PROVE RootInv'
  <2>0. /\ r # s /\ root[r] = None /\ root'[r] = root[s] /\ root'[s] = None
        /\ \A q \in Runs : q # r /\ q # s => root'[q] = root[q]
        /\ kept' = kept
    BY <1>5 DEF Moves
  <2>1. ASSUME NEW p \in Runs, NEW q \in Runs, root'[p] = root'[q], root'[p] # None PROVE p = q
    BY <1>0, <2>0, <2>1 DEF RootsApart
  <2>2. ASSUME NEW l \in kept' PROVE l # None /\ \E q \in Runs : root'[q] = l
    <3>1. PICK q \in Runs : root[q] = l
      BY <1>0, <2>0, <2>2 DEF KeptHeld
    <3> QED
      BY <1>0, <2>0, <2>2, <3>1
  <2>3. ~UnmadeNow(r)
    BY <1>5, MadeNow DEF Moves
  <2>4. ASSUME NEW p \in Runs, UnmadeNow(p)
        PROVE  root'[p] = None /\ p \notin kept' /\ \A q \in Runs : root'[q] # p
    BY <1>0, <1>u, <2>0, <2>3, <2>4 DEF Blank
  <2> QED
    BY <1>s, <2>1, <2>2, <2>4
<1> QED
  BY <1>1, <1>2, <1>3, <1>4, <1>5 DEF DiskStep

\* A preparation under way keeps the directory it has.
LEMMA DirectoryStays ==
    ASSUME IInv, IInv', DiskStep, NEW q \in Runs, task'[q].at \in Preparation, root[q] # None
    PROVE  root'[q] # None
<1>1. ASSUME NEW r \in Runs, NEW s \in Runs, Moves(r, s) PROVE root'[q] # None
  <2>1. EndedNow(s)
    BY <1>1 DEF Moves, Terminal, EndedNow
  <2>2. q # s
    BY <2>1, EndedRests
  <2> QED
    BY <1>1, <2>2 DEF Moves
<1>2. ASSUME NEW r \in Runs, Makes(r) PROVE root'[q] # None
  BY <1>2, Names DEF Makes
<1> QED
  BY <1>1, <1>2 DEF DiskStep, Redocs, Sheds, Keeps

-----------------------------------------------------------------------------
(* The build of each run. *)

\* A capsule is registered, and retained work adopted, with a directory there.
LEMMA PreparationHouses ==
    ASSUME IInv, WInv, NEW r \in Runs, PreparationStep(r), Grows(r)
    PROVE  \/ task'[r].at = "build"
           \/ task'[r].at = "register" /\ capsule'[r].inherited
           => root'[r] # None
<1>0. /\ root \in [Runs -> Lineages] /\ BuildOK(r) /\ task[r].at \in TaskAts
      /\ TypeOK /\ ControlOK
  BY DEF IInv, TypeOK, DiskOK, ControlOK, TaskRecord, WInv, BuildInv
<1>1. CASE task'[r].at = "build"
  <2>1. task[r].at = "register"
    BY <1>1 DEF Grows
  <2>2. ~fails(r, "force_stopped") /\ ~fails(r, "unavailable")
    BY <1>0, <1>1, FailsType
  <2>3. Register(r)
    BY <2>1, <2>2 DEF PreparationStep, Allocate, ClaimRetained, LinkRetained, RetainedFails,
       RenameRetained, Install, FinishCapsule, BuildFails, PreparationCancelled,
       PreparationTimeout, Handoff, HandoffFails
  <2>4. root'[r] = IF capsule[r].inherited THEN root[r] ELSE r
    BY <1>0, <2>3 DEF Register
  <2> QED
    BY <1>0, <2>1, <2>4, Names DEF BuildOK
<1>2. CASE task'[r].at = "register" /\ capsule'[r].inherited
  <2>1. task[r].at = "rename"
    BY <1>0, <1>2 DEF Grows, BuildOK
  <2>2. ~fails(r, "unavailable") /\ ~fails(r, "force_stopped")
    BY <1>0, <1>2, FailsType
  <2>3. RenameRetained(r)
    BY <2>1, <2>2 DEF PreparationStep, Allocate, ClaimRetained, LinkRetained, RetainedFails,
       Register, Install, FinishCapsule, BuildFails, PreparationCancelled,
       PreparationTimeout, Handoff, HandoffFails
  <2>4. /\ root[task[r].from] # None
        /\ root' = [root EXCEPT ![r] = root[task[r].from], ![task[r].from] = None]
    BY <2>3 DEF RenameRetained, HasWorkspace
  <2>5. task[r].from \in Runs /\ task[r].from # r
    BY <2>1, <2>4 DEF IInv, HandoffInv, WInv, RootInv, BlankInv, Unmade, Blank
  <2> QED
    BY <1>0, <2>4, <2>5
<1> QED
  BY <1>1, <1>2

\* How the task and the capsule of one run go together through a step.
Fitted(q) ==
    \/ /\ task'[q].at = task[q].at
       /\ task[q].at \in Preparation \cup {"none"} => capsule'[q] = capsule[q]
    \/ /\ Grows(q)
       /\ \/ task'[q].at = "build"
          \/ task'[q].at = "register" /\ capsule'[q].inherited
          => root'[q] # None
    \/ task'[q].at = "queued" /\ task[q].at = "none" /\ capsule'[q] = capsule[q]
    \/ task'[q].at \in {"settle", "finished"}
    \/ task'[q].at = "none" /\ capsule'[q] = NoCapsule

\* A registered capsule keeps what makes its work worth offering, and a new one
\* comes from a registration.
Eligible(q) ==
    capsule'[q].active =>
        /\ capsule[q].inherited => capsule'[q].inherited
        /\ capsule[q].endpoint => capsule'[q].endpoint
        /\ capsule[q].active \/ task[q].at = "register"

\* Every step keeps them together.
LEMMA FittedStep ==
    ASSUME IInv, WInv, StepKinds, NEW q \in Runs
    PROVE  Fitted(q) /\ Eligible(q)
<1>a. ASSUME task'[q].at = task[q].at, capsule'[q] = capsule[q] PROVE Fitted(q)
  BY <1>a DEF Fitted
<1>b. ASSUME capsule'[q] = capsule[q] PROVE Eligible(q)
  BY <1>b DEF Eligible
<1>c. ASSUME NEW r \in Runs, Lowers(r) PROVE Eligible(q)
  BY <1>c DEF Eligible, Lowers, SameCapsules
<1>1. ASSUME NEW r \in Runs, PreparationStep(r), Prepared(r), SameCapsules(r), Grows(r)
      PROVE  Fitted(q) /\ Eligible(q)
  <2>1. CASE q # r
    BY <1>1, <1>a, <1>b, <2>1 DEF Prepared, SameRun, SameCapsules
  <2>2. CASE q = r
    <3>1. Fitted(q)
      BY <1>1, <2>2, PreparationHouses DEF Fitted
    <3>2. Eligible(q)
      BY <1>1, <2>2 DEF Grows, Eligible
    <3> QED
      BY <3>1, <3>2
  <2> QED
    BY <2>1, <2>2
<1>2. ASSUME NEW r \in Runs, Driven(r), Lowers(r) PROVE Fitted(q) /\ Eligible(q)
  <2>1. CASE q # r
    BY <1>2, <1>a, <1>b, <2>1 DEF Driven, SameRun, Lowers, SameCapsules
  <2>2. CASE q = r
    <3>1. task'[q].at = "finished"
      BY <1>2, <2>2 DEF Driven, IInv, RunInv, RunOK, Finished
    <3> QED
      BY <1>2, <1>c, <3>1 DEF Fitted
  <2> QED
    BY <2>1, <2>2
<1>3. ASSUME NEW w \in Workers, Worked(w), Lowers(job[w].run) PROVE Fitted(q) /\ Eligible(q)
  <2> DEFINE r == job[w].run
  <2>1. r \in Runs /\ task[r].at \notin Preparation
    BY <1>3, TeardownRests
  <2>2. task'[q].at = task[q].at \/ task'[q].at = "finished"
    BY <1>3 DEF Worked, Carries, Ended
  <2>3. task[q].at \in Preparation \cup {"none"} => capsule'[q] = capsule[q]
    <3>1. CASE q # r
      BY <1>3, <3>1 DEF Lowers, SameCapsules
    <3>2. CASE q = r
      BY <1>3, <2>1, <3>2 DEF Lowers, IInv, RunInv, RunOK
    <3> QED
      BY <3>1, <3>2
  <2> QED
    BY <1>3, <1>c, <2>1, <2>2, <2>3 DEF Fitted
<1>4. ASSUME OtherEffect PROVE Fitted(q) /\ Eligible(q)
  <2>0. capsule'[q] = capsule[q]
    BY <1>4, SMTT(20) DEF OtherEffect
  <2>1. \/ task'[q].at = task[q].at
        \/ \E c \in {submit, resume} : Started(c) /\ q = call[c].run
    BY <1>4 DEF OtherEffect, Submitted, Resumed, Requested, Started, StartFailed, Created,
                OrphanFailed, Forced, Booted, Still, SameRun
  <2>2. ASSUME NEW c \in {submit, resume}, Started(c), q = call[c].run
        PROVE  task'[q].at = "queued" /\ task[q].at = "none"
    BY <2>2 DEF Started, IInv, CallInv, StartInv
  <2> QED
    BY <1>a, <1>b, <2>0, <2>1, <2>2 DEF Fitted
<1>5. CASE Died
  <2>1. task'[q] = NoTask /\ capsule'[q] = NoCapsule
    BY <1>5 DEF Died
  <2>2. NoTask.at = "none" /\ ~NoCapsule.active
    BY DEF NoTask, NoCapsule
  <2> QED
    BY <2>1, <2>2 DEF Fitted, Eligible
<1> QED
  BY <1>1, <1>2, <1>3, <1>4, <1>5 DEF StepKinds

\* A run that is not past its start, before and after the step.
Early(q) == ledger[q].state = "absent" \/ Starting(q) \/ task[q].at \in Preparation
EarlyNow(q) == ledger'[q].state = "absent" \/ StartingNow(q) \/ task'[q].at \in Preparation

\* A run that is not past its start after the step was not before.
LEMMA EarlyStep ==
    ASSUME IInv, WInv, StepKinds, NEW q \in Runs, EarlyNow(q)
    PROVE  Early(q)
<1>1. CASE UnmadeNow(q)
  BY <1>1, UnmadeStep DEF Unmade, Early, Preparation
<1>2. CASE task'[q].at \in Preparation /\ ~UnmadeNow(q)
  <2>1. Fitted(q)
    BY FittedStep
  <2>2. task'[q].at \in {"register", "build", "installed", "ready"}
    BY <1>2 DEF Preparation, UnmadeNow
  <2>3. task[q].at \in Preparation
    BY <2>1, <2>2 DEF Fitted, Grows, Preparation
  <2> QED
    BY <2>3 DEF Early
<1> QED
  BY <1>1, <1>2 DEF EarlyNow, UnmadeNow

\* The capsule and the directory of a run under construction.
LEMMA ConstructionStep ==
    ASSUME IInv, IInv', WInv, StepKinds, DiskStep, NEW q \in Runs
    PROVE  /\ task'[q].at \in {"none", "queued", "link", "rename"} => ~capsule'[q].inherited
           /\ task'[q].at = "register" /\ capsule'[q].inherited => root'[q] # None
           /\ task'[q].at \in {"build", "installed", "ready"} =>
                capsule'[q].active /\ root'[q] # None
           /\ task'[q].at = "ready" => capsule'[q].endpoint
<1>0. BuildOK(q) /\ Fitted(q)
  BY FittedStep DEF WInv, BuildInv
<1>d. task'[q].at \in Preparation /\ root[q] # None => root'[q] # None
  BY DirectoryStays
<1>1. CASE task'[q].at = task[q].at
           /\ (task[q].at \in Preparation \cup {"none"} => capsule'[q] = capsule[q])
  BY <1>0, <1>1, <1>d DEF BuildOK, Preparation
<1>2. CASE Grows(q) /\ (\/ task'[q].at = "build"
                        \/ task'[q].at = "register" /\ capsule'[q].inherited
                        => root'[q] # None)
  <2>1. task'[q].at \in {"none", "queued", "link", "rename"} => ~capsule'[q].inherited
    BY <1>0, <1>2 DEF BuildOK, Grows
  <2>2. task'[q].at \in {"build", "installed", "ready"} => capsule'[q].active
    BY <1>0, <1>2 DEF BuildOK, Grows
  <2>3. task'[q].at \in {"build", "installed", "ready"} => root'[q] # None
    BY <1>0, <1>2, <1>d DEF BuildOK, Grows, Preparation
  <2>4. task'[q].at = "ready" => capsule'[q].endpoint
    BY <1>2 DEF Grows
  <2> QED
    BY <1>2, <2>1, <2>2, <2>3, <2>4
<1>3. CASE task'[q].at = "queued" /\ task[q].at = "none" /\ capsule'[q] = capsule[q]
  BY <1>0, <1>3 DEF BuildOK
<1>4. CASE task'[q].at \in {"settle", "finished"}
  BY <1>4
<1>5. CASE task'[q].at = "none" /\ capsule'[q] = NoCapsule
  BY <1>5 DEF NoCapsule
<1> QED
  BY <1>0, <1>1, <1>2, <1>3, <1>4, <1>5 DEF Fitted

\* A registered capsule whose work may not be offered has none to keep.
LEMMA EligibleStep ==
    ASSUME IInv, IInv', WInv, StepKinds, DiskStep, NEW q \in Runs,
           capsule'[q].active, ~capsule'[q].endpoint, ~capsule'[q].inherited
    PROVE  root'[q] \notin kept'
<1>0. BuildOK(q) /\ Eligible(q) /\ RootsApart /\ None \notin kept
  BY FittedStep DEF WInv, BuildInv, RootInv, KeptHeld
<1>1. root[q] \notin kept
  <2>1. CASE capsule[q].active
    BY <1>0, <2>1 DEF BuildOK, Eligible, recovery_eligible
  <2>2. CASE task[q].at = "register"
    <3>1. ~capsule[q].inherited
      BY <1>0 DEF Eligible
    <3>2. Blank(q)
      BY <2>2, <3>1 DEF WInv, RootInv, BlankInv, Unmade
    <3> QED
      BY <1>0, <3>2 DEF Blank
  <2> QED
    BY <1>0, <2>1, <2>2 DEF Eligible
<1>2. CASE Redocs
  BY <1>1, <1>2 DEF Redocs
<1>3. ASSUME NEW r \in Runs, Sheds(r) PROVE root'[q] \notin kept'
  BY <1>0, <1>1, <1>3 DEF Sheds
<1>4. ASSUME NEW r \in Runs, Makes(r) PROVE root'[q] \notin kept'
  BY <1>1, <1>4 DEF Makes, Blank
<1>5. ASSUME NEW r \in Runs, Keeps(r) PROVE root'[q] \notin kept'
  <2>1. q # r
    BY <1>5 DEF Keeps
  <2>2. root[q] # root[r]
    BY <1>0, <1>5, <2>1 DEF Keeps, RootsApart
  <2> QED
    BY <1>1, <1>5, <2>2 DEF Keeps
<1>6. ASSUME NEW r \in Runs, NEW s \in Runs, Moves(r, s) PROVE root'[q] \notin kept'
  BY <1>0, <1>1, <1>6 DEF Moves
<1> QED
  BY <1>2, <1>3, <1>4, <1>5, <1>6 DEF DiskStep

\* Calls give a slot to a run without an engine, and take it from one whose
\* engine is through.
LEMMA OtherSlots ==
    ASSUME IInv, OtherStep, NEW q \in Runs
    PROVE  runtimes'[q] = runtimes[q] \/ engine[q].at \in {"off", "removable", "gone"}
<1>0. runtimes \in [Runs -> {"none", "preparing", "running"}]
  BY DEF IInv, TypeOK, ControlOK
<1>1. ASSUME NEW c \in {submit, resume}, StartPreparation(c)
      PROVE  runtimes'[q] = runtimes[q] \/ engine[q].at \in {"off", "removable", "gone"}
  <2>1. call[c].at = "start" /\ runtimes' = [runtimes EXCEPT ![call[c].run] = "preparing"]
    BY <1>1 DEF StartPreparation
  <2>2. engine[call[c].run].at = "off"
    BY <2>1 DEF IInv, CallInv, StartInv
  <2> QED
    BY <1>0, <2>1, <2>2
<1>2. CASE ForceDriven
  BY <1>0, <1>2 DEF ForceDriven
<1>3. CASE UNCHANGED runtimes
  BY <1>3
<1>4. CASE CallStep
  BY <1>1, <1>2, <1>3, <1>4 DEF CallStep, FailOrphaned, CreateSuccessor, ForceStep, ForceTurn,
     ForceWaited, ForceCancel, ForceSignal, ForceRebuild, StartPreparationFails
<1>5. CASE BootStep
  BY <1>3, <1>5 DEF BootStep, ReconcileDocument, ReconcileRun, UnlinkSuccessor, Reconciled, Serve
<1>6. CASE \E r, s \in Runs : Submit(r) \/ RequestForce(r) \/ Discard(r) \/ Resume(s, r)
  BY <1>3, <1>6 DEF Submit, RequestForce, Discard, Resume
<1>7. CASE (\E i \in Identities : SurvivorExits(i)) \/ UNCHANGED vars
  BY <1>3, <1>7 DEF SurvivorExits, vars
<1> QED
  BY <1>4, <1>5, <1>6, <1>7 DEF OtherStep

\* Where an engine's own step leaves it.
Advances(r) ==
    /\ engine'[r].at # "driving"
    /\ engine'[r].at = "cleanup" =>
         \/ engine[r].at = "driving" /\ capsule'[r] = capsule[r]
         \/ engine[r].at = "cleanup" /\ capsule'[r] = capsule[r]
         \/ engine[r].at = "append"
    /\ engine'[r].at = "append" => engine[r].at = "cleanup" /\ EngineCleanup(r)
    /\ engine'[r].at \in {"cleanup", "append"} =>
         runtimes'[r] = runtimes[r] /\ engine'[r].exit # "none"

\* Every step of an engine.
LEMMA EngineAdvances ==
    ASSUME IInv, BuildInv, NEW r \in Runs, EngineStep(r)
    PROVE  Advances(r)
<1>0. engine \in [Runs -> EngineRecord] /\ BuildOK(r)
  BY DEF IInv, TypeOK, ControlOK, BuildInv
<1>g. ASSUME gives_up(r)
      PROVE  /\ engine'[r].at \in {"removable", "cleanup"}
             /\ engine'[r].at = "cleanup" => engine'[r].exit = "lost"
  BY <1>0, <1>g DEF gives_up
<1>1. CASE EngineOutcome(r)
  <2>1. /\ engine[r].at = "driving" /\ UNCHANGED <<runtimes, capsule>>
        /\ \E exit \in {"completed", "failed", "lost"} :
              engine' = [engine EXCEPT ![r].at = "cleanup", ![r].exit = exit]
    BY <1>1 DEF EngineOutcome
  <2>2. engine'[r].at = "cleanup" /\ engine'[r].exit # "none"
    BY <1>0, <2>1 DEF EngineRecord
  <2> QED
    BY <2>1, <2>2 DEF Advances
<1>2. CASE EngineStopped(r)
  <2>1. /\ engine[r].at = "driving" /\ UNCHANGED <<runtimes, capsule>>
        /\ engine' = [engine EXCEPT ![r].at = "cleanup", ![r].exit = "forced"]
    BY <1>2 DEF EngineStopped
  <2>2. engine'[r].at = "cleanup" /\ engine'[r].exit # "none"
    BY <1>0, <2>1 DEF EngineRecord
  <2> QED
    BY <2>1, <2>2 DEF Advances
<1>3. CASE EngineCleanup(r)
  <2>1. engine[r].at = "cleanup" /\ UNCHANGED runtimes
    BY <1>3 DEF EngineCleanup
  <2>2. CASE engine' = [engine EXCEPT ![r].at = "append"]
    <3>1. engine'[r].at = "append" /\ engine'[r].exit = engine[r].exit
      BY <1>0, <2>2 DEF EngineRecord
    <3> QED
      BY <1>0, <1>3, <2>1, <3>1 DEF Advances, BuildOK
  <2>3. CASE gives_up(r) /\ UNCHANGED capsule
    BY <1>g, <2>1, <2>3 DEF Advances
  <2> QED
    BY <1>3, <2>2, <2>3 DEF EngineCleanup, cleanup_state_fails
<1>4. CASE EngineAppend(r)
  <2>1. engine[r].at = "append" /\ UNCHANGED runtimes
    BY <1>4 DEF EngineAppend
  <2>2. CASE engine' = [engine EXCEPT ![r].at = "removable", ![r].exit = "none"]
    <3>1. engine'[r].at = "removable"
      BY <1>0, <2>2 DEF EngineRecord
    <3> QED
      BY <3>1 DEF Advances
  <2>3. CASE gives_up(r)
    BY <1>g, <2>1, <2>3 DEF Advances
  <2> QED
    BY <1>4, <2>2, <2>3 DEF EngineAppend
<1>5. CASE RemoveFinished(r)
  BY <1>5 DEF RemoveFinished, Advances
<1>6. CASE DropClaim(r)
  <2>1. engine'[r].at = "gone"
    BY <1>0, <1>6 DEF DropClaim, EngineRecord
  <2> QED
    BY <2>1 DEF Advances
<1> QED
  BY <1>1, <1>2, <1>3, <1>4, <1>5, <1>6 DEF EngineStep

\* A working engine has a slot, and a driving one its capsule.
LEMMA EngineFits ==
    ASSUME IInv, WInv, StepKinds, NEW q \in Runs
    PROVE  /\ engine'[q].at = "driving" => capsule'[q].active
           /\ engine'[q].at \in {"driving", "cleanup", "append"} => runtimes'[q] = "running"
           /\ engine'[q].at \in {"cleanup", "append"} => engine'[q].exit # "none"
<1> DEFINE Fits == /\ engine'[q].at = "driving" => capsule'[q].active
                   /\ engine'[q].at \in {"driving", "cleanup", "append"} => runtimes'[q] = "running"
                   /\ engine'[q].at \in {"cleanup", "append"} => engine'[q].exit # "none"
<1>0. BuildOK(q) /\ BuildInv
  BY DEF WInv, BuildInv
<1>a. ASSUME SameRun(q) PROVE Fits
  BY <1>0, <1>a DEF SameRun, BuildOK
<1>1. ASSUME NEW r \in Runs, Prepared(r), Grows(r) PROVE Fits
  <2>1. CASE q # r
    BY <1>1, <1>a, <2>1 DEF Prepared
  <2>2. CASE q = r
    <3>1. engine[q].at = "off"
      BY <1>1, <2>2 DEF Prepared, Preparation, IInv, RunInv, RunOK, Finished
    <3>2. CASE Progresses(r) \/ Settles(r)
      BY <2>2, <3>1, <3>2 DEF Progresses, Settles
    <3>3. CASE HandsOver(r)
      BY <1>0, <1>1, <2>2, <3>3 DEF HandsOver, Grows, BuildOK
    <3> QED
      BY <1>1, <3>2, <3>3 DEF Prepared
  <2> QED
    BY <2>1, <2>2
<1>2. ASSUME NEW r \in Runs, EngineStep(r), Driven(r) PROVE Fits
  <2>1. CASE q # r
    BY <1>2, <1>a, <2>1 DEF Driven
  <2>2. CASE q = r
    <3>1. Advances(r)
      BY <1>0, <1>2, EngineAdvances
    <3> QED
      BY <1>0, <2>2, <3>1 DEF Advances, BuildOK
  <2> QED
    BY <2>1, <2>2
<1>3. ASSUME NEW w \in Workers, Worked(w) PROVE Fits
  <2>1. engine'[q] = engine[q]
    BY <1>3 DEF Worked
  <2>2. CASE q = job[w].run
    <3>1. engine[q].at \in {"off", "removable", "gone"}
      BY <1>3, <2>2 DEF Worked, WInv, JobEngineInv
    <3> QED
      BY <2>1, <3>1
  <2>3. CASE q # job[w].run
    BY <1>0, <1>3, <2>1, <2>3 DEF Worked, BuildOK
  <2> QED
    BY <2>2, <2>3
<1>4. ASSUME OtherStep, OtherEffect PROVE Fits
  BY <1>0, <1>4, OtherSlots DEF OtherEffect, BuildOK
<1>5. CASE Died
  BY <1>5 DEF Died, NoEngine
<1> QED
  BY <1>1, <1>2, <1>3, <1>4, <1>5 DEF StepKinds

\* The build of every run stays as it should be.
LEMMA BuildStep ==
    ASSUME IInv, IInv', WInv, StepKinds, DiskStep, Recovers
    PROVE  BuildInv'
<1> SUFFICES ASSUME NEW q \in Runs PROVE BuildOK(q)'
  BY DEF BuildInv
<1>1. EarlyNow(q) => ~doc'[q].recoverable
  <2> SUFFICES ASSUME EarlyNow(q) PROVE ~doc'[q].recoverable
    OBVIOUS
  <2>1. ~doc[q].recoverable
    BY EarlyStep DEF Early, WInv, BuildInv, BuildOK
  <2>2. ~Spent(q)
    BY DEF EarlyNow, Spent
  <2> QED
    BY <2>1, <2>2 DEF Recovers
<1> QED
  BY <1>1, ConstructionStep, EligibleStep, EngineFits
  DEF BuildOK, EarlyNow, StartingNow, Starting, recovery_eligible

-----------------------------------------------------------------------------
(* Where handoffs come from. *)

\* What ended stays ended.
LEMMA EndedAlways ==
    ASSUME IInv, Effect, NEW q \in Runs, Terminal(q)
    PROVE  EndedNow(q)
<1>1. CASE Died
  BY <1>1 DEF Died, Terminal, EndedNow
<1>2. CASE ~Died
  BY <1>2, EndedStays
<1> QED
  BY <1>1, <1>2

\* Where a preparation under way has its source from.
LEMMA SourceOfTask ==
    ASSUME IInv, StepKinds, NEW q \in Runs, task'[q].at \in Preparation
    PROVE  \/ task[q].at \in Preparation /\ task'[q].from = task[q].from
           \/ \E c \in {submit, resume} : call[c].at = "start" /\ task'[q].from = call[c].from
<1>0. task \in [Runs -> TaskRecord] /\ task[q] \in TaskRecord
  BY DEF IInv, TypeOK, ControlOK
<1>a. ASSUME SameRun(q) PROVE task[q].at \in Preparation /\ task'[q].from = task[q].from
  BY <1>a DEF SameRun
<1>1. ASSUME NEW r \in Runs, Prepared(r), Grows(r)
      PROVE  task[q].at \in Preparation /\ task'[q].from = task[q].from
  <2>1. q = r => task'[q].at # "finished"
    BY DEF Preparation
  <2> QED
    BY <1>1, <1>a, <2>1 DEF Prepared, Grows
<1>2. ASSUME NEW r \in Runs, Driven(r)
      PROVE  task[q].at \in Preparation /\ task'[q].from = task[q].from
  BY <1>2 DEF Driven
<1>3. ASSUME NEW w \in Workers, Worked(w)
      PROVE  task[q].at \in Preparation /\ task'[q].from = task[q].from
  <2>1. task'[q] = task[q] \/ task'[q].at = "finished"
    BY <1>3 DEF Worked, Carries, Ended
  <2> QED
    BY <2>1 DEF Preparation
<1>4. ASSUME NEW c \in {submit, resume}, StartPreparation(c)
      PROVE  \/ task[q].at \in Preparation /\ task'[q].from = task[q].from
             \/ call[c].at = "start" /\ task'[q].from = call[c].from
  <2> DEFINE new == [NoTask EXCEPT !.at = "queued", !.from = call[c].from]
  <2>1. call[c].at = "start" /\ task' = [task EXCEPT ![call[c].run] = new]
    BY <1>4 DEF StartPreparation
  <2>2. new.from = call[c].from
    BY DEF NoTask
  <2> HIDE DEF new
  <2>3. task'[q] = task[q] \/ task'[q] = new
    BY <1>0, <2>1
  <2> QED
    BY <2>1, <2>2, <2>3
<1>5. ASSUME ForceCancel PROVE task[q].at \in Preparation /\ task'[q].from = task[q].from
  <2>1. task' = [task EXCEPT ![call[force].run].cancel = TRUE]
    BY <1>5 DEF ForceCancel
  <2>2. task'[q].at = task[q].at /\ task'[q].from = task[q].from
    BY <1>0, <2>1 DEF TaskRecord
  <2> QED
    BY <2>2
<1>6. ASSUME OtherStep, ~ForceCancel, ~\E c \in {submit, resume} : StartPreparation(c)
      PROVE  UNCHANGED task
  <2>1. CASE CallStep
    BY <1>6, <2>1 DEF CallStep, FailOrphaned, CreateSuccessor, ForceStep, ForceTurn, ForceWaited,
       ForceSignal, ForceDriven, ForceRebuild, StartPreparationFails
  <2>2. CASE BootStep
    BY <2>2 DEF BootStep, ReconcileDocument, ReconcileRun, UnlinkSuccessor, Reconciled, Serve
  <2>3. CASE \E r, s \in Runs : Submit(r) \/ RequestForce(r) \/ Discard(r) \/ Resume(s, r)
    BY <2>3 DEF Submit, RequestForce, Discard, Resume
  <2>4. CASE (\E i \in Identities : SurvivorExits(i)) \/ UNCHANGED vars
    BY <2>4 DEF SurvivorExits, vars
  <2> QED
    BY <1>6, <2>1, <2>2, <2>3, <2>4 DEF OtherStep
<1>7. CASE Died
  <2>1. task'[q].at = "none"
    BY <1>7 DEF Died, NoTask
  <2> QED
    BY <2>1 DEF Preparation
<1> QED
  BY <1>1, <1>2, <1>3, <1>4, <1>5, <1>6, <1>7 DEF StepKinds

\* Where a submission and a resume have theirs from.
LEMMA SourceOfCall ==
    ASSUME IInv, StepKinds
    PROVE  /\ call'[submit].at # "idle" =>
                \/ call'[submit].from = None
                \/ call[submit].at # "idle" /\ call'[submit].from = call[submit].from
           /\ call'[resume].at \in {"create", "start"} =>
                \/ /\ call[resume].at \in {"create", "start"}
                   /\ call'[resume].from = call[resume].from
                \/ call'[resume].from \in Runs /\ Terminal(call'[resume].from)
<1> DEFINE Goal ==
           /\ call'[submit].at # "idle" =>
                \/ call'[submit].from = None
                \/ call[submit].at # "idle" /\ call'[submit].from = call[submit].from
           /\ call'[resume].at \in {"create", "start"} =>
                \/ /\ call[resume].at \in {"create", "start"}
                   /\ call'[resume].from = call[resume].from
                \/ call'[resume].from \in Runs /\ Terminal(call'[resume].from)
<1>0. call \in [Callers -> CallRecord] /\ TypeOK /\ CallInv /\ RunInv
  BY DEF IInv, TypeOK, ControlOK
<1>n. /\ {submit, resume, force, boot} \subseteq Callers /\ {submit, resume} \subseteq Workers
      /\ submit # resume /\ submit # force /\ submit # boot /\ resume # force /\ resume # boot
      /\ submit \notin Runs /\ resume \notin Runs
  BY Names, WorkerNames
<1>a. ASSUME call'[submit] = call[submit] \/ call'[submit].at = "idle",
             call'[resume] = call[resume] \/ call'[resume].at = "idle"
      PROVE  Goal
  BY <1>a
<1>i. Idle.at = "idle"
  BY DEF Idle
<1>1. UNCHANGED call => Goal
  BY <1>a
<1>2. ASSUME NEW w \in Workers, Worked(w) PROVE Goal
  <2>1. \A c \in {submit, resume} : call'[c] = call[c] \/ call'[c].at = "idle"
    BY <1>2, <1>n DEF Worked, Carries, Ended
  <2> QED
    BY <1>a, <2>1
<1>3. ASSUME NEW r \in Runs, Submit(r) PROVE Goal
  <2>1. \E at : call' = [call EXCEPT ![submit] = [at |-> at, run |-> r, from |-> None]]
    BY <1>3 DEF Submit
  <2>2. call'[submit].from = None /\ call'[resume] = call[resume]
    BY <1>0, <1>n, <2>1
  <2> QED
    BY <2>2
<1>4. ASSUME NEW r \in Runs, NEW s \in Runs, Resume(s, r) PROVE Goal
  <2>1. call' = [call EXCEPT ![resume] = [at |-> "create", run |-> r, from |-> s]]
    BY <1>4 DEF Resume
  <2>2. call'[resume].from = s /\ call'[submit] = call[submit]
    BY <1>0, <1>n, <2>1
  <2>3. Terminal(s)
    BY <1>4 DEF Resume, Terminal
  <2> QED
    BY <2>2, <2>3
<1>5. CASE FailOrphaned
  <2>1. call[submit].at = "orphan" /\ (go(submit, "job") \/ returns(submit))
    BY <1>5 DEF FailOrphaned
  <2>2. call'[resume] = call[resume]
    BY <1>0, <1>n, <2>1 DEF go, returns
  <2>3. call'[submit].from = call[submit].from \/ call'[submit].at = "idle"
    BY <1>0, <1>i, <1>n, <2>1 DEF go, returns, CallRecord
  <2> QED
    BY <2>1, <2>2, <2>3
<1>6. CASE CreateSuccessor
  <2>1. call[resume].at = "create" /\ go(resume, "start")
    BY <1>6 DEF CreateSuccessor
  <2>2. call'[submit] = call[submit]
    BY <1>0, <1>n, <2>1 DEF go
  <2>3. call'[resume].from = call[resume].from
    BY <1>0, <1>n, <2>1 DEF go, CallRecord
  <2> QED
    BY <2>1, <2>2, <2>3
<1>7. ASSUME NEW c \in {submit, resume}, StartPreparation(c) \/ StartPreparationFails(c) PROVE Goal
  <2>1. returns(c)
    BY <1>7 DEF StartPreparation, StartPreparationFails
  <2>2. \A d \in {submit, resume} : call'[d] = call[d] \/ call'[d] = Idle
    BY <1>0, <1>n, <2>1 DEF returns
  <2> QED
    BY <1>a, <1>i, <2>2
<1>8. ASSUME (\E r \in Runs : Requested(r)) \/ Forced \/ Booted PROVE Goal
  <2>1. call'[submit] = call[submit] /\ call'[resume] = call[resume]
    BY <1>8, <1>n DEF Requested, Forced, Booted, Called
  <2> QED
    BY <1>a, <2>1
<1>9. CASE OtherStep
  <2>1. ASSUME NEW r \in Runs, RequestForce(r) PROVE Goal
    BY <1>0, <1>8, <2>1, ForceEffect
  <2>2. CASE ForceStep \/ BootStep
    BY <1>0, <1>8, <2>2, ForceEffect, BootEffect
  <2>3. CASE (\E r \in Runs : Discard(r)) \/ (\E i \in Identities : SurvivorExits(i))
           \/ UNCHANGED vars
    BY <1>1, <2>3 DEF Discard, SurvivorExits, vars
  <2> QED
    BY <1>3, <1>4, <1>5, <1>6, <1>7, <1>9, <2>1, <2>2, <2>3 DEF OtherStep, CallStep
<1>10. CASE Died
  BY <1>10, <1>a, <1>i, <1>n DEF Died
<1> QED
  BY <1>1, <1>2, <1>9, <1>10 DEF StepKinds, Prepared, Driven

\* The source of a handoff stays a run that has ended.
LEMMA SourceStep ==
    ASSUME IInv, WInv, StepKinds, Effect
    PROVE  SourceInv'
<1>0. SourceInv /\ \A q \in Runs : Terminal(q) => EndedNow(q)
  BY EndedAlways DEF WInv
<1>1. call'[submit].at # "idle" => call'[submit].from = None
  BY <1>0, SourceOfCall DEF SourceInv
<1>2. call'[resume].at \in {"create", "start"} =>
        call'[resume].from \in Runs /\ EndedNow(call'[resume].from)
  BY <1>0, SourceOfCall DEF SourceInv
<1>3. ASSUME NEW q \in Runs, task'[q].at \in Preparation, task'[q].from # None
      PROVE  task'[q].from \in Runs /\ EndedNow(task'[q].from)
  <2>1. CASE task[q].at \in Preparation /\ task'[q].from = task[q].from
    BY <1>0, <1>3, <2>1 DEF SourceInv
  <2>2. ASSUME NEW c \in {submit, resume}, call[c].at = "start", task'[q].from = call[c].from
        PROVE  task'[q].from \in Runs /\ EndedNow(task'[q].from)
    BY <1>0, <1>3, <2>2 DEF SourceInv
  <2> QED
    BY <1>3, <2>1, <2>2, SourceOfTask
<1> QED
  BY <1>1, <1>2, <1>3 DEF SourceInv, Terminal, EndedNow

-----------------------------------------------------------------------------
(* Teardowns and engines. *)

\* A teardown that a call begins is of a run whose engine is not at work.
LEMMA BegunApart ==
    ASSUME IInv, WInv, OtherStep, NEW w \in Workers, job'[w] # job[w]
    PROVE  engine[job'[w].run].at \in {"off", "removable", "gone"}
<1>0. /\ job \in [Workers -> JobRecord] /\ engine \in [Runs -> EngineRecord] /\ BuildInv
      /\ runtimes \in [Runs -> {"none", "preparing", "running"}]
      /\ \A r \in Runs : engine[r].at \in EngineAts
  BY DEF IInv, TypeOK, ControlOK, EngineRecord, WInv
<1>n. /\ {submit, force, boot} \subseteq Workers /\ {submit, force, boot} \subseteq Callers
      /\ submit # boot /\ force # boot
  BY Names, WorkerNames
<1>a. ASSUME NEW c \in Workers, NEW kind \in Kinds, NEW r \in Runs, NEW f \in BOOLEAN,
             begin(c, kind, r, f)
      PROVE  job'[w].run = r
  BY <1>0, <1>a, BeginType
<1>b. ASSUME NEW r \in Runs, runtimes[r] # "running"
      PROVE  engine[r].at \in {"off", "removable", "gone"}
  BY <1>0, <1>b DEF BuildInv, BuildOK, EngineAts
<1>c. call[submit].at # "idle" => call[submit].run \in Runs
  BY <1>n DEF IInv, CallInv, CallPlaces
<1>d. call[force].at # "idle" => call[force].run \in Runs
  BY <1>n DEF IInv, CallInv, CallPlaces
<1>k. {"settle", "lost", "engine", "rebuild"} \subseteq Kinds
  BY DEF Kinds
<1>1. CASE FailOrphaned
  <2> DEFINE r == call[submit].run
  <2>1. /\ call[submit].at = "orphan" /\ runtimes[r] # "running"
        /\ begin(submit, "settle", r, FALSE) \/ begin(submit, "lost", r, FALSE)
    BY <1>1 DEF FailOrphaned
  <2>2. r \in Runs
    BY <1>c, <2>1
  <2> HIDE DEF r
  <2>3. job'[w].run = r
    BY <1>a, <1>k, <1>n, <2>1, <2>2
  <2> QED
    BY <1>b, <2>1, <2>2, <2>3
<1>2. CASE ForceWaited
  <2> DEFINE r == call[force].run
  <2>1. /\ call[force].at = "wait" /\ runtimes[r] # "running" /\ begin(force, "settle", r, TRUE)
    BY <1>2 DEF ForceWaited
  <2>2. r \in Runs
    BY <1>d, <2>1
  <2> HIDE DEF r
  <2>3. job'[w].run = r
    BY <1>a, <1>k, <1>n, <2>1, <2>2
  <2> QED
    BY <1>b, <2>1, <2>2, <2>3
<1>3. CASE ForceDriven
  <2> DEFINE r == call[force].run
  <2>1. /\ call[force].at = "drive" /\ engine[r].at \in {"removable", "gone"}
        /\ begin(force, "engine", r, TRUE)
    BY <1>3 DEF ForceDriven
  <2>2. r \in Runs
    BY <1>d, <2>1
  <2> HIDE DEF r
  <2>3. job'[w].run = r
    BY <1>a, <1>k, <1>n, <2>1, <2>2
  <2> QED
    BY <2>1, <2>3
<1>4. CASE ForceRebuild
  <2> DEFINE r == call[force].run
  <2>1. call[force].at = "rebuild" /\ ~Claimed(r) /\ begin(force, "rebuild", r, TRUE)
    BY <1>4 DEF ForceRebuild
  <2>2. r \in Runs /\ engine[r].at \in {"off", "gone"}
    BY <1>d, <2>1 DEF Claimed
  <2> HIDE DEF r
  <2>3. job'[w].run = r
    BY <1>a, <1>k, <1>n, <2>1, <2>2
  <2> QED
    BY <2>2, <2>3
<1>5. ASSUME NEW r \in Runs, ReconcileRun(r)
      PROVE  engine[job'[w].run].at \in {"off", "removable", "gone"}
  <2>1. call[boot].at = "runs" /\ begin(boot, "lost", r, FALSE)
    BY <1>5 DEF ReconcileRun
  <2>2. task[r].at = "none"
    BY <2>1 DEF IInv, DownInv, Up
  <2>3. engine[r].at = "off"
    BY <2>2 DEF IInv, RunInv, RunOK
  <2>4. job'[w].run = r
    BY <1>a, <1>k, <1>n, <2>1
  <2> QED
    BY <2>3, <2>4
<1>6. ASSUME OtherStep, ~FailOrphaned, ~ForceWaited, ~ForceDriven, ~ForceRebuild,
             ~\E r \in Runs : ReconcileRun(r)
      PROVE  UNCHANGED job
  <2>1. CASE CallStep
    BY <1>6, <2>1 DEF CallStep, CreateSuccessor, ForceStep, ForceTurn, ForceCancel, ForceSignal,
       StartPreparation, StartPreparationFails
  <2>2. CASE BootStep
    BY <1>6, <2>2 DEF BootStep, ReconcileDocument, UnlinkSuccessor, Reconciled, Serve
  <2>3. CASE \E r, s \in Runs : Submit(r) \/ RequestForce(r) \/ Discard(r) \/ Resume(s, r)
    BY <2>3 DEF Submit, RequestForce, Discard, Resume
  <2>4. CASE (\E i \in Identities : SurvivorExits(i)) \/ UNCHANGED vars
    BY <2>4 DEF SurvivorExits, vars
  <2> QED
    BY <1>6, <2>1, <2>2, <2>3, <2>4 DEF OtherStep
<1> QED
  BY <1>1, <1>2, <1>3, <1>4, <1>5, <1>6

\* A run that is being prepared has no teardown but the one its task may begin.
LEMMA PreparationAlone ==
    ASSUME IInv, NEW r \in Runs, task[r].at \in Preparation, NEW w \in Workers,
           job[w].step # "none"
    PROVE  w # r /\ job[w].run # r
BY WorkerNames DEF IInv, JobInv, JobOK, Resting, Preparation

\* Every step keeps them apart.
LEMMA JobEngineStep ==
    ASSUME IInv, IInv', WInv, StepKinds
    PROVE  JobEngineInv'
<1> SUFFICES ASSUME NEW w \in Workers, job'[w].step # "none"
             PROVE  engine'[job'[w].run].at \in {"off", "removable", "gone"}
  BY DEF JobEngineInv
<1>0. /\ JobEngineInv /\ BuildInv /\ JobOK(w)
      /\ job[w].step # "none" => job[w].run \in Runs
  BY DEF WInv, IInv, JobInv, JobOK
<1>a. ASSUME job'[w] = job[w], engine'[job[w].run] = engine[job[w].run]
      PROVE  engine'[job'[w].run].at \in {"off", "removable", "gone"}
  BY <1>0, <1>a DEF JobEngineInv
<1>1. ASSUME NEW r \in Runs, Prepared(r)
      PROVE  engine'[job'[w].run].at \in {"off", "removable", "gone"}
  <2>0. task[r].at \in Preparation
    BY <1>1 DEF Prepared
  <2>1. CASE job'[w] = job[w]
    <3>1. job[w].run # r /\ job[w].run \in Runs
      BY <1>0, <2>0, <2>1, PreparationAlone
    <3> QED
      BY <1>1, <1>a, <2>1, <3>1 DEF Prepared, SameRun
  <2>2. CASE job'[w] # job[w]
    <3>1. w = r /\ Settles(r)
      BY <1>1, <2>2 DEF Prepared, Progresses, HandsOver
    <3>2. engine[r].at = "off"
      BY <2>0 DEF Preparation, IInv, RunInv, RunOK, Finished
    <3> QED
      BY <3>1, <3>2 DEF Settles
  <2> QED
    BY <2>1, <2>2
<1>2. ASSUME NEW r \in Runs, EngineStep(r), Driven(r)
      PROVE  engine'[job'[w].run].at \in {"off", "removable", "gone"}
  <2>1. job'[w] = job[w]
    BY <1>2 DEF Driven
  <2>2. CASE job[w].run # r
    BY <1>0, <1>2, <1>a, <2>1, <2>2 DEF Driven, SameRun
  <2>3. CASE job[w].run = r
    <3>1. engine[r].at \in {"removable", "gone"}
      BY <1>0, <1>2, <2>1, <2>3 DEF JobEngineInv, Driven
    <3>2. Advances(r) /\ engine'[r].at \in EngineAts
      BY <1>0, <1>2, EngineAdvances DEF IInv, TypeOK, ControlOK, EngineRecord
    <3> QED
      BY <2>1, <2>3, <3>1, <3>2 DEF Advances, EngineAts
  <2> QED
    BY <2>2, <2>3
<1>3. ASSUME NEW v \in Workers, Worked(v)
      PROVE  engine'[job'[w].run].at \in {"off", "removable", "gone"}
  <2>1. UNCHANGED engine
    BY <1>3 DEF Worked
  <2>2. CASE w # v
    BY <1>3, <1>a, <2>1, <2>2 DEF Worked
  <2>3. CASE w = v
    <3>1. job'[w].run = job[w].run /\ job[w].step # "none"
      BY <1>0, <1>3, <2>3 DEF Worked, Carries, Ended, JobOK
    <3> QED
      BY <1>0, <2>1, <3>1 DEF JobEngineInv
  <2> QED
    BY <2>2, <2>3
<1>4. ASSUME OtherStep, OtherEffect
      PROVE  engine'[job'[w].run].at \in {"off", "removable", "gone"}
  <2>1. UNCHANGED engine
    BY <1>4 DEF OtherEffect
  <2> QED
    BY <1>4, <1>a, <2>1, BegunApart
<1>5. CASE Died
  BY <1>5 DEF Died, NoJob
<1> QED
  BY <1>1, <1>2, <1>3, <1>4, <1>5 DEF StepKinds

-----------------------------------------------------------------------------
(* Whose work is settled. *)

\* After the step: the run's work has to be settled.
MustSettleNow(q) ==
    \/ EndedNow(q)
    \/ engine'[q].at = "append" \/ (engine'[q].at = "cleanup" /\ ~capsule'[q].active)
    \/ \E w \in Workers : job'[w].step = "append" /\ job'[w].run = q

\* A teardown comes to its terminal event by a confirmed destroy.
LEMMA AppendsDestroyed ==
    ASSUME IInv, NEW w \in Workers, JobStep(w), Worked(w), job'[w].step = "append"
    PROVE  JobDestroy(w)
<1>0. /\ ControlOK /\ job \in [Workers -> JobRecord] /\ job[w].run \in Runs
  BY TeardownRests DEF IInv, TypeOK, ControlOK
<1>1. ASSUME NEW ok \in BOOLEAN, ends(w, ok) PROVE FALSE
  BY <1>0, <1>1, EndsEffect DEF Ended
<1>2. ASSUME NEW s \in Steps, s # "append", step(w, s) PROVE FALSE
  BY <1>0, <1>2, StepType
<1>s. {"unslot", "destroy", "discard"} \subseteq Steps
  BY DEF Steps
<1>3. ~JobCheck(w)
  BY <1>2, <1>s DEF JobCheck
<1>4. ~JobAppend(w)
  BY <1>1, <1>2, <1>s DEF JobAppend
<1>5. ~JobDestroyFails(w) /\ ~JobAppendFails(w) /\ ~JobUnslot(w) /\ ~JobDiscard(w)
  BY <1>1 DEF JobDestroyFails, JobAppendFails, JobUnslot, JobDiscard
<1> QED
  BY <1>3, <1>4, <1>5 DEF JobStep

\* A run whose work has to be settled was one before, or is torn down by the step.
LEMMA SettlingStep ==
    ASSUME IInv, IInv', WInv, StepKinds, NEW q \in Runs, MustSettleNow(q)
    PROVE  MustSettle(q) \/ TornDown(q)
<1>0. BuildOK(q) /\ BuildInv /\ JobEngineInv
  BY DEF WInv, BuildInv
<1>a. ASSUME SameRun(q),
             \A w \in Workers : job'[w].step = "append" => job'[w] = job[w]
      PROVE  MustSettle(q)
  BY <1>a DEF SameRun, MustSettleNow, MustSettle, EndedNow, Terminal
<1>1. ASSUME NEW r \in Runs, Prepared(r) PROVE MustSettle(q)
  <2>1. \A w \in Workers : job'[w].step = "append" => job'[w] = job[w]
    BY <1>1 DEF Prepared, Progresses, Settles, HandsOver
  <2>2. CASE q # r
    BY <1>1, <1>a, <2>1, <2>2 DEF Prepared
  <2>3. CASE q = r
    <3>1. engine'[q].at \notin {"append", "cleanup"}
      BY <1>1, <2>3 DEF Prepared, Progresses, Settles, HandsOver, Preparation, IInv, RunInv, RunOK,
         Finished
    <3>2. EndedNow(q) => Terminal(q)
      BY <1>1 DEF Prepared, EndedNow, Terminal
    <3> QED
      BY <2>1, <3>1, <3>2 DEF MustSettleNow, MustSettle
  <2> QED
    BY <2>2, <2>3
<1>2. ASSUME NEW r \in Runs, EngineStep(r), Driven(r) PROVE MustSettle(q) \/ TornDown(q)
  <2>1. UNCHANGED job
    BY <1>2 DEF Driven
  <2>2. CASE q # r
    BY <1>2, <1>a, <2>1, <2>2 DEF Driven
  <2>3. CASE q = r
    <3>1. Advances(r)
      BY <1>0, <1>2, EngineAdvances
    <3>2. CASE EndedNow(q)
      BY <1>2, <2>3, <3>2 DEF Driven, MustSettle, EndedNow, Terminal
    <3>3. CASE engine'[q].at = "append"
      <4>1. engine[r].at = "cleanup" /\ EngineCleanup(r)
        BY <2>3, <3>1, <3>3 DEF Advances
      <4>2. CASE capsule[r].active
        BY <1>2, <2>3, <3>3, <4>1, <4>2, EngineDisk
      <4>3. CASE ~capsule[r].active
        BY <2>3, <4>1, <4>3 DEF MustSettle
      <4> QED
        BY <4>2, <4>3
    <3>4. CASE engine'[q].at = "cleanup" /\ ~capsule'[q].active
      BY <1>0, <2>3, <3>1, <3>4 DEF Advances, BuildOK, MustSettle
    <3>5. CASE \E w \in Workers : job'[w].step = "append" /\ job'[w].run = q
      BY <2>1, <3>5 DEF MustSettle
    <3> QED
      BY <3>2, <3>3, <3>4, <3>5 DEF MustSettleNow
  <2> QED
    BY <2>2, <2>3
<1>3. ASSUME NEW w \in Workers, JobStep(w), Worked(w) PROVE MustSettle(q) \/ TornDown(q)
  <2>1. CASE EndedNow(q)
    <3>1. CASE ledger'[q].state = ledger[q].state
      BY <2>1, <3>1 DEF MustSettle, EndedNow, Terminal
    <3>2. CASE ledger'[q].state # ledger[q].state
      BY <1>3, <3>2 DEF Worked, MustSettle
    <3> QED
      BY <3>1, <3>2
  <2>2. CASE engine'[q].at = "append"
    BY <1>3, <2>2 DEF Worked, MustSettle
  <2>3. CASE engine'[q].at = "cleanup" /\ ~capsule'[q].active
    <3>1. engine[q].at = "cleanup"
      BY <1>3, <2>3 DEF Worked
    <3>2. q # job[w].run
      BY <1>0, <1>3, <3>1 DEF JobEngineInv, Worked
    <3> QED
      BY <1>3, <2>3, <3>1, <3>2 DEF Worked, MustSettle
  <2>4. ASSUME NEW v \in Workers, job'[v].step = "append", job'[v].run = q
        PROVE  MustSettle(q) \/ TornDown(q)
    <3>1. CASE v # w
      BY <1>3, <2>4, <3>1 DEF Worked, MustSettle
    <3>2. CASE v = w
      <4>1. JobDestroy(w)
        BY <1>3, <2>4, <3>2, AppendsDestroyed
      <4>2. job'[w].run = job[w].run
        BY <1>3, <2>4, <3>2 DEF Worked, Carries, Ended
      <4> QED
        BY <1>3, <2>4, <3>2, <4>1, <4>2, JobDisk
    <3> QED
      BY <3>1, <3>2
  <2> QED
    BY <2>1, <2>2, <2>3, <2>4 DEF MustSettleNow
<1>4. ASSUME OtherEffect PROVE MustSettle(q)
  <2>0. UNCHANGED <<capsule, engine>>
    BY <1>4 DEF OtherEffect
  <2>1. \A w \in Workers : job'[w].step = "append" => job'[w] = job[w]
    <3>1. ASSUME NEW c, Called(c), UNCHANGED job \/ job'[c].step \in {"check", "destroy"}
          PROVE  \A w \in Workers : job'[w].step = "append" => job'[w] = job[w]
      BY <3>1 DEF Called
    <3>2. UNCHANGED job => \A w \in Workers : job'[w].step = "append" => job'[w] = job[w]
      OBVIOUS
    <3>3. CASE OrphanFailed
      BY <3>1, <3>3 DEF OrphanFailed, Undertakes
    <3>4. CASE Forced
      BY <3>1, <3>4 DEF Forced, Undertakes
    <3>5. CASE Booted
      BY <3>1, <3>5 DEF Booted
    <3> QED
      BY <1>4, <3>2, <3>3, <3>4, <3>5 DEF OtherEffect, Submitted, Resumed, Requested, Started,
         StartFailed, Created, Still
  <2>2. EndedNow(q) => Terminal(q)
    BY <1>4 DEF OtherEffect, Submitted, Resumed, Requested, Started, StartFailed, Created,
       OrphanFailed, Forced, Booted, Still, SameRun, EndedNow, Terminal
  <2> QED
    BY <2>0, <2>1, <2>2 DEF MustSettleNow, MustSettle
<1>5. CASE Died
  BY <1>5 DEF Died, NoEngine, NoJob, MustSettleNow, MustSettle, EndedNow, Terminal
<1> QED
  BY <1>1, <1>2, <1>3, <1>4, <1>5 DEF StepKinds

\* A run that is still building, or just handed over, has nothing to settle.
LEMMA UnsettledYet ==
    ASSUME IInv, IInv', NEW r \in Runs,
           task'[r].at = "register" \/ Keeps(r)
    PROVE  ~MustSettleNow(r)
<1>1. CASE task'[r].at = "register"
  <2>1. ~EndedNow(r) /\ engine'[r].at = "off"
    BY <1>1 DEF IInv, RunInv, RunOK, Preparation, Finished, Terminal, EndedNow
  <2>2. ASSUME NEW w \in Workers, job'[w].step = "append" PROVE job'[w].run # r
    BY <1>1, <2>2, WorkerNames DEF IInv, JobInv, JobOK, Resting
  <2> QED
    BY <2>1, <2>2 DEF MustSettleNow
<1>2. CASE Keeps(r)
  <2>1. engine'[r].at = "driving" /\ task[r].at \in Preparation /\ UNCHANGED <<ledger, job>>
    BY <1>2 DEF Keeps, Preparation
  <2>2. ~EndedNow(r)
    BY <2>1, EndedRests DEF EndedNow, Terminal
  <2>3. ASSUME NEW w \in Workers, job'[w].step = "append" PROVE job'[w].run # r
    BY <2>1, <2>3, PreparationAlone
  <2> QED
    BY <2>1, <2>2, <2>3 DEF MustSettleNow
<1> QED
  BY <1>1, <1>2

\* Every step leaves what has to be settled settled.
LEMMA SettledStep ==
    ASSUME IInv, IInv', WInv, StepKinds, DiskStep
    PROVE  SettledInv'
<1> SUFFICES ASSUME NEW q \in Runs, MustSettleNow(q), root'[q] \in kept' PROVE OffersNow(q)
  BY DEF SettledInv, MustSettle, MustSettleNow, Settled, Offered, OffersNow, Terminal, EndedNow
<1>0. RootsApart /\ SettledInv /\ None \notin kept
  BY DEF WInv, RootInv, KeptHeld
<1>1. CASE TornDown(q)
  BY <1>1 DEF TornDown
<1>2. CASE ~TornDown(q)
  <2>0. root[q] \in kept => Offered(q)
    BY <1>0, <1>2, SettlingStep DEF SettledInv, Settled
  <2>1. CASE Redocs
    BY <2>0, <2>1 DEF Redocs
  <2>2. ASSUME NEW r \in Runs, Sheds(r) PROVE OffersNow(q)
    <3>1. root'[q] = root[q] /\ root[q] \in kept
      BY <1>0, <2>2 DEF Sheds
    <3>2. CASE q # r
      BY <2>0, <2>2, <3>1, <3>2 DEF Sheds, Offered, OffersNow
    <3>3. CASE q = r
      BY <2>0, <2>2, <3>1, <3>3 DEF Sheds
    <3> QED
      BY <3>2, <3>3
  <2>3. ASSUME NEW r \in Runs, Makes(r) PROVE OffersNow(q)
    <3>1. q # r
      BY <2>3 DEF Makes, Blank
    <3> QED
      BY <2>0, <2>3, <3>1 DEF Makes, Offered, OffersNow
  <2>4. ASSUME NEW r \in Runs, Keeps(r) PROVE OffersNow(q)
    <3>1. q # r
      BY <2>4, UnsettledYet
    <3>2. root[q] # root[r]
      BY <1>0, <2>4, <3>1 DEF Keeps, RootsApart
    <3> QED
      BY <2>0, <2>4, <3>2 DEF Keeps, Offered, OffersNow
  <2>5. ASSUME NEW r \in Runs, NEW s \in Runs, Moves(r, s) PROVE OffersNow(q)
    <3>1. CASE q = r
      BY <2>5, <3>1, UnsettledYet DEF Moves, OffersNow
    <3>2. CASE q = s
      BY <1>0, <2>5, <3>2 DEF Moves
    <3>3. CASE q # r /\ q # s
      BY <2>0, <2>5, <3>3 DEF Moves, Offered, OffersNow
    <3> QED
      BY <3>1, <3>2, <3>3
  <2> QED
    BY <2>1, <2>2, <2>3, <2>4, <2>5 DEF DiskStep
<1> QED
  BY <1>1, <1>2

-----------------------------------------------------------------------------
(* The claim that startup rolls back. *)

\* Startup comes to remove a successor's document when the successor has no
\* directory.
LEMMA UnlinkBegins ==
    ASSUME IInv, StepKinds, call'[boot].at = "unlink", call'[boot] # call[boot]
    PROVE  root[call'[boot].run] = None
<1>0. call \in [Callers -> CallRecord] /\ TypeOK /\ CallInv /\ RunInv
  BY DEF IInv, TypeOK, ControlOK
<1>n. boot \in Callers /\ boot \in Workers /\ boot \notin Runs
      /\ submit # boot /\ resume # boot /\ force # boot
  BY Names, WorkerNames
<1>1. ASSUME NEW s \in Runs, ReconcileDocument(s) PROVE root[call'[boot].run] = None
  <2> DEFINE r == doc[s].successor
  <2>1. /\ ~HasWorkspace(r)
        /\ call' = [call EXCEPT ![boot] = [at |-> "unlink", run |-> r, from |-> None]]
    BY <1>1 DEF ReconcileDocument
  <2>2. call'[boot].run = r
    BY <1>0, <1>n, <2>1
  <2> QED
    BY <2>1, <2>2 DEF HasWorkspace
<1>2. ~UnlinkSuccessor
  <2> SUFFICES ASSUME UnlinkSuccessor PROVE FALSE
    OBVIOUS
  <2>1. call'[boot] = [Idle EXCEPT !.at = "down"]
    BY <1>0, <1>n DEF UnlinkSuccessor
  <2> QED
    BY <2>1 DEF Idle
<1>3. ASSUME NEW at \in CallAts, at # "unlink", go(boot, at) PROVE FALSE
  BY <1>0, <1>3, <1>n, CallMoves
<1>4. ~returns(boot)
  BY <1>0, <1>n, CallMoves
<1>5. CASE BootStep
  BY <1>1, <1>2, <1>3, <1>4, <1>5 DEF BootStep, Reconciled, Serve, ReconcileRun, CallAts
<1>6. ASSUME OtherStep, ~BootStep PROVE FALSE
  <2>1. ASSUME NEW c, c # boot, Called(c) PROVE FALSE
    BY <1>n, <2>1 DEF Called
  <2>2. ASSUME NEW r \in Runs, Submit(r) \/ (\E s \in Runs : Resume(s, r)) \/ RequestForce(r)
        PROVE  FALSE
    BY <1>0, <1>n, <2>1, <2>2, SubmissionEffect, ForceEffect DEF Submitted, Resumed, Requested
  <2>3. CASE FailOrphaned \/ ForceStep
    BY <1>0, <1>n, <2>1, <2>3, StartEffect, ForceEffect DEF OrphanFailed, Forced
  <2>4. CASE CreateSuccessor
    BY <1>n, <1>0, <2>4 DEF CreateSuccessor, go
  <2>5. ASSUME NEW c \in {submit, resume}, StartPreparation(c) \/ StartPreparationFails(c)
        PROVE  FALSE
    BY <1>0, <1>n, <2>1, <2>5, StartEffect DEF Started, StartFailed
  <2>6. CASE (\E r \in Runs : Discard(r)) \/ (\E i \in Identities : SurvivorExits(i))
           \/ UNCHANGED vars
    BY <2>6 DEF Discard, SurvivorExits, vars
  <2> QED
    BY <1>6, <2>2, <2>3, <2>4, <2>5, <2>6 DEF OtherStep, CallStep
<1>7. ASSUME NEW w \in Workers, Worked(w) PROVE FALSE
  BY <1>7, <1>n DEF Worked, Carries, Ended
<1>8. ~Died
  BY DEF Died
<1> QED
  BY <1>5, <1>6, <1>7, <1>8 DEF StepKinds, Prepared, Driven

\* While it is about to, the successor gets none.
LEMMA UnlinkStep ==
    ASSUME IInv, IInv', WInv, StepKinds, DiskStep
    PROVE  UnlinkInv'
<1> SUFFICES ASSUME call'[boot].at = "unlink" PROVE root'[call'[boot].run] = None
  BY DEF UnlinkInv
<1> DEFINE p == call'[boot].run
<1>1. p \in Runs /\ \A r \in Runs : task'[r].at = "none"
  BY DEF IInv, CallInv, CallPlaces, DownInv, Up
<1>2. root[p] = None
  BY UnlinkBegins DEF WInv, UnlinkInv
<1> HIDE DEF p
<1>3. root'[p] = None
  <2>1. \A r \in Runs : ~Makes(r)
    BY <1>1 DEF Makes
  <2>2. \A r, s \in Runs : ~Moves(r, s)
    BY <1>1 DEF Moves
  <2> QED
    BY <1>1, <1>2, <2>1, <2>2 DEF DiskStep, Redocs, Sheds, Keeps
<1> QED
  BY <1>3 DEF p

-----------------------------------------------------------------------------
(* The theorem. *)

\* Nothing is on disk and nobody is at work at first.
LEMMA InitWork == Init => WInv
<1> SUFFICES ASSUME Init PROVE WInv
  OBVIOUS
<1>1. /\ \A r \in Runs : /\ root[r] = None /\ ~doc[r].recoverable /\ task[r].at = "none"
                         /\ engine[r].at = "off" /\ ledger[r].state = "absent"
                         /\ ~capsule[r].active /\ ~capsule[r].inherited
      /\ \A w \in Workers : job[w].step = "none"
      /\ \A c \in Callers : call[c].at = "idle"
      /\ kept = {}
  BY DEF Init, NoDoc, NoTask, NoEngine, NoCapsule, NoJob, Idle
<1>2. RootInv
  BY <1>1, Names DEF RootInv, RootsApart, KeptHeld, BlankInv, Blank
<1>3. BuildInv
  BY <1>1 DEF BuildInv, BuildOK
<1>4. SourceInv /\ UnlinkInv
  BY <1>1, WorkerNames DEF SourceInv, UnlinkInv, Preparation
<1>5. JobEngineInv /\ SettledInv
  BY <1>1 DEF JobEngineInv, SettledInv, Settled
<1> QED
  BY <1>2, <1>3, <1>4, <1>5 DEF WInv

\* Where the work is stays consistent with who is at work.
THEOREM WorkInvariant == Spec => []WInv
<1>1. ASSUME IInv, IInv', WInv, [Next]_vars PROVE WInv'
  <2>1. StepKinds /\ Effect
    BY <1>1, KindOfStep, StepEffect
  <2>2. DiskStep /\ Recovers
    BY <1>1, <2>1, EveryDiskStep
  <2>3. RootInv' /\ BuildInv'
    BY <1>1, <2>1, <2>2, RootStep, BuildStep
  <2>4. SourceInv' /\ JobEngineInv'
    BY <1>1, <2>1, SourceStep, JobEngineStep
  <2>5. SettledInv' /\ UnlinkInv'
    BY <1>1, <2>1, <2>2, SettledStep, UnlinkStep
  <2> QED
    BY <2>3, <2>4, <2>5 DEF WInv
<1> QED
  BY <1>1, InitWork, Invariant, PTL DEF Spec

\* Work an agent may have written, and nobody asked to be thrown away, is in one
\* run directory, whose run is open, offers it, or named the run that takes it
\* over; through every failed write, lease, build and cleanup, and any number
\* of deaths of the controller between two writes.
THEOREM WorkSurvives == Spec => []WorkIsKept
<1>1. ASSUME IInv, WInv PROVE WorkIsKept
  <2> SUFFICES ASSUME NEW l \in kept
               PROVE  \E r \in Runs : /\ Holds(l) = {r}
                                      /\ Open(r) \/ doc[r].recoverable \/ doc[r].successor # None
    BY DEF WorkIsKept
  <2>1. l # None /\ \E r \in Runs : root[r] = l
    BY <1>1 DEF WInv, RootInv, KeptHeld
  <2>2. PICK r \in Runs : root[r] = l
    BY <2>1
  <2>3. Holds(l) = {r}
    BY <1>1, <2>1, <2>2 DEF Holds, WInv, RootInv, RootsApart
  <2>4. ledger[r].state # "absent"
    BY <1>1, <2>1, <2>2 DEF WInv, RootInv, BlankInv, Unmade, Blank
  <2>5. Terminal(r) => Offered(r)
    BY <1>1, <2>2 DEF WInv, SettledInv, MustSettle, Settled
  <2>6. ledger[r].state \in States
    BY <1>1 DEF IInv, TypeOK, ControlOK, LedgerRecord
  <2>7. Open(r) \/ Offered(r)
    BY <2>4, <2>5, <2>6 DEF Open, Terminal, States
  <2> QED
    BY <2>3, <2>7 DEF Offered
<1> QED
  BY <1>1, Invariant, WorkInvariant, PTL
=============================================================================
