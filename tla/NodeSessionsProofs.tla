------------------------- MODULE NodeSessionsProofs -------------------------
(***************************************************************************)
(* The safety properties of NodeSessions for every set of executions,      *)
(* runs, slots and concurrent closes, and for both pool boundaries.        *)
(***************************************************************************)
EXTENDS NodeSessions, TLAPS

\* Where a task is before anyone else can know of its session, and where it has hold of one.
Early == {"unused", "idle", "refused", "checkout", "waiting", "reusing", "opening", "probing",
          "opened"}
Holding == {"reusing", "leased", "driving", "losing", "replacing", "closing", "inner_close"}
Settling == {"losing", "replacing", "closing", "inner_close", "returning"}
Closing == {"closing", "inner_close"}

TaskPlaces == Early \cup Holding \cup {"open_cancelled", "open_failed", "returning", "returned"}
CloserPlaces == {"unused", "idle", "cancelling", "bindings", "entries", "awaiting", "returned"}
                    \cup Closing

Tasks == [pc : TaskPlaces, on : Execs \cup {None},
          then : {"none", "returning", "open_cancelled", "open_failed"}]
Entries == [state : {"absent", "opening", "live", "replaceable", "lost"}, of : Execs \cup {None}]
CloserStates == [pc : CloserPlaces, on : Execs \cup {None}, then : {"none", "bindings", "entries"},
                 run : Nat, targets : SUBSET Execs, bound : SUBSET (Execs \X Execs),
                 todo : SUBSET Entries]

\* The parts of the type invariant: the registry, the pool, the tasks and the closers.
RegistryType ==
    /\ active \subseteq Execs /\ binding \in [Execs -> Execs \cup {None}]
    /\ closed \in BOOLEAN /\ cancel \in [Execs -> BOOLEAN] /\ ready \in [Execs -> BOOLEAN]
PoolType ==
    /\ boundary \in {"Run", "Owner"}
    /\ entries \in [Keys -> Entries]
    /\ \A k \in Keys : entries[k].state \in {"live", "opening"} => entries[k].of \in Execs
    /\ session \in [Execs -> {"none", "open", "dead", "closing", "closed"}]
TaskOK(t) ==
    /\ t \in Tasks
    /\ t.pc \in Closing => t.then # "none"
    /\ t.pc \in Holding \cup {"probing", "opened"} => t.on \in Execs
CloserOK(r) ==
    /\ r \in CloserStates
    /\ r.pc \in Closing => r.then # "none" /\ r.on \in Execs
    /\ \A x \in r.todo : x.state \in {"live", "opening"} => x.of \in Execs
ProcType ==
    /\ proc = [p \in Execs \cup Closers |-> proc[p]]
    /\ \A e \in Execs : TaskOK(proc[e])
    /\ \A c \in Closers : CloserOK(proc[c])

TypeOK == RegistryType /\ PoolType /\ ProcType

\* The registry: the executions with a task, and a binding only of a task that came to drive.
Registered ==
    \A e \in Execs :
        /\ e \in active <=> proc[e].pc \notin Still
        /\ binding[e] # None => /\ proc[e].pc \in Settling \cup {"driving"}
                                /\ proc[e].pc \in Closing => proc[e].then = "returning"

\* Two executions share a session only when they share the slot and, under the Run boundary,
\* the run; an execution-scoped one is its opener's own.
Shares(e, s) == IF Reusable(e) THEN Reusable(s) /\ reusable_key(s) = reusable_key(e) ELSE s = e
KeyedEntries ==
    \A k \in Keys : entries[k].state \in {"live", "opening"} =>
        Reusable(entries[k].of) /\ reusable_key(entries[k].of) = k
KeyedTasks ==
    \A e \in Execs :
        /\ proc[e].pc \in Holding => Shares(e, proc[e].on)
        /\ proc[e].pc \in {"reusing", "losing", "replacing", "opened"} => Reusable(e)
        /\ binding[e] # None => Shares(e, binding[e])
KeyedBound == \A c \in Closers : \A b \in proc[c].bound : Shares(b[1], b[2])
SharedByKey == KeyedEntries /\ KeyedTasks /\ KeyedBound

\* Nobody but its opener has to do with a session before the opener has published it.
Published(s) == proc[s].pc \notin Early
PublishedEntries == \A k \in Keys : entries[k].state = "live" => Published(entries[k].of)
PublishedToTasks == \A e \in Execs : proc[e].pc \in Holding => Published(proc[e].on)
PublishedBindings == \A e \in Execs : binding[e] # None => Published(binding[e])
PublishedToClosers ==
    \A c \in Closers : /\ proc[c].pc \in Closing => Published(proc[c].on)
                       /\ \A b \in proc[c].bound : Published(b[2])
                       /\ \A x \in proc[c].todo : x.state = "live" => Published(x.of)
KnownOncePublished ==
    PublishedEntries /\ PublishedToTasks /\ PublishedBindings /\ PublishedToClosers

\* A session between its opening and its publication is unclosed; before, there is none.
OpenedByItsTask ==
    \A e \in Execs :
        /\ proc[e].pc \in {"probing", "opened"} => proc[e].on = e /\ Unclosed(e)
        /\ proc[e].pc \in Early \ {"probing", "opened"} => session[e] = "none"

\* The pool does not offer what is being closed, or is about to be.
Off(s) == \A k \in Keys : entries[k] # Live(s)
OffTasks == \A e \in Execs : proc[e].pc = "closing" => Off(proc[e].on)
OffClosers ==
    \A c \in Closers : /\ proc[c].pc = "closing" => Off(proc[c].on)
                       /\ \A x \in proc[c].todo : x.state = "live" => Off(x.of)
NotOffered == OffTasks /\ OffClosers

\* A session that is closing has someone to see it closed.
Attended(s) == \E p \in Execs \cup Closers : proc[p].pc = "inner_close" /\ proc[p].on = s
ClosingAttended ==
    /\ \A s \in Execs : session[s] = "closing" => Attended(s)
    /\ \A p \in Execs \cup Closers : proc[p].pc = "inner_close" =>
           session[proc[p].on] \in {"closing", "closed"}

\* A closer's progress: its run stays closed, everything it covers that is still active is one
\* of its targets, was cancelled, and is gone when it returns.
Begun(c) == proc[c].pc \notin {"unused", "idle"}
OnEntries(c) == proc[c].pc = "entries" \/ (proc[c].pc \in Closing /\ proc[c].then = "entries")
StaysClosed ==
    \A c \in Closers : Begun(c) =>
        IF proc[c].run = Everything THEN closed ELSE proc[c].run \in closed_runs
TargetsCovered ==
    \A c \in Closers : /\ Begun(c) => \A e \in active : Covers(proc[c].run, RunOf[e]) =>
                                          e \in proc[c].targets
                       /\ proc[c].pc = "returned" =>
                              \A e \in active : ~Covers(proc[c].run, RunOf[e])
TargetsCancelled ==
    \A c \in Closers : Begun(c) /\ proc[c].pc # "cancelling" =>
        \A e \in proc[c].targets : cancel[e]
ListCleared == \A c \in Closers : ~OnEntries(c) => proc[c].todo = {}
CloserSound == StaysClosed /\ TargetsCovered /\ TargetsCancelled /\ ListCleared

\* Behind a closer that emptied the pool of a run, or all of it, no entry comes to life again.
Emptied(c) ==
    /\ boundary = "Run" \/ proc[c].run = Everything
    /\ OnEntries(c) \/ proc[c].pc \in {"awaiting", "returned"}
EmptiedStaysEmpty ==
    \A c \in Closers : Emptied(c) =>
        \A k \in Keys : Covers(proc[c].run, k[1]) =>
            /\ entries[k].state # "live"
            /\ \A e \in Execs : proc[e].pc = "opened" => entries[k] # Opening(e)

\* The inductive invariant.
IInv ==
    /\ TypeOK /\ Registered /\ SharedByKey /\ KnownOncePublished /\ OpenedByItsTask /\ NotOffered
    /\ ClosingAttended /\ CloserSound /\ EmptiedStaysEmpty /\ SessionsAreAccountedFor

\* The registry and the channels keep their types.
LEMMA RegistryTypeStep ==
    ASSUME TypeOK, [Next]_vars
    PROVE  RegistryType'
<1> USE DEF TypeOK, RegistryType, registry
<1>1. ASSUME NEW e \in Execs,
             start(e)
      PROVE  RegistryType'
      BY <1>1 DEF start
<1>2. ASSUME NEW e \in Execs,
             cancel_handle(e)
      PROVE  RegistryType'
      BY <1>2 DEF cancel_handle
<1>3. ASSUME NEW e \in Execs,
             open_session(e)
      PROVE  RegistryType'
      BY <1>3 DEF open_session
<1>4. ASSUME NEW e \in Execs,
             drive(e)
      PROVE  RegistryType'
      BY <1>4 DEF drive, finish_lease
<1>5. ASSUME NEW e \in Execs,
             session_dies(e)
      PROVE  RegistryType'
      BY <1>5 DEF session_dies
<1>6. ASSUME NEW e \in Execs,
             checkout(e)
      PROVE  RegistryType'
      BY <1>6 DEF checkout
<1>7. ASSUME NEW e \in Execs,
             wait_for_open(e)
      PROVE  RegistryType'
      BY <1>7 DEF wait_for_open
<1>8. ASSUME NEW e \in Execs,
             reuse(e)
      PROVE  RegistryType'
      BY <1>8 DEF reuse
<1>9. ASSUME NEW e \in Execs,
             open_cancelled(e)
      PROVE  RegistryType'
      BY <1>9 DEF open_cancelled
<1>10. ASSUME NEW e \in Execs,
             probe(e)
      PROVE  RegistryType'
      BY <1>10 DEF probe
<1>11. ASSUME NEW e \in Execs,
             finish_open(e)
      PROVE  RegistryType'
      BY <1>11 DEF finish_open, stale_open, signalled
<1>12. ASSUME NEW e \in Execs,
             bind_session(e)
      PROVE  RegistryType'
      BY <1>12 DEF bind_session, finish_lease, ProcType, TaskOK, Holding
<1>13. ASSUME NEW e \in Execs,
             invalidate(e)
      PROVE  RegistryType'
      BY <1>13 DEF invalidate
<1>14. ASSUME NEW e \in Execs,
             finish(e)
      PROVE  RegistryType'
      BY <1>14 DEF finish, deregistered
<1>15. ASSUME NEW p \in Execs \cup Closers,
             close(p)
      PROVE  RegistryType'
      BY <1>15 DEF close
<1>16. ASSUME NEW p \in Execs \cup Closers,
             inner_close(p)
      PROVE  RegistryType'
      BY <1>16 DEF inner_close
<1>17. ASSUME NEW c \in Closers,
             begin_close(c)
      PROVE  RegistryType'
      BY <1>17 DEF begin_close
<1>18. ASSUME NEW c \in Closers,
             cancel_targets(c)
      PROVE  RegistryType'
      BY <1>18 DEF cancel_targets
<1>19. ASSUME NEW c \in Closers,
             close_bound(c)
      PROVE  RegistryType'
      BY <1>19 DEF close_bound
<1>20. ASSUME NEW c \in Closers,
             close_pool(c)
      PROVE  RegistryType'
      BY <1>20 DEF close_pool, give_up
<1>21. ASSUME NEW c \in Closers,
             close_entry(c)
      PROVE  RegistryType'
      BY <1>21 DEF close_entry, signalled
<1>22. ASSUME NEW c \in Closers,
             entries_closed(c)
      PROVE  RegistryType'
      BY <1>22 DEF entries_closed
<1>23. ASSUME NEW c \in Closers,
             wait_for_activity(c)
      PROVE  RegistryType'
      BY <1>23 DEF wait_for_activity
<1>24. CASE UNCHANGED vars
      BY <1>24 DEF vars
<1>. QED
      BY <1>1, <1>2, <1>3, <1>4, <1>5, <1>6, <1>7, <1>8, <1>9, <1>10, <1>11, <1>12, <1>13, <1>14,
         <1>15, <1>16, <1>17, <1>18, <1>19, <1>20, <1>21, <1>22, <1>23, <1>24 DEF Next, TaskStep,
             CloserStep

\* The pool and the sessions keep their types.
LEMMA PoolTypeStep ==
    ASSUME TypeOK, OpenedByItsTask, [Next]_vars
    PROVE  PoolType'
<1> USE DEF TypeOK, PoolType, registry
<1>1. ASSUME NEW e \in Execs,
             start(e)
      PROVE  PoolType'
      BY <1>1 DEF start
<1>2. ASSUME NEW e \in Execs,
             cancel_handle(e)
      PROVE  PoolType'
      BY <1>2 DEF cancel_handle
<1>3. ASSUME NEW e \in Execs,
             open_session(e)
      PROVE  PoolType'
      BY <1>3 DEF open_session
<1>4. ASSUME NEW e \in Execs,
             drive(e)
      PROVE  PoolType'
      BY <1>4 DEF drive, finish_lease
<1>5. ASSUME NEW e \in Execs,
             session_dies(e)
      PROVE  PoolType'
      BY <1>5 DEF session_dies
<1>6. ASSUME NEW e \in Execs,
             checkout(e)
      PROVE  PoolType'
      BY <1>6 DEF checkout, Opening, Entries
<1>7. ASSUME NEW e \in Execs,
             wait_for_open(e)
      PROVE  PoolType'
      BY <1>7 DEF wait_for_open
<1>8. ASSUME NEW e \in Execs,
             reuse(e)
      PROVE  PoolType'
      BY <1>8 DEF reuse
<1>9. ASSUME NEW e \in Execs,
             open_cancelled(e)
      PROVE  PoolType'
      BY <1>9 DEF open_cancelled
<1>10. ASSUME NEW e \in Execs,
             probe(e)
      PROVE  PoolType'
      BY <1>10 DEF probe
<1>11. ASSUME NEW e \in Execs,
             finish_open(e)
      PROVE  PoolType'
      BY <1>11 DEF finish_open, stale_open, opened_entry, still_opening, Live, Lost, Replaceable,
             Absent, Entries
<1>12. ASSUME NEW e \in Execs,
             bind_session(e)
      PROVE  PoolType'
      BY <1>12 DEF bind_session, finish_lease
<1>13. ASSUME NEW e \in Execs,
             invalidate(e)
      PROVE  PoolType'
      BY <1>13 DEF invalidate, invalidated, Lost, Replaceable, Entries
<1>14. ASSUME NEW e \in Execs,
             finish(e)
      PROVE  PoolType'
      BY <1>14 DEF finish
<1>15. ASSUME NEW p \in Execs \cup Closers,
             close(p)
      PROVE  PoolType'
      BY <1>15 DEF close
<1>16. ASSUME NEW p \in Execs \cup Closers,
             inner_close(p)
      PROVE  PoolType'
      BY <1>16 DEF inner_close
<1>17. ASSUME NEW c \in Closers,
             begin_close(c)
      PROVE  PoolType'
      BY <1>17 DEF begin_close
<1>18. ASSUME NEW c \in Closers,
             cancel_targets(c)
      PROVE  PoolType'
      BY <1>18 DEF cancel_targets
<1>19. ASSUME NEW c \in Closers,
             close_bound(c)
      PROVE  PoolType'
  <2>1. PICK b \in proc[c].bound :
               \/ entries' = entries
               \/ entries' = invalidated(reusable_key(b[1]), b[2], Lost)
               \/ entries' = invalidated(reusable_key(b[1]), b[2], Replaceable)
        BY <1>19 DEF close_bound
  <2>2. session' = session /\ boundary' = boundary
        BY <1>19 DEF close_bound
  <2>. QED
        BY <2>1, <2>2 DEF invalidated, Lost, Replaceable, Entries
<1>20. ASSUME NEW c \in Closers,
             close_pool(c)
      PROVE  PoolType'
      BY <1>20 DEF close_pool, give_up, Lost, Entries
<1>21. ASSUME NEW c \in Closers,
             close_entry(c)
      PROVE  PoolType'
      BY <1>21 DEF close_entry
<1>22. ASSUME NEW c \in Closers,
             entries_closed(c)
      PROVE  PoolType'
      BY <1>22 DEF entries_closed
<1>23. ASSUME NEW c \in Closers,
             wait_for_activity(c)
      PROVE  PoolType'
      BY <1>23 DEF wait_for_activity
<1>24. CASE UNCHANGED vars
      BY <1>24 DEF vars
<1>. QED
      BY <1>1, <1>2, <1>3, <1>4, <1>5, <1>6, <1>7, <1>8, <1>9, <1>10, <1>11, <1>12, <1>13, <1>14,
         <1>15, <1>16, <1>17, <1>18, <1>19, <1>20, <1>21, <1>22, <1>23, <1>24 DEF Next, TaskStep,
             CloserStep

\* The key of a reusable session is one of the pool's.
LEMMA KeyOf ==
    ASSUME boundary \in {"Run", "Owner"}, NEW e \in Execs, Reusable(e)
    PROVE  reusable_key(e) \in Keys
  BY DEF Reusable, reusable_key, Keys, Runs, Slots

\* A step of one process leaves the others where they are.
Others(p) ==
    /\ proc' = [q \in Execs \cup Closers |-> proc'[q]]
    /\ \A q \in Execs \cup Closers : q # p => proc'[q] = proc[q]

\* Where goes and closes take a task.
LEMMA TaskMoves ==
    ASSUME ProcType, NEW e \in Execs
    PROVE  /\ \A pc, on : goes(e, pc, on) =>
                  Others(e) /\ proc'[e] = [pc |-> pc, on |-> on, then |-> "none"]
           /\ \A s, then : closes(e, s, then) =>
                  Others(e) /\ proc'[e] = [pc |-> "closing", on |-> s, then |-> then]
  BY DEF ProcType, goes, closes, Task, Others

\* Where it goes is typed.
LEMMA GoesType ==
    ASSUME ProcType, NEW e \in Execs, NEW pc \in TaskPlaces \ Closing, NEW on \in Execs \cup {None},
           pc \in Holding \cup {"probing", "opened"} => on \in Execs, goes(e, pc, on)
    PROVE  ProcType'
<1>1. Others(e) /\ proc'[e] = [pc |-> pc, on |-> on, then |-> "none"]
      BY TaskMoves
<1>2. TaskOK(proc'[e])
      BY <1>1 DEF TaskOK, Tasks
<1>. QED
      BY <1>1, <1>2, ExecAssumption DEF ProcType, Others

\* So is a task that goes to close a session.
LEMMA ClosesType ==
    ASSUME ProcType, NEW e \in Execs, NEW s \in Execs,
           NEW then \in {"returning", "open_cancelled", "open_failed"}, closes(e, s, then)
    PROVE  ProcType'
<1>1. Others(e) /\ proc'[e] = [pc |-> "closing", on |-> s, then |-> then]
      BY TaskMoves
<1>2. TaskOK(proc'[e])
      BY <1>1 DEF TaskOK, Tasks, TaskPlaces, Holding, Closing
<1>. QED
      BY <1>1, <1>2, ExecAssumption DEF ProcType, Others

\* Only the place of a process changes.
Stays(p) ==
    /\ Others(p)
    /\ proc'[p].on = proc[p].on /\ proc'[p].then = proc[p].then
    /\ p \in Closers => /\ proc'[p].run = proc[p].run /\ proc'[p].targets = proc[p].targets
                        /\ proc'[p].bound = proc[p].bound /\ proc'[p].todo = proc[p].todo

\* A step that changes a process's place changes nothing else of it, nor of the others.
LEMMA PlaceMoves ==
    ASSUME ProcType, NEW p \in Execs \cup Closers, NEW pc, proc' = [proc EXCEPT ![p].pc = pc]
    PROVE  /\ Stays(p) /\ proc'[p].pc = pc
           /\ /\ p \in Execs
              /\ \/ pc \in TaskPlaces \ (Holding \cup {"probing", "opened"})
                 \/ pc \in Closing /\ proc[p].pc \in Closing
              => TaskOK(proc'[p])
           /\ /\ p \in Closers
              /\ pc \in CloserPlaces \ Closing \/ (pc \in Closing /\ proc[p].pc \in Closing)
              => CloserOK(proc'[p])
<1>1. Others(p) /\ proc'[p] = [proc[p] EXCEPT !.pc = pc]
      BY DEF ProcType, Others
<1>2. CASE p \in Execs
  <2>1. TaskOK(proc[p])
        BY <1>2 DEF ProcType
  <2>. QED
        BY <1>1, <1>2, <2>1, ExecAssumption DEF Stays, TaskOK, Tasks, TaskPlaces, Holding, Closing
<1>3. CASE p \in Closers
  <2>1. CloserOK(proc[p])
        BY <1>3 DEF ProcType
  <2>. QED
        BY <1>1, <1>3, <2>1, ExecAssumption DEF Stays, CloserOK, CloserStates, CloserPlaces, Closing
<1>. QED
      BY <1>2, <1>3

\* Where a closer's steps take it.
CloserMoved(c, pc, on, then, targets, bound, todo) ==
    /\ Others(c)
    /\ proc'[c] = [pc |-> pc, on |-> on, then |-> then, run |-> proc[c].run, targets |-> targets,
                   bound |-> bound, todo |-> todo]

\* What each of a closer's steps makes of it, spelt out field by field.
LEMMA CloserMoves ==
    ASSUME ProcType, NEW c \in Closers
    PROVE  /\ begin_close(c) =>
                LET targets == {e \in active : Covers(proc[c].run, RunOf[e])} IN
                CloserMoved(c, "cancelling", None, "none", targets,
                            {<<e, binding[e]>> : e \in {t \in targets : binding[t] # None}}, {})
           /\ cancel_targets(c) =>
                CloserMoved(c, "bindings", proc[c].on, proc[c].then, proc[c].targets,
                            proc[c].bound, proc[c].todo)
           /\ close_bound(c) => \E b \in proc[c].bound :
                /\ CloserMoved(c, "closing", b[2], "bindings", proc[c].targets,
                               proc[c].bound \ {b}, proc[c].todo)
                /\ entries' = IF Reusable(b[1])
                              THEN invalidated(reusable_key(b[1]), b[2],
                                         IF proc[c].run = Everything THEN Lost ELSE Replaceable)
                              ELSE entries
           /\ give_up(c, proc[c].run) =>
                CloserMoved(c, "entries", proc[c].on, proc[c].then, proc[c].targets, proc[c].bound,
                            {entries[k] : k \in doomed(proc[c].run)} \ {Replaceable, Lost})
           /\ close_entry(c) => \E x \in proc[c].todo :
                \/ /\ x.state = "live" /\ ready' = ready
                   /\ CloserMoved(c, "closing", x.of, "entries", proc[c].targets, proc[c].bound,
                                  proc[c].todo \ {x})
                \/ /\ x.state = "opening" /\ ready' = signalled(x.of)
                   /\ CloserMoved(c, "entries", proc[c].on, proc[c].then, proc[c].targets,
                                  proc[c].bound, proc[c].todo \ {x})
<1>1. CloserOK(proc[c]) /\ proc = [p \in Execs \cup Closers |-> proc[p]]
      BY DEF ProcType
<1>2. begin_close(c) =>
        LET targets == {e \in active : Covers(proc[c].run, RunOf[e])} IN
        CloserMoved(c, "cancelling", None, "none", targets,
                    {<<e, binding[e]>> : e \in {t \in targets : binding[t] # None}}, {})
      BY <1>1 DEF begin_close, Closer, CloserMoved, Others
<1> USE DEF CloserOK, CloserStates, CloserMoved, Others
<1>3. cancel_targets(c) =>
        CloserMoved(c, "bindings", proc[c].on, proc[c].then, proc[c].targets, proc[c].bound,
                    proc[c].todo)
      BY <1>1 DEF cancel_targets
<1>4. ASSUME close_bound(c)
      PROVE  \E b \in proc[c].bound :
                /\ CloserMoved(c, "closing", b[2], "bindings", proc[c].targets,
                               proc[c].bound \ {b}, proc[c].todo)
                /\ entries' = IF Reusable(b[1])
                              THEN invalidated(reusable_key(b[1]), b[2],
                                         IF proc[c].run = Everything THEN Lost ELSE Replaceable)
                              ELSE entries
  <2>1. PICK b \in proc[c].bound :
               /\ proc' = [proc EXCEPT ![c].pc = "closing", ![c].on = b[2], ![c].then = "bindings",
                                       ![c].bound = proc[c].bound \ {b}]
               /\ entries' = IF Reusable(b[1])
                             THEN invalidated(reusable_key(b[1]), b[2],
                                        IF proc[c].run = Everything THEN Lost ELSE Replaceable)
                             ELSE entries
        BY <1>4 DEF close_bound
  <2>2. CloserMoved(c, "closing", b[2], "bindings", proc[c].targets, proc[c].bound \ {b},
                    proc[c].todo)
        BY <1>1, <2>1
  <2>. QED
        BY <2>1, <2>2
<1>5. give_up(c, proc[c].run) =>
        CloserMoved(c, "entries", proc[c].on, proc[c].then, proc[c].targets, proc[c].bound,
                    {entries[k] : k \in doomed(proc[c].run)} \ {Replaceable, Lost})
      BY <1>1 DEF give_up
<1>6. ASSUME close_entry(c)
      PROVE  \E x \in proc[c].todo :
                \/ /\ x.state = "live" /\ ready' = ready
                   /\ CloserMoved(c, "closing", x.of, "entries", proc[c].targets, proc[c].bound,
                                  proc[c].todo \ {x})
                \/ /\ x.state = "opening" /\ ready' = signalled(x.of)
                   /\ CloserMoved(c, "entries", proc[c].on, proc[c].then, proc[c].targets,
                                  proc[c].bound, proc[c].todo \ {x})
  <2>1. PICK x \in proc[c].todo :
               \/ /\ x.state = "live" /\ ready' = ready
                  /\ proc' = [proc EXCEPT ![c].pc = "closing", ![c].on = x.of, ![c].then = "entries",
                                          ![c].todo = proc[c].todo \ {x}]
               \/ /\ x.state = "opening" /\ ready' = signalled(x.of)
                  /\ proc[c].pc = "entries" /\ proc' = [proc EXCEPT ![c].todo = proc[c].todo \ {x}]
        BY <1>6 DEF close_entry
  <2>2. CASE x.state = "live"
    <3>1. /\ ready' = ready
          /\ CloserMoved(c, "closing", x.of, "entries", proc[c].targets, proc[c].bound,
                         proc[c].todo \ {x})
      <4>1. /\ ready' = ready
            /\ proc' = [proc EXCEPT ![c].pc = "closing", ![c].on = x.of, ![c].then = "entries",
                                    ![c].todo = proc[c].todo \ {x}]
            BY <2>1, <2>2
      <4>. QED
            BY <1>1, <4>1
    <3>. QED
          BY <2>2, <3>1
  <2>3. CASE x.state = "opening"
        BY <1>1, <2>1, <2>3
  <2>. QED
        BY <2>1, <2>2, <2>3
<1>. QED
      BY <1>2, <1>3, <1>4, <1>5, <1>6

\* A step of one closer, or of one task, to a typed state.
LEMMA CloserType ==
    ASSUME ProcType, NEW c \in Closers, Others(c), CloserOK(proc'[c])
    PROVE  ProcType'
  BY ExecAssumption DEF ProcType, Others

\* A task's step that leaves it well formed keeps the types of all processes.
LEMMA TaskType ==
    ASSUME ProcType, NEW e \in Execs, Others(e), TaskOK(proc'[e])
    PROVE  ProcType'
  BY ExecAssumption DEF ProcType, Others

\* Tasks and closers keep their types.
LEMMA ProcTypeStep ==
    ASSUME TypeOK, OpenedByItsTask, [Next]_vars
    PROVE  ProcType'
<1> USE DEF TypeOK, registry
<1>1. ASSUME NEW p \in Execs \cup Closers,
             close(p) \/ inner_close(p)
      PROVE  ProcType'
  <2>1. CASE p \in Execs
    <3>1. TaskOK(proc[p])
          BY <2>1 DEF ProcType
    <3>2. Stays(p) /\ TaskOK(proc'[p])
          BY <1>1, <2>1, <3>1, PlaceMoves
          DEF close, inner_close, TaskOK, Tasks, TaskPlaces, Early, Holding, Closing
    <3>. QED
          BY <2>1, <3>2, ExecAssumption DEF ProcType, Stays, Others
  <2>2. CASE p \in Closers
    <3>1. CloserOK(proc[p])
          BY <2>2 DEF ProcType
    <3>2. Stays(p) /\ CloserOK(proc'[p])
          BY <1>1, <2>2, <3>1, PlaceMoves
          DEF close, inner_close, CloserOK, CloserStates, CloserPlaces, Closing
    <3>. QED
          BY <2>2, <3>2, ExecAssumption DEF ProcType, Stays, Others
  <2>. QED
        BY <2>1, <2>2
<1>2. ASSUME NEW e \in Execs,
             start(e)
      PROVE  ProcType'
      BY <1>2, GoesType DEF start, TaskPlaces, Early, Holding, Closing
<1>3. ASSUME NEW e \in Execs,
             cancel_handle(e)
      PROVE  ProcType'
      BY <1>3 DEF cancel_handle, ProcType
<1>4. ASSUME NEW e \in Execs,
             open_session(e)
      PROVE  ProcType'
      BY <1>4, GoesType DEF open_session, TaskPlaces, Early, Holding, Closing, unopened
<1>5. ASSUME NEW e \in Execs,
             drive(e)
      PROVE  ProcType'
  <2>1. TaskOK(proc[e])
        BY DEF ProcType
  <2>. QED
        BY <1>5, <2>1, GoesType, ClosesType DEF drive, finish_lease, TaskOK, Tasks, TaskPlaces,
               Early, Holding, Closing
<1>6. ASSUME NEW e \in Execs,
             session_dies(e)
      PROVE  ProcType'
      BY <1>6 DEF session_dies, ProcType
<1>7. ASSUME NEW e \in Execs,
             checkout(e)
      PROVE  ProcType'
  <2>1. Reusable(e) /\ entries[reusable_key(e)].state \in {"live", "opening"} =>
            entries[reusable_key(e)].of \in Execs
        BY KeyOf DEF PoolType
  <2>. QED
        BY <1>7, <2>1, GoesType DEF checkout, TaskPlaces, Early, Holding, Closing
<1>8. ASSUME NEW e \in Execs,
             wait_for_open(e)
      PROVE  ProcType'
      BY <1>8, GoesType DEF wait_for_open, TaskPlaces, Early, Holding, Closing
<1>9. ASSUME NEW e \in Execs,
             reuse(e)
      PROVE  ProcType'
  <2>1. TaskOK(proc[e])
        BY DEF ProcType
  <2>. QED
        BY <1>9, <2>1, GoesType DEF reuse, TaskOK, Tasks, TaskPlaces, Early, Holding, Closing
<1>10. ASSUME NEW e \in Execs,
             open_cancelled(e)
      PROVE  ProcType'
      BY <1>10, GoesType DEF open_cancelled, TaskPlaces, Early, Holding, Closing, unopened
<1>11. ASSUME NEW e \in Execs,
             probe(e)
      PROVE  ProcType'
      BY <1>11, GoesType, ClosesType DEF probe, TaskPlaces, Early, Holding, Closing, unopened
<1>12. ASSUME NEW e \in Execs,
             finish_open(e)
      PROVE  ProcType'
      BY <1>12, GoesType, ClosesType DEF finish_open, stale_open, TaskPlaces, Early, Holding,
             Closing
<1>13. ASSUME NEW e \in Execs,
             bind_session(e)
      PROVE  ProcType'
  <2>1. TaskOK(proc[e])
        BY DEF ProcType
  <2>. QED
        BY <1>13, <2>1, GoesType, ClosesType DEF bind_session, finish_lease, TaskOK, Tasks,
               TaskPlaces, Early, Holding, Closing
<1>14. ASSUME NEW e \in Execs,
             invalidate(e)
      PROVE  ProcType'
  <2>1. TaskOK(proc[e])
        BY DEF ProcType
  <2>. QED
        BY <1>14, <2>1, GoesType, ClosesType DEF invalidate, TaskOK, Tasks, TaskPlaces, Early,
               Holding, Closing
<1>15. ASSUME NEW e \in Execs,
             finish(e)
      PROVE  ProcType'
      BY <1>15, GoesType DEF finish, TaskPlaces, Early, Holding, Closing
<1>16. ASSUME NEW c \in Closers,
             begin_close(c)
      PROVE  ProcType'
  <2> DEFINE targets == {e \in active : Covers(proc[c].run, RunOf[e])}
             bound == {<<e, binding[e]>> : e \in {t \in targets : binding[t] # None}}
  <2>0. CloserOK(proc[c])
        BY DEF ProcType
  <2>1. targets \in SUBSET Execs
        BY DEF RegistryType
  <2>2. bound \in SUBSET (Execs \X Execs)
        BY <2>1 DEF RegistryType
  <2>3. CloserMoved(c, "cancelling", None, "none", targets, bound, {})
        BY <1>16, CloserMoves
  <2> HIDE DEF targets, bound
  <2>4. CloserOK(proc'[c]) /\ Others(c)
        BY <2>0, <2>1, <2>2, <2>3 DEF CloserMoved, CloserOK, CloserStates, CloserPlaces, Closing
  <2>. QED
        BY <2>4, CloserType
<1>17. ASSUME NEW c \in Closers,
             cancel_targets(c)
      PROVE  ProcType'
  <2>1. CloserOK(proc[c])
        BY DEF ProcType
  <2>2. CloserMoved(c, "bindings", proc[c].on, proc[c].then, proc[c].targets, proc[c].bound,
                    proc[c].todo)
        BY <1>17, CloserMoves
  <2>3. CloserOK(proc'[c]) /\ Others(c)
        BY <2>1, <2>2 DEF CloserMoved, CloserOK, CloserStates, CloserPlaces, Closing
  <2>. QED
        BY <2>3, CloserType
<1>18. ASSUME NEW c \in Closers,
             close_bound(c)
      PROVE  ProcType'
  <2>1. CloserOK(proc[c])
        BY DEF ProcType
  <2>2. PICK b \in proc[c].bound :
               CloserMoved(c, "closing", b[2], "bindings", proc[c].targets, proc[c].bound \ {b},
                           proc[c].todo)
        BY <1>18, CloserMoves
  <2>3. b[2] \in Execs
        BY <2>1 DEF CloserOK, CloserStates
  <2>4. CloserOK(proc'[c]) /\ Others(c)
        BY <2>1, <2>2, <2>3 DEF CloserMoved, CloserOK, CloserStates, CloserPlaces, Closing
  <2>. QED
        BY <2>4, CloserType
<1>19. ASSUME NEW c \in Closers,
             close_pool(c)
      PROVE  ProcType'
  <2>1. CloserOK(proc[c])
        BY DEF ProcType
  <2>2. CASE proc' = [proc EXCEPT ![c].pc = "awaiting"]
    <3>1. Others(c) /\ proc'[c] = [proc[c] EXCEPT !.pc = "awaiting"]
          BY <2>2 DEF ProcType, Others
    <3>2. CloserOK(proc'[c])
          BY <2>1, <3>1 DEF CloserOK, CloserStates, CloserPlaces, Closing
    <3>. QED
          BY <3>1, <3>2, CloserType
  <2>3. CASE give_up(c, proc[c].run)
    <3> DEFINE todo == {entries[k] : k \in doomed(proc[c].run)} \ {Replaceable, Lost}
    <3>1. CloserMoved(c, "entries", proc[c].on, proc[c].then, proc[c].targets, proc[c].bound, todo)
          BY <2>3, CloserMoves
    <3>2. todo \subseteq Entries /\ \A x \in todo : x.state \in {"live", "opening"} => x.of \in Execs
          BY DEF PoolType, doomed
    <3> HIDE DEF todo
    <3>3. CloserOK(proc'[c]) /\ Others(c)
          BY <2>1, <3>1, <3>2 DEF CloserMoved, CloserOK, CloserStates, CloserPlaces, Closing
    <3>. QED
          BY <3>3, CloserType
  <2>. QED
        BY <1>19, <2>2, <2>3 DEF close_pool
<1>20. ASSUME NEW c \in Closers,
             close_entry(c)
      PROVE  ProcType'
  <2>1. CloserOK(proc[c])
        BY DEF ProcType
  <2>2. PICK x \in proc[c].todo :
               \/ /\ x.state = "live"
                  /\ CloserMoved(c, "closing", x.of, "entries", proc[c].targets, proc[c].bound,
                                 proc[c].todo \ {x})
               \/ CloserMoved(c, "entries", proc[c].on, proc[c].then, proc[c].targets,
                              proc[c].bound, proc[c].todo \ {x})
        BY <1>20, CloserMoves
  <2>3. CloserOK(proc'[c]) /\ Others(c)
        BY <2>1, <2>2 DEF CloserMoved, CloserOK, CloserStates, CloserPlaces, Closing
  <2>. QED
        BY <2>3, CloserType
<1>21. ASSUME NEW c \in Closers,
             entries_closed(c)
      PROVE  ProcType'
  <2>1. CloserOK(proc[c]) /\ proc = [p \in Execs \cup Closers |-> proc[p]]
        BY DEF ProcType
  <2>2. Others(c) /\ proc'[c] = [proc[c] EXCEPT !.pc = "awaiting"]
        BY <1>21, <2>1 DEF entries_closed, Others
  <2>3. CloserOK(proc'[c])
        BY <2>1, <2>2 DEF CloserOK, CloserStates, CloserPlaces, Closing
  <2>. QED
        BY <2>2, <2>3, CloserType
<1>22. ASSUME NEW c \in Closers,
             wait_for_activity(c)
      PROVE  ProcType'
  <2>1. CloserOK(proc[c]) /\ proc = [p \in Execs \cup Closers |-> proc[p]]
        BY DEF ProcType
  <2>2. Others(c) /\ proc'[c] = [proc[c] EXCEPT !.pc = "returned"]
        BY <1>22, <2>1 DEF wait_for_activity, Others
  <2>3. CloserOK(proc'[c])
        BY <2>1, <2>2 DEF CloserOK, CloserStates, CloserPlaces, Closing
  <2>. QED
        BY <2>2, <2>3, CloserType
<1>23. CASE UNCHANGED vars
      BY <1>23 DEF vars, ProcType
<1>. QED
      BY <1>1, <1>2, <1>3, <1>4, <1>5, <1>6, <1>7, <1>8, <1>9, <1>10, <1>11, <1>12, <1>13, <1>14,
         <1>15, <1>16, <1>17, <1>18, <1>19, <1>20, <1>21, <1>22, <1>23 DEF Next, TaskStep,
             CloserStep

-----------------------------------------------------------------------------
(* Who changes what *)

TaskAny(e) ==
    start(e) \/ cancel_handle(e) \/ open_session(e) \/ drive(e) \/ session_dies(e) \/ TaskStep(e)
CloserAny(c) == begin_close(c) \/ CloserStep(c)

\* Closing a session, for a task or a closer, and the closer's last steps move only the place.
LEMMA CloseMoves ==
    ASSUME ProcType, NEW p \in Execs \cup Closers
    PROVE  /\ close(p) => /\ Stays(p)
                          /\ proc'[p].pc = IF Unclosed(proc[p].on) THEN "inner_close" ELSE proc[p].then
           /\ inner_close(p) => Stays(p) /\ proc'[p].pc = proc[p].then
           /\ entries_closed(p) => Stays(p) /\ proc'[p].pc = "awaiting"
           /\ wait_for_activity(p) => Stays(p) /\ proc'[p].pc = "returned"
           /\ close_pool(p) => give_up(p, proc[p].run) \/ (Stays(p) /\ proc'[p].pc = "awaiting")
<1>1. \A pc : proc' = [proc EXCEPT ![p].pc = pc] => Stays(p) /\ proc'[p].pc = pc
      BY PlaceMoves
<1>. QED
      BY <1>1 DEF close, inner_close, entries_closed, wait_for_activity, close_pool

\* A closer leaves every task and the registry's executions alone, and keeps its own run.
LEMMA CloserKeeps ==
    ASSUME ProcType, NEW c \in Closers, CloserAny(c)
    PROVE  /\ Others(c) /\ \A e \in Execs : proc'[e] = proc[e]
           /\ active' = active /\ binding' = binding /\ boundary' = boundary
           /\ proc'[c].run = proc[c].run
<1>1. Others(c) /\ proc'[c].run = proc[c].run
  <2>1. \A pc, on, then, targets, bound, todo : CloserMoved(c, pc, on, then, targets, bound, todo) =>
            Others(c) /\ proc'[c].run = proc[c].run
        BY DEF CloserMoved
  <2>2. CASE begin_close(c) \/ cancel_targets(c) \/ close_bound(c) \/ close_entry(c)
        BY <2>1, <2>2, CloserMoves
  <2>3. CASE close_pool(c)
        BY <2>1, <2>3, CloserMoves, CloseMoves DEF Stays
  <2>4. CASE entries_closed(c) \/ wait_for_activity(c) \/ close(c) \/ inner_close(c)
        BY <2>4, CloseMoves DEF Stays
  <2>. QED
        BY <2>2, <2>3, <2>4 DEF CloserAny, CloserStep
<1>2. active' = active /\ binding' = binding /\ boundary' = boundary
      BY DEF CloserAny, CloserStep, begin_close, cancel_targets, close_bound, close_pool,
             close_entry, entries_closed, wait_for_activity, close, inner_close, registry
<1>. QED
      BY <1>1, <1>2, ExecAssumption DEF Others

\* A task leaves every other task, and every closer, alone.
LEMMA TaskKeeps ==
    ASSUME ProcType, NEW e \in Execs, TaskAny(e)
    PROVE  /\ Others(e) /\ \A c \in Closers : proc'[c] = proc[c]
           /\ boundary' = boundary /\ closed' = closed /\ closed_runs' = closed_runs
<1>1. Others(e)
  <2>1. proc' = proc => Others(e)
        BY DEF Others, ProcType
  <2>. QED
        BY <2>1, TaskMoves, CloseMoves
        DEF TaskAny, TaskStep, start, cancel_handle, open_session, drive, session_dies, checkout,
            wait_for_open, reuse, open_cancelled, probe, finish_open, stale_open, bind_session,
            finish_lease, invalidate, finish, Stays
<1>2. boundary' = boundary /\ closed' = closed /\ closed_runs' = closed_runs
      BY DEF TaskAny, TaskStep, start, cancel_handle, open_session, drive, session_dies, checkout,
             wait_for_open, reuse, open_cancelled, probe, finish_open, bind_session, invalidate,
             finish, close, inner_close, registry
<1>. QED
      BY <1>1, <1>2, ExecAssumption DEF Others

\* A task's step, as its places: the one it goes to, and everyone else's.
LEMMA TaskAt ==
    ASSUME ProcType, NEW e \in Execs
    PROVE  /\ \A pc, on : goes(e, pc, on) => proc'[e].pc = pc /\ proc'[e].on = on
           /\ \A s, then : closes(e, s, then) =>
                  proc'[e].pc = "closing" /\ proc'[e].on = s /\ proc'[e].then = then
  BY DEF ProcType, goes, closes, Task

\* The registry holds exactly the tasks that run.
LEMMA RegisteredStep ==
    ASSUME TypeOK, Registered, [Next]_vars
    PROVE  Registered'
<1> USE DEF TypeOK, Registered, Still, Settling, Closing, registry
<1>1. ASSUME NEW c \in Closers, CloserAny(c)
      PROVE  Registered'
      BY <1>1, CloserKeeps
<1>2. ASSUME NEW e \in Execs,
             close(e) \/ inner_close(e)
      PROVE  Registered'
  <2>1. /\ Others(e) /\ proc[e].pc \in Closing /\ proc'[e].on = proc[e].on
        /\ proc'[e].then = proc[e].then /\ proc'[e].pc \in {"inner_close", proc[e].then}
        BY <1>2, CloseMoves DEF close, inner_close, Stays, Closing
  <2>2. \A q \in Execs : q # e => proc'[q] = proc[q]
        BY <2>1 DEF Others
  <2>3. proc[e].then \in {"returning", "open_cancelled", "open_failed"}
        BY <2>1 DEF ProcType, TaskOK, Tasks
  <2>4. /\ active' = active /\ binding' = binding /\ entries' = entries /\ boundary' = boundary
        /\ cancel' = cancel /\ closed' = closed /\ closed_runs' = closed_runs
        BY <1>2 DEF close, inner_close, registry
  <2>. QED
        BY <2>1, <2>2, <2>3, <2>4 DEF Closing
<1>3. ASSUME NEW e \in Execs,
             start(e)
      PROVE  Registered'
  <2>1. \A q \in Execs : q # e => proc'[q] = proc[q]
        BY <1>3, TaskKeeps DEF Others, TaskAny, TaskStep
  <2>. QED
        BY <1>3, <2>1, TaskAt DEF start, RegistryType
<1>4. ASSUME NEW e \in Execs,
             cancel_handle(e)
      PROVE  Registered'
      BY <1>4 DEF cancel_handle
<1>5. ASSUME NEW e \in Execs,
             open_session(e)
      PROVE  Registered'
  <2>1. \A q \in Execs : q # e => proc'[q] = proc[q]
        BY <1>5, TaskKeeps DEF Others, TaskAny, TaskStep
  <2>. QED
        BY <1>5, <2>1, TaskAt DEF open_session, RegistryType, unopened
<1>6. ASSUME NEW e \in Execs,
             drive(e)
      PROVE  Registered'
  <2>1. \A q \in Execs : q # e => proc'[q] = proc[q]
        BY <1>6, TaskKeeps DEF Others, TaskAny, TaskStep
  <2>. QED
        BY <1>6, <2>1, TaskAt DEF drive, finish_lease, RegistryType
<1>7. ASSUME NEW e \in Execs,
             session_dies(e)
      PROVE  Registered'
      BY <1>7 DEF session_dies
<1>8. ASSUME NEW e \in Execs,
             checkout(e)
      PROVE  Registered'
  <2>1. \A q \in Execs : q # e => proc'[q] = proc[q]
        BY <1>8, TaskKeeps DEF Others, TaskAny, TaskStep
  <2>. QED
        BY <1>8, <2>1, TaskAt DEF checkout, RegistryType
<1>9. ASSUME NEW e \in Execs,
             wait_for_open(e)
      PROVE  Registered'
  <2>1. \A q \in Execs : q # e => proc'[q] = proc[q]
        BY <1>9, TaskKeeps DEF Others, TaskAny, TaskStep
  <2>. QED
        BY <1>9, <2>1, TaskAt DEF wait_for_open, RegistryType
<1>10. ASSUME NEW e \in Execs,
             reuse(e)
      PROVE  Registered'
  <2>1. \A q \in Execs : q # e => proc'[q] = proc[q]
        BY <1>10, TaskKeeps DEF Others, TaskAny, TaskStep
  <2>. QED
        BY <1>10, <2>1, TaskAt DEF reuse, RegistryType
<1>11. ASSUME NEW e \in Execs,
             open_cancelled(e)
      PROVE  Registered'
  <2>1. \A q \in Execs : q # e => proc'[q] = proc[q]
        BY <1>11, TaskKeeps DEF Others, TaskAny, TaskStep
  <2>. QED
        BY <1>11, <2>1, TaskAt DEF open_cancelled, RegistryType, unopened
<1>12. ASSUME NEW e \in Execs,
             probe(e)
      PROVE  Registered'
  <2>1. \A q \in Execs : q # e => proc'[q] = proc[q]
        BY <1>12, TaskKeeps DEF Others, TaskAny, TaskStep
  <2>. QED
        BY <1>12, <2>1, TaskAt DEF probe, RegistryType, unopened
<1>13. ASSUME NEW e \in Execs,
             finish_open(e)
      PROVE  Registered'
  <2>1. \A q \in Execs : q # e => proc'[q] = proc[q]
        BY <1>13, TaskKeeps DEF Others, TaskAny, TaskStep
  <2>. QED
        BY <1>13, <2>1, TaskAt DEF finish_open, stale_open, RegistryType
<1>14. ASSUME NEW e \in Execs,
             bind_session(e)
      PROVE  Registered'
  <2>1. \A q \in Execs : q # e => proc'[q] = proc[q]
        BY <1>14, TaskKeeps DEF Others, TaskAny, TaskStep
  <2>. QED
        BY <1>14, <2>1, TaskAt DEF bind_session, finish_lease, RegistryType
<1>15. ASSUME NEW e \in Execs,
             invalidate(e)
      PROVE  Registered'
  <2>1. \A q \in Execs : q # e => proc'[q] = proc[q]
        BY <1>15, TaskKeeps DEF Others, TaskAny, TaskStep
  <2>. QED
        BY <1>15, <2>1, TaskAt DEF invalidate, RegistryType
<1>16. ASSUME NEW e \in Execs,
             finish(e)
      PROVE  Registered'
  <2>1. \A q \in Execs : q # e => proc'[q] = proc[q]
        BY <1>16, TaskKeeps DEF Others, TaskAny, TaskStep
  <2>. QED
        BY <1>16, <2>1, TaskAt DEF finish, RegistryType, deregistered
<1>17. CASE UNCHANGED vars
      BY <1>17 DEF vars
<1>. QED
      BY <1>1, <1>2, <1>3, <1>4, <1>5, <1>6, <1>7, <1>8, <1>9, <1>10, <1>11, <1>12, <1>13, <1>14,
         <1>15, <1>16, <1>17 DEF Next, TaskStep, CloserStep, CloserAny

\* What can become of an entry: nothing, an end (never of a lost one), an opening, and the one way
\* to life: its opener finds it still its own.
Opens(e, k) ==
    /\ checkout(e) /\ Reusable(e) /\ k = reusable_key(e)
    /\ entries[k].state \in {"absent", "replaceable"} /\ entries'[k] = Opening(e)
Publishes(e, k) ==
    /\ finish_open(e) /\ proc[e].pc = "opened" /\ k = reusable_key(e)
    /\ entries[k] = Opening(e) /\ entries'[k] = Live(e)
Gone == {Absent, Lost, Replaceable}

\* An entry changes in one of those ways.
LEMMA EntryChange ==
    ASSUME TypeOK, [Next]_vars, NEW k \in Keys
    PROVE  \/ entries'[k] = entries[k]
           \/ entries[k] # Lost /\ entries'[k] \in Gone
           \/ \E e \in Execs : Opens(e, k) \/ Publishes(e, k)
<1>0. entries \in [Keys -> Entries]
      BY DEF TypeOK, PoolType
<1>1. \A key, s, next : next \in Gone /\ entries' = invalidated(key, s, next) =>
          entries'[k] = entries[k] \/ (entries[k] # Lost /\ entries'[k] \in Gone)
      BY <1>0 DEF invalidated, Gone, Lost, Live, Replaceable, Absent
<1>2. ASSUME NEW e \in Execs, checkout(e) PROVE entries'[k] = entries[k] \/ Opens(e, k)
      BY <1>0, <1>2 DEF checkout, Opens
<1>3. ASSUME NEW e \in Execs, finish_open(e)
      PROVE  \/ entries'[k] = entries[k] \/ (entries[k] # Lost /\ entries'[k] \in Gone)
             \/ Publishes(e, k)
  <2>1. CASE ~still_opening(e)
        BY <1>3, <2>1 DEF finish_open
  <2>2. CASE still_opening(e)
    <3>1. entries' = [entries EXCEPT ![reusable_key(e)] = opened_entry(e)]
          BY <1>3, <2>2 DEF finish_open
    <3>2. opened_entry(e) \in Gone \/ (proc[e].pc = "opened" /\ opened_entry(e) = Live(e))
          BY <1>3 DEF finish_open, opened_entry, Gone
    <3>3. entries[reusable_key(e)] = Opening(e) /\ entries[reusable_key(e)] # Lost
          BY <2>2 DEF still_opening, Opening, Lost
    <3>. QED
          BY <1>0, <1>3, <3>1, <3>2, <3>3 DEF Publishes
  <2>. QED
        BY <2>1, <2>2
<1>4. ASSUME NEW e \in Execs, invalidate(e)
      PROVE  entries'[k] = entries[k] \/ (entries[k] # Lost /\ entries'[k] \in Gone)
      BY <1>1, <1>4 DEF invalidate, Gone
<1>5. ASSUME NEW c \in Closers, close_bound(c)
      PROVE  entries'[k] = entries[k] \/ (entries[k] # Lost /\ entries'[k] \in Gone)
      BY <1>1, <1>5 DEF close_bound, Gone
<1>6. ASSUME NEW c \in Closers, close_pool(c)
      PROVE  entries'[k] = entries[k] \/ (entries[k] # Lost /\ entries'[k] \in Gone)
      BY <1>0, <1>6 DEF close_pool, give_up, Gone
<1>7. ASSUME NEW e \in Execs,
             \/ start(e) \/ cancel_handle(e) \/ open_session(e) \/ drive(e) \/ session_dies(e)
             \/ wait_for_open(e) \/ reuse(e) \/ open_cancelled(e) \/ probe(e) \/ bind_session(e)
             \/ finish(e) \/ close(e) \/ inner_close(e)
      PROVE  entries' = entries
      BY <1>7
      DEF start, cancel_handle, open_session, drive, session_dies, wait_for_open, reuse,
          open_cancelled, probe, bind_session, finish, close, inner_close
<1>8. ASSUME NEW c \in Closers,
             \/ begin_close(c) \/ cancel_targets(c) \/ close_entry(c) \/ entries_closed(c)
             \/ wait_for_activity(c) \/ close(c) \/ inner_close(c)
      PROVE  entries' = entries
      BY <1>8
      DEF begin_close, cancel_targets, close_entry, entries_closed, wait_for_activity, close,
          inner_close
<1>. QED
      BY <1>2, <1>3, <1>4, <1>5, <1>6, <1>7, <1>8 DEF Next, TaskStep, CloserStep, vars

-----------------------------------------------------------------------------
(* Keys *)

\* The boundary is fixed, and with it everyone's key.
LEMMA Boundary ==
    ASSUME ProcType, [Next]_vars
    PROVE  boundary' = boundary
  BY TaskKeeps, CloserKeeps DEF Next, TaskAny, CloserAny, vars

\* An entry's session, or the one it waits for, has the entry's key.
LEMMA KeyedEntriesStep ==
    ASSUME TypeOK, KeyedEntries, KeyedTasks, [Next]_vars
    PROVE  KeyedEntries'
<1>1. boundary' = boundary
      BY Boundary DEF TypeOK
<1>2. ASSUME NEW k \in Keys, entries'[k].state \in {"live", "opening"}
      PROVE  Reusable(entries'[k].of) /\ reusable_key(entries'[k].of) = k
  <2>1. CASE entries'[k] = entries[k]
        BY <1>2, <2>1 DEF KeyedEntries
  <2>2. CASE entries'[k] \in Gone
        BY <1>2, <2>2 DEF Gone, Absent, Lost, Replaceable
  <2>3. ASSUME NEW e \in Execs, Opens(e, k) \/ Publishes(e, k)
        PROVE  Reusable(entries'[k].of) /\ reusable_key(entries'[k].of) = k
        BY <2>3 DEF KeyedTasks, Opens, Publishes, Opening, Live
  <2>. QED
        BY <2>1, <2>2, <2>3, EntryChange
<1>. QED
      BY <1>1, <1>2 DEF KeyedEntries, reusable_key, Keys

\* A task deals only with a session it may share.
LEMMA KeyedTasksStep ==
    ASSUME TypeOK, Registered, KeyedEntries, KeyedTasks, OpenedByItsTask, [Next]_vars
    PROVE  KeyedTasks'
<1> USE DEF TypeOK, KeyedTasks, Shares, reusable_key, Holding, registry
<1>1. ASSUME NEW c \in Closers, CloserAny(c)
      PROVE  KeyedTasks'
      BY <1>1, CloserKeeps
<1>2. ASSUME NEW e \in Execs,
             close(e) \/ inner_close(e)
      PROVE  KeyedTasks'
  <2>1. /\ Others(e) /\ proc[e].pc \in Closing /\ proc'[e].on = proc[e].on
        /\ proc'[e].then = proc[e].then /\ proc'[e].pc \in {"inner_close", proc[e].then}
        BY <1>2, CloseMoves DEF close, inner_close, Stays, Closing
  <2>2. \A q \in Execs : q # e => proc'[q] = proc[q]
        BY <2>1 DEF Others
  <2>3. proc[e].then \in {"returning", "open_cancelled", "open_failed"}
        BY <2>1 DEF ProcType, TaskOK, Tasks
  <2>4. /\ active' = active /\ binding' = binding /\ entries' = entries /\ boundary' = boundary
        /\ cancel' = cancel /\ closed' = closed /\ closed_runs' = closed_runs
        BY <1>2 DEF close, inner_close, registry
  <2>. QED
        BY <2>1, <2>2, <2>3, <2>4 DEF Closing
<1>3. ASSUME NEW e \in Execs,
             start(e)
      PROVE  KeyedTasks'
  <2>1. \A q \in Execs : q # e => proc'[q] = proc[q]
        BY <1>3, TaskKeeps DEF Others, TaskAny, TaskStep
  <2>2. boundary' = boundary
        BY <1>3, TaskKeeps DEF TaskAny, TaskStep
  <2>. QED
        BY <1>3, <2>1, <2>2, TaskAt DEF start, RegistryType
<1>4. ASSUME NEW e \in Execs,
             cancel_handle(e)
      PROVE  KeyedTasks'
      BY <1>4 DEF cancel_handle
<1>5. ASSUME NEW e \in Execs,
             open_session(e)
      PROVE  KeyedTasks'
  <2>1. \A q \in Execs : q # e => proc'[q] = proc[q]
        BY <1>5, TaskKeeps DEF Others, TaskAny, TaskStep
  <2>2. boundary' = boundary
        BY <1>5, TaskKeeps DEF TaskAny, TaskStep
  <2>. QED
        BY <1>5, <2>1, <2>2, TaskAt DEF open_session, RegistryType, unopened
<1>6. ASSUME NEW e \in Execs,
             drive(e)
      PROVE  KeyedTasks'
  <2>1. \A q \in Execs : q # e => proc'[q] = proc[q]
        BY <1>6, TaskKeeps DEF Others, TaskAny, TaskStep
  <2>2. boundary' = boundary
        BY <1>6, TaskKeeps DEF TaskAny, TaskStep
  <2>. QED
        BY <1>6, <2>1, <2>2, TaskAt DEF drive, finish_lease, RegistryType
<1>7. ASSUME NEW e \in Execs,
             session_dies(e)
      PROVE  KeyedTasks'
      BY <1>7 DEF session_dies
<1>8. ASSUME NEW e \in Execs,
             checkout(e)
      PROVE  KeyedTasks'
  <2>1. \A q \in Execs : q # e => proc'[q] = proc[q]
        BY <1>8, TaskKeeps DEF Others, TaskAny, TaskStep
  <2>2. boundary' = boundary /\ binding' = binding
        BY <1>8 DEF checkout
  <2>3. proc'[e].pc = "reusing" => Reusable(e) /\ Shares(e, proc'[e].on)
        BY <1>8, KeyOf, TaskAt DEF checkout, KeyedEntries, PoolType
  <2>4. proc'[e].pc \in {"opening", "returning", "reusing", "waiting"}
        BY <1>8, TaskAt DEF checkout
  <2>. QED
        BY <2>1, <2>2, <2>3, <2>4
<1>9. ASSUME NEW e \in Execs,
             wait_for_open(e)
      PROVE  KeyedTasks'
  <2>1. \A q \in Execs : q # e => proc'[q] = proc[q]
        BY <1>9, TaskKeeps DEF Others, TaskAny, TaskStep
  <2>2. boundary' = boundary
        BY <1>9, TaskKeeps DEF TaskAny, TaskStep
  <2>. QED
        BY <1>9, <2>1, <2>2, TaskAt DEF wait_for_open, RegistryType
<1>10. ASSUME NEW e \in Execs,
             reuse(e)
      PROVE  KeyedTasks'
  <2>1. \A q \in Execs : q # e => proc'[q] = proc[q]
        BY <1>10, TaskKeeps DEF Others, TaskAny, TaskStep
  <2>2. boundary' = boundary
        BY <1>10, TaskKeeps DEF TaskAny, TaskStep
  <2>. QED
        BY <1>10, <2>1, <2>2, TaskAt DEF reuse, RegistryType
<1>11. ASSUME NEW e \in Execs,
             open_cancelled(e)
      PROVE  KeyedTasks'
  <2>1. \A q \in Execs : q # e => proc'[q] = proc[q]
        BY <1>11, TaskKeeps DEF Others, TaskAny, TaskStep
  <2>2. boundary' = boundary
        BY <1>11, TaskKeeps DEF TaskAny, TaskStep
  <2>. QED
        BY <1>11, <2>1, <2>2, TaskAt DEF open_cancelled, RegistryType, unopened
<1>12. ASSUME NEW e \in Execs,
             probe(e)
      PROVE  KeyedTasks'
  <2>1. \A q \in Execs : q # e => proc'[q] = proc[q]
        BY <1>12, TaskKeeps DEF Others, TaskAny, TaskStep
  <2>2. boundary' = boundary
        BY <1>12, TaskKeeps DEF TaskAny, TaskStep
  <2>. QED
        BY <1>12, <2>1, <2>2, TaskAt DEF probe, RegistryType, unopened
<1>13. ASSUME NEW e \in Execs,
             finish_open(e)
      PROVE  KeyedTasks'
  <2>1. \A q \in Execs : q # e => proc'[q] = proc[q]
        BY <1>13, TaskKeeps DEF Others, TaskAny, TaskStep
  <2>2. boundary' = boundary
        BY <1>13, TaskKeeps DEF TaskAny, TaskStep
  <2>. QED
        BY <1>13, <2>1, <2>2, TaskAt DEF finish_open, stale_open, RegistryType
<1>14. ASSUME NEW e \in Execs,
             bind_session(e)
      PROVE  KeyedTasks'
  <2>1. \A q \in Execs : q # e => proc'[q] = proc[q]
        BY <1>14, TaskKeeps DEF Others, TaskAny, TaskStep
  <2>2. boundary' = boundary
        BY <1>14, TaskKeeps DEF TaskAny, TaskStep
  <2>. QED
        BY <1>14, <2>1, <2>2, TaskAt DEF bind_session, finish_lease, RegistryType
<1>15. ASSUME NEW e \in Execs,
             invalidate(e)
      PROVE  KeyedTasks'
  <2>1. \A q \in Execs : q # e => proc'[q] = proc[q]
        BY <1>15, TaskKeeps DEF Others, TaskAny, TaskStep
  <2>2. boundary' = boundary
        BY <1>15, TaskKeeps DEF TaskAny, TaskStep
  <2>. QED
        BY <1>15, <2>1, <2>2, TaskAt DEF invalidate, RegistryType
<1>16. ASSUME NEW e \in Execs,
             finish(e)
      PROVE  KeyedTasks'
  <2>1. \A q \in Execs : q # e => proc'[q] = proc[q]
        BY <1>16, TaskKeeps DEF Others, TaskAny, TaskStep
  <2>2. boundary' = boundary
        BY <1>16, TaskKeeps DEF TaskAny, TaskStep
  <2>. QED
        BY <1>16, <2>1, <2>2, TaskAt DEF finish, RegistryType, deregistered
<1>17. CASE UNCHANGED vars
      BY <1>17 DEF vars
<1>. QED
      BY <1>1, <1>2, <1>3, <1>4, <1>5, <1>6, <1>7, <1>8, <1>9, <1>10, <1>11, <1>12, <1>13, <1>14,
         <1>15, <1>16, <1>17 DEF Next, TaskStep, CloserStep, CloserAny

\* What a closer still has to close comes from the registry and from the pool.
LEMMA ListsChange ==
    ASSUME ProcType, NEW c \in Closers, CloserAny(c)
    PROVE  /\ \/ proc'[c].bound \subseteq proc[c].bound
              \/ \A b \in proc'[c].bound :
                     \E e \in active : binding[e] # None /\ b = <<e, binding[e]>>
           /\ \/ proc'[c].todo \subseteq proc[c].todo
              \/ /\ give_up(c, proc[c].run)
                 /\ \A x \in proc'[c].todo : \E k \in doomed(proc[c].run) : x = entries[k]
<1>1. CASE begin_close(c)
  <2> DEFINE targets == {e \in active : Covers(proc[c].run, RunOf[e])}
             bound == {<<e, binding[e]>> : e \in {t \in targets : binding[t] # None}}
  <2>1. CloserMoved(c, "cancelling", None, "none", targets, bound, {})
        BY <1>1, CloserMoves
  <2>2. \A b \in bound : \E e \in active : binding[e] # None /\ b = <<e, binding[e]>>
        OBVIOUS
  <2>3. proc'[c].bound = bound /\ proc'[c].todo = {}
        BY <2>1 DEF CloserMoved
  <2> HIDE DEF bound
  <2>. QED
        BY <2>2, <2>3
<1>2. CASE cancel_targets(c)
  <2>1. CloserMoved(c, "bindings", proc[c].on, proc[c].then, proc[c].targets, proc[c].bound,
                    proc[c].todo)
        BY <1>2, CloserMoves
  <2>. QED
        BY <2>1 DEF CloserMoved
<1>6. CASE entries_closed(c) \/ wait_for_activity(c) \/ close(c) \/ inner_close(c)
      BY <1>6, CloseMoves DEF Stays
<1>3. CASE close_bound(c)
  <2>1. PICK b \in proc[c].bound :
               CloserMoved(c, "closing", b[2], "bindings", proc[c].targets, proc[c].bound \ {b},
                           proc[c].todo)
        BY <1>3, CloserMoves
  <2>. QED
        BY <2>1 DEF CloserMoved
<1>4. CASE close_pool(c)
  <2>1. CASE give_up(c, proc[c].run)
    <3> DEFINE todo == {entries[k] : k \in doomed(proc[c].run)} \ {Replaceable, Lost}
    <3>1. CloserMoved(c, "entries", proc[c].on, proc[c].then, proc[c].targets, proc[c].bound, todo)
          BY <2>1, CloserMoves
    <3>2. \A x \in todo : \E k \in doomed(proc[c].run) : x = entries[k]
          OBVIOUS
    <3> HIDE DEF todo
    <3>. QED
          BY <2>1, <3>1, <3>2 DEF CloserMoved
  <2>2. CASE ~give_up(c, proc[c].run)
        BY <1>4, <2>2, CloseMoves DEF Stays
  <2>. QED
        BY <2>1, <2>2
<1>5. CASE close_entry(c)
  <2>1. PICK x \in proc[c].todo :
               \/ CloserMoved(c, "closing", x.of, "entries", proc[c].targets, proc[c].bound,
                              proc[c].todo \ {x})
               \/ CloserMoved(c, "entries", proc[c].on, proc[c].then, proc[c].targets,
                              proc[c].bound, proc[c].todo \ {x})
        BY <1>5, CloserMoves
  <2>. QED
        BY <2>1 DEF CloserMoved
<1>. QED
      BY <1>1, <1>2, <1>3, <1>4, <1>5, <1>6 DEF CloserAny, CloserStep

\* A closer's bindings are those of the registry, with their keys.
LEMMA KeyedBoundStep ==
    ASSUME TypeOK, KeyedTasks, KeyedBound, [Next]_vars
    PROVE  KeyedBound'
<1>1. boundary' = boundary
      BY Boundary DEF TypeOK
<1>2. ASSUME NEW c \in Closers, NEW b \in proc'[c].bound PROVE Shares(b[1], b[2])
  <2>1. ASSUME NEW d \in Closers, CloserAny(d) PROVE Shares(b[1], b[2])
    <3>1. CASE d = c
      <4>1. CASE b \in proc[c].bound
            BY <4>1 DEF KeyedBound
      <4>2. ASSUME NEW e \in active, binding[e] # None, b = <<e, binding[e]>>
            PROVE  Shares(b[1], b[2])
            BY <4>2 DEF TypeOK, RegistryType, KeyedTasks
      <4>. QED
            BY <1>2, <2>1, <3>1, <4>1, <4>2, ListsChange DEF TypeOK
    <3>2. CASE d # c
          BY <1>2, <2>1, <3>2, CloserKeeps DEF TypeOK, Others, KeyedBound
    <3>. QED
          BY <3>1, <3>2
  <2>2. ASSUME NEW e \in Execs, TaskAny(e) PROVE Shares(b[1], b[2])
        BY <1>2, <2>2, TaskKeeps DEF TypeOK, KeyedBound
  <2>3. CASE UNCHANGED vars
        BY <1>2, <2>3 DEF vars, KeyedBound
  <2>. QED
        BY <2>1, <2>2, <2>3 DEF Next, CloserAny, TaskAny
<1>. QED
      BY <1>1, <1>2 DEF KeyedBound, Shares, reusable_key

\* Once published, a session stays known.
LEMMA PublishedStays ==
    ASSUME TypeOK, NEW s \in Execs, Published(s), [Next]_vars
    PROVE  Published(s)'
<1> USE DEF TypeOK, Published, Early, registry
<1>1. ASSUME NEW c \in Closers, CloserAny(c)
      PROVE  Published(s)'
      BY <1>1, CloserKeeps
<1>2. ASSUME NEW e \in Execs,
             close(e) \/ inner_close(e)
      PROVE  Published(s)'
  <2>1. /\ Others(e) /\ proc[e].pc \in Closing /\ proc'[e].on = proc[e].on
        /\ proc'[e].then = proc[e].then /\ proc'[e].pc \in {"inner_close", proc[e].then}
        BY <1>2, CloseMoves DEF close, inner_close, Stays, Closing
  <2>2. \A q \in Execs : q # e => proc'[q] = proc[q]
        BY <2>1 DEF Others
  <2>3. proc[e].then \in {"returning", "open_cancelled", "open_failed"}
        BY <2>1 DEF ProcType, TaskOK, Tasks
  <2>4. /\ active' = active /\ binding' = binding /\ entries' = entries /\ boundary' = boundary
        /\ cancel' = cancel /\ closed' = closed /\ closed_runs' = closed_runs
        BY <1>2 DEF close, inner_close, registry
  <2>. QED
        BY <2>1, <2>2, <2>3, <2>4 DEF Closing
<1>3. ASSUME NEW e \in Execs,
             start(e)
      PROVE  Published(s)'
  <2>1. \A q \in Execs : q # e => proc'[q] = proc[q]
        BY <1>3, TaskKeeps DEF Others, TaskAny, TaskStep
  <2>. QED
        BY <1>3, <2>1, TaskAt DEF start
<1>4. ASSUME NEW e \in Execs,
             cancel_handle(e)
      PROVE  Published(s)'
      BY <1>4 DEF cancel_handle
<1>5. ASSUME NEW e \in Execs,
             open_session(e)
      PROVE  Published(s)'
  <2>1. \A q \in Execs : q # e => proc'[q] = proc[q]
        BY <1>5, TaskKeeps DEF Others, TaskAny, TaskStep
  <2>. QED
        BY <1>5, <2>1, TaskAt DEF open_session, unopened
<1>6. ASSUME NEW e \in Execs,
             drive(e)
      PROVE  Published(s)'
  <2>1. \A q \in Execs : q # e => proc'[q] = proc[q]
        BY <1>6, TaskKeeps DEF Others, TaskAny, TaskStep
  <2>. QED
        BY <1>6, <2>1, TaskAt DEF drive, finish_lease
<1>7. ASSUME NEW e \in Execs,
             session_dies(e)
      PROVE  Published(s)'
      BY <1>7 DEF session_dies
<1>8. ASSUME NEW e \in Execs,
             checkout(e)
      PROVE  Published(s)'
  <2>1. \A q \in Execs : q # e => proc'[q] = proc[q]
        BY <1>8, TaskKeeps DEF Others, TaskAny, TaskStep
  <2>. QED
        BY <1>8, <2>1, TaskAt DEF checkout
<1>9. ASSUME NEW e \in Execs,
             wait_for_open(e)
      PROVE  Published(s)'
  <2>1. \A q \in Execs : q # e => proc'[q] = proc[q]
        BY <1>9, TaskKeeps DEF Others, TaskAny, TaskStep
  <2>. QED
        BY <1>9, <2>1, TaskAt DEF wait_for_open
<1>10. ASSUME NEW e \in Execs,
             reuse(e)
      PROVE  Published(s)'
  <2>1. \A q \in Execs : q # e => proc'[q] = proc[q]
        BY <1>10, TaskKeeps DEF Others, TaskAny, TaskStep
  <2>. QED
        BY <1>10, <2>1, TaskAt DEF reuse
<1>11. ASSUME NEW e \in Execs,
             open_cancelled(e)
      PROVE  Published(s)'
  <2>1. \A q \in Execs : q # e => proc'[q] = proc[q]
        BY <1>11, TaskKeeps DEF Others, TaskAny, TaskStep
  <2>. QED
        BY <1>11, <2>1, TaskAt DEF open_cancelled, unopened
<1>12. ASSUME NEW e \in Execs,
             probe(e)
      PROVE  Published(s)'
  <2>1. \A q \in Execs : q # e => proc'[q] = proc[q]
        BY <1>12, TaskKeeps DEF Others, TaskAny, TaskStep
  <2>. QED
        BY <1>12, <2>1, TaskAt DEF probe, unopened
<1>13. ASSUME NEW e \in Execs,
             finish_open(e)
      PROVE  Published(s)'
  <2>1. \A q \in Execs : q # e => proc'[q] = proc[q]
        BY <1>13, TaskKeeps DEF Others, TaskAny, TaskStep
  <2>. QED
        BY <1>13, <2>1, TaskAt DEF finish_open, stale_open
<1>14. ASSUME NEW e \in Execs,
             bind_session(e)
      PROVE  Published(s)'
  <2>1. \A q \in Execs : q # e => proc'[q] = proc[q]
        BY <1>14, TaskKeeps DEF Others, TaskAny, TaskStep
  <2>. QED
        BY <1>14, <2>1, TaskAt DEF bind_session, finish_lease
<1>15. ASSUME NEW e \in Execs,
             invalidate(e)
      PROVE  Published(s)'
  <2>1. \A q \in Execs : q # e => proc'[q] = proc[q]
        BY <1>15, TaskKeeps DEF Others, TaskAny, TaskStep
  <2>. QED
        BY <1>15, <2>1, TaskAt DEF invalidate
<1>16. ASSUME NEW e \in Execs,
             finish(e)
      PROVE  Published(s)'
  <2>1. \A q \in Execs : q # e => proc'[q] = proc[q]
        BY <1>16, TaskKeeps DEF Others, TaskAny, TaskStep
  <2>. QED
        BY <1>16, <2>1, TaskAt DEF finish, deregistered
<1>17. CASE UNCHANGED vars
      BY <1>17 DEF vars
<1>. QED
      BY <1>1, <1>2, <1>3, <1>4, <1>5, <1>6, <1>7, <1>8, <1>9, <1>10, <1>11, <1>12, <1>13, <1>14,
         <1>15, <1>16, <1>17 DEF Next, TaskStep, CloserStep, CloserAny

\* A live entry's session was published by its opener.
LEMMA PublishedEntriesStep ==
    ASSUME TypeOK, PublishedEntries, [Next]_vars
    PROVE  PublishedEntries'
<1>1. ASSUME NEW k \in Keys, entries'[k].state = "live" PROVE Published(entries[k].of)'
  <2>1. CASE entries'[k] = entries[k]
        BY <1>1, <2>1, PublishedStays DEF PublishedEntries, TypeOK, PoolType
  <2>2. CASE entries'[k] \in Gone
        BY <1>1, <2>2 DEF Gone, Absent, Lost, Replaceable
  <2>3. ASSUME NEW e \in Execs, Opens(e, k) PROVE FALSE
        BY <1>1, <2>3 DEF Opens, Opening
  <2>4. ASSUME NEW e \in Execs, Publishes(e, k) PROVE Published(entries[k].of)'
    <3>1. goes(e, "leased", e)
          BY <2>4 DEF Publishes, finish_open, still_opening
    <3>. QED
          BY <2>4, <3>1, TaskAt DEF TypeOK, Publishes, Live, Published, Early
  <2>. QED
        BY <2>1, <2>2, <2>3, <2>4, EntryChange
<1>. QED
      BY <1>1 DEF PublishedEntries, Keys

\* A task deals only with sessions that were published, or with its own.
LEMMA PublishedToTasksStep ==
    ASSUME TypeOK, PublishedEntries, PublishedToTasks, OpenedByItsTask, [Next]_vars
    PROVE  PublishedToTasks'
<1> USE DEF TypeOK, PublishedToTasks, Published, Holding, registry
<1>0. \A s \in Execs : Published(s) => Published(s)'
      BY PublishedStays
<1>a. \A q \in Execs : proc[q].pc \in Holding => proc[q].on \in Execs
      BY DEF ProcType, TaskOK
<1>1. ASSUME NEW c \in Closers, CloserAny(c)
      PROVE  PublishedToTasks'
      BY <1>1, <1>0, <1>a, CloserKeeps
<1>2. ASSUME NEW e \in Execs,
             close(e) \/ inner_close(e)
      PROVE  PublishedToTasks'
  <2>1. /\ Others(e) /\ proc[e].pc \in Closing /\ proc'[e].on = proc[e].on
        /\ proc'[e].then = proc[e].then /\ proc'[e].pc \in {"inner_close", proc[e].then}
        BY <1>2, CloseMoves DEF close, inner_close, Stays, Closing
  <2>2. \A q \in Execs : q # e => proc'[q] = proc[q]
        BY <2>1 DEF Others
  <2>3. proc[e].then \in {"returning", "open_cancelled", "open_failed"}
        BY <2>1 DEF ProcType, TaskOK, Tasks
  <2>4. /\ active' = active /\ binding' = binding /\ entries' = entries /\ boundary' = boundary
        /\ cancel' = cancel /\ closed' = closed /\ closed_runs' = closed_runs
        BY <1>2 DEF close, inner_close, registry
  <2>. QED
        BY <2>1, <2>2, <2>3, <2>4, <1>0, <1>a DEF Closing
<1>3. ASSUME NEW e \in Execs,
             start(e)
      PROVE  PublishedToTasks'
  <2>1. \A q \in Execs : q # e => proc'[q] = proc[q]
        BY <1>3, TaskKeeps DEF Others, TaskAny, TaskStep
  <2>. QED
        BY <1>3, <2>1, TaskAt, <1>0, <1>a DEF start
<1>4. ASSUME NEW e \in Execs,
             cancel_handle(e)
      PROVE  PublishedToTasks'
      BY <1>4, <1>0, <1>a DEF cancel_handle
<1>5. ASSUME NEW e \in Execs,
             open_session(e)
      PROVE  PublishedToTasks'
  <2>1. \A q \in Execs : q # e => proc'[q] = proc[q]
        BY <1>5, TaskKeeps DEF Others, TaskAny, TaskStep
  <2>. QED
        BY <1>5, <2>1, TaskAt, <1>0, <1>a DEF open_session, unopened
<1>6. ASSUME NEW e \in Execs,
             drive(e)
      PROVE  PublishedToTasks'
  <2>1. \A q \in Execs : q # e => proc'[q] = proc[q]
        BY <1>6, TaskKeeps DEF Others, TaskAny, TaskStep
  <2>. QED
        BY <1>6, <2>1, TaskAt, <1>0, <1>a DEF drive, finish_lease
<1>7. ASSUME NEW e \in Execs,
             session_dies(e)
      PROVE  PublishedToTasks'
      BY <1>7, <1>0, <1>a DEF session_dies
<1>8. ASSUME NEW e \in Execs,
             checkout(e)
      PROVE  PublishedToTasks'
  <2>1. \A q \in Execs : q # e => proc'[q] = proc[q]
        BY <1>8, TaskKeeps DEF Others, TaskAny, TaskStep
  <2>2. proc'[e].pc = "reusing" => Published(proc'[e].on) /\ proc'[e].on \in Execs
        BY <1>8, KeyOf, TaskAt DEF checkout, PublishedEntries, PoolType
  <2>3. proc'[e].pc \in {"opening", "returning", "reusing", "waiting"}
        BY <1>8, TaskAt DEF checkout
  <2>. QED
        BY <1>0, <1>a, <2>1, <2>2, <2>3
<1>9. ASSUME NEW e \in Execs,
             wait_for_open(e)
      PROVE  PublishedToTasks'
  <2>1. \A q \in Execs : q # e => proc'[q] = proc[q]
        BY <1>9, TaskKeeps DEF Others, TaskAny, TaskStep
  <2>. QED
        BY <1>9, <2>1, TaskAt, <1>0, <1>a DEF wait_for_open
<1>10. ASSUME NEW e \in Execs,
             reuse(e)
      PROVE  PublishedToTasks'
  <2>1. \A q \in Execs : q # e => proc'[q] = proc[q]
        BY <1>10, TaskKeeps DEF Others, TaskAny, TaskStep
  <2>. QED
        BY <1>10, <2>1, TaskAt, <1>0, <1>a DEF reuse
<1>11. ASSUME NEW e \in Execs,
             open_cancelled(e)
      PROVE  PublishedToTasks'
  <2>1. \A q \in Execs : q # e => proc'[q] = proc[q]
        BY <1>11, TaskKeeps DEF Others, TaskAny, TaskStep
  <2>. QED
        BY <1>11, <2>1, TaskAt, <1>0, <1>a DEF open_cancelled, unopened
<1>12. ASSUME NEW e \in Execs,
             probe(e)
      PROVE  PublishedToTasks'
  <2>1. \A q \in Execs : q # e => proc'[q] = proc[q]
        BY <1>12, TaskKeeps DEF Others, TaskAny, TaskStep
  <2>. QED
        BY <1>12, <2>1, TaskAt, <1>0, <1>a DEF probe, unopened, Early
<1>13. ASSUME NEW e \in Execs,
             finish_open(e)
      PROVE  PublishedToTasks'
  <2>1. \A q \in Execs : q # e => proc'[q] = proc[q]
        BY <1>13, TaskKeeps DEF Others, TaskAny, TaskStep
  <2>. QED
        BY <1>13, <2>1, TaskAt, <1>0, <1>a DEF finish_open, stale_open, Early
<1>14. ASSUME NEW e \in Execs,
             bind_session(e)
      PROVE  PublishedToTasks'
  <2>1. \A q \in Execs : q # e => proc'[q] = proc[q]
        BY <1>14, TaskKeeps DEF Others, TaskAny, TaskStep
  <2>. QED
        BY <1>14, <2>1, TaskAt, <1>0, <1>a DEF bind_session, finish_lease
<1>15. ASSUME NEW e \in Execs,
             invalidate(e)
      PROVE  PublishedToTasks'
  <2>1. \A q \in Execs : q # e => proc'[q] = proc[q]
        BY <1>15, TaskKeeps DEF Others, TaskAny, TaskStep
  <2>. QED
        BY <1>15, <2>1, TaskAt, <1>0, <1>a DEF invalidate
<1>16. ASSUME NEW e \in Execs,
             finish(e)
      PROVE  PublishedToTasks'
  <2>1. \A q \in Execs : q # e => proc'[q] = proc[q]
        BY <1>16, TaskKeeps DEF Others, TaskAny, TaskStep
  <2>. QED
        BY <1>16, <2>1, TaskAt, <1>0, <1>a DEF finish, deregistered
<1>17. CASE UNCHANGED vars
      BY <1>17 DEF vars, Published
<1>. QED
      BY <1>1, <1>2, <1>3, <1>4, <1>5, <1>6, <1>7, <1>8, <1>9, <1>10, <1>11, <1>12, <1>13, <1>14,
         <1>15, <1>16, <1>17 DEF Next, TaskStep, CloserStep, CloserAny

\* A session is bound only once it is published.
LEMMA PublishedBindingsStep ==
    ASSUME TypeOK, PublishedToTasks, PublishedBindings, [Next]_vars
    PROVE  PublishedBindings'
<1>1. \A s \in Execs : Published(s) => Published(s)'
      BY PublishedStays
<1>2. ASSUME NEW e \in Execs
      PROVE  \/ binding'[e] \in {binding[e], None}
             \/ proc[e].pc = "leased" /\ binding'[e] = proc[e].on
  <2>1. ASSUME NEW c \in Closers, CloserAny(c) PROVE binding' = binding
        BY <2>1, CloserKeeps DEF TypeOK
  <2>2. ASSUME NEW q \in Execs, TaskAny(q) PROVE binding' = binding \/ bind_session(q) \/ finish(q)
        BY <2>2
        DEF TaskAny, TaskStep, start, cancel_handle, open_session, drive, session_dies, checkout,
            wait_for_open, reuse, open_cancelled, probe, finish_open, invalidate, close,
            inner_close, registry
  <2>3. ASSUME NEW q \in Execs, bind_session(q) \/ finish(q)
        PROVE  \/ binding'[e] \in {binding[e], None}
               \/ proc[e].pc = "leased" /\ binding'[e] = proc[e].on
        BY <2>3 DEF bind_session, finish, TypeOK, RegistryType
  <2>. QED
        BY <2>1, <2>2, <2>3 DEF Next, TaskAny, CloserAny, vars
<1>3. ASSUME NEW e \in Execs, binding'[e] # None PROVE Published(binding[e])'
  <2>1. CASE binding'[e] = binding[e]
        BY <1>1, <1>3, <2>1 DEF PublishedBindings, Published, TypeOK, RegistryType
  <2>2. CASE proc[e].pc = "leased" /\ binding'[e] = proc[e].on
        BY <1>1, <2>2 DEF PublishedToTasks, Published, Holding, TypeOK, ProcType, TaskOK
  <2>. QED
        BY <1>2, <1>3, <2>1, <2>2
<1>. QED
      BY <1>3 DEF PublishedBindings, None

\* A closer deals only with sessions that were published.
LEMMA PublishedToClosersStep ==
    ASSUME TypeOK, PublishedEntries, PublishedBindings, PublishedToClosers, [Next]_vars
    PROVE  PublishedToClosers'
<1>0. \A s \in Execs : Published(s) => Published(s)'
      BY PublishedStays
<1>1. ASSUME NEW c \in Closers, proc'[c] = proc[c]
      PROVE  /\ proc'[c].pc \in Closing => Published(proc[c].on)'
             /\ \A b \in proc'[c].bound : Published(b[2])'
             /\ \A x \in proc'[c].todo : x.state = "live" => Published(x.of)'
  <2>1. CloserOK(proc[c])
        BY DEF TypeOK, ProcType
  <2>. QED
        BY <1>0, <1>1, <2>1 DEF PublishedToClosers, CloserOK, CloserStates
<1>2. ASSUME NEW c \in Closers, CloserAny(c)
      PROVE  /\ proc'[c].pc \in Closing => Published(proc[c].on)'
             /\ \A b \in proc'[c].bound : Published(b[2])'
             /\ \A x \in proc'[c].todo : x.state = "live" => Published(x.of)'
  <2>1. CloserOK(proc[c])
        BY DEF TypeOK, ProcType
  <2>2. ASSUME NEW b \in proc'[c].bound PROVE Published(b[2])'
    <3>1. CASE b \in proc[c].bound
          BY <1>0, <2>1, <3>1 DEF PublishedToClosers, CloserOK, CloserStates
    <3>2. ASSUME NEW e \in active, binding[e] # None, b = <<e, binding[e]>> PROVE Published(b[2])'
          BY <1>0, <3>2 DEF TypeOK, RegistryType, PublishedBindings
    <3>. QED
          BY <1>2, <2>2, <3>1, <3>2, ListsChange DEF TypeOK
  <2>3. ASSUME NEW x \in proc'[c].todo, x.state = "live" PROVE Published(x.of)'
    <3>1. CASE x \in proc[c].todo
          BY <1>0, <2>1, <2>3, <3>1 DEF PublishedToClosers, CloserOK
    <3>2. ASSUME NEW k \in Keys, x = entries[k] PROVE Published(x.of)'
          BY <1>0, <2>3, <3>2 DEF PublishedEntries, TypeOK, PoolType
    <3>. QED
          BY <1>2, <2>3, <3>1, <3>2, ListsChange DEF TypeOK, doomed
  <2>4. ASSUME proc'[c].pc \in Closing PROVE Published(proc[c].on)'
    <3>1. CASE close(c) \/ inner_close(c)
          BY <1>0, <2>1, <3>1, CloseMoves
          DEF TypeOK, close, inner_close, Stays, Closing, PublishedToClosers, CloserOK
    <3>2. CASE close_bound(c)
      <4>1. PICK b \in proc[c].bound :
                   CloserMoved(c, "closing", b[2], "bindings", proc[c].targets, proc[c].bound \ {b},
                               proc[c].todo)
            BY <3>2, CloserMoves DEF TypeOK
      <4>2. proc'[c].on = b[2] /\ b[2] \in Execs
            BY <2>1, <4>1 DEF CloserMoved, CloserOK, CloserStates
      <4>. QED
            BY <1>0, <4>2 DEF PublishedToClosers
    <3>3. CASE close_entry(c)
      <4>1. PICK x \in proc[c].todo :
                   \/ /\ x.state = "live"
                      /\ CloserMoved(c, "closing", x.of, "entries", proc[c].targets, proc[c].bound,
                                     proc[c].todo \ {x})
                   \/ CloserMoved(c, "entries", proc[c].on, proc[c].then, proc[c].targets,
                                  proc[c].bound, proc[c].todo \ {x})
            BY <3>3, CloserMoves DEF TypeOK
      <4>2. x.state = "live" /\ proc'[c].on = x.of
            BY <2>4, <4>1 DEF CloserMoved, Closing
      <4>. QED
            BY <1>0, <2>1, <4>2 DEF PublishedToClosers, CloserOK
    <3>4. CASE begin_close(c) \/ cancel_targets(c) \/ close_pool(c) \/ entries_closed(c)
                 \/ wait_for_activity(c)
      <4>1. \A pc, on, then, targets, bound, todo :
                CloserMoved(c, pc, on, then, targets, bound, todo) => proc'[c].pc = pc
            BY DEF CloserMoved
      <4>2. proc'[c].pc \in {"cancelling", "bindings", "entries", "awaiting", "returned"}
            BY <3>4, <4>1, CloserMoves, CloseMoves DEF TypeOK
      <4>. QED
            BY <2>4, <4>2 DEF Closing
    <3>. QED
          BY <1>2, <3>1, <3>2, <3>3, <3>4 DEF CloserAny, CloserStep
  <2>. QED
        BY <2>2, <2>3, <2>4
<1>3. ASSUME NEW c \in Closers
      PROVE  /\ proc'[c].pc \in Closing => Published(proc[c].on)'
             /\ \A b \in proc'[c].bound : Published(b[2])'
             /\ \A x \in proc'[c].todo : x.state = "live" => Published(x.of)'
  <2>1. CloserAny(c) \/ proc'[c] = proc[c]
        BY TaskKeeps, CloserKeeps DEF TypeOK, Next, TaskAny, CloserAny, Others, vars
  <2>. QED
        BY <1>1, <1>2, <2>1
<1>. QED
      BY <1>3 DEF PublishedToClosers

-----------------------------------------------------------------------------
(* Sessions *)

\* What can become of a session, and by whom.
Closes(p, s) ==
    /\ proc[p].on = s
    /\ \/ close(p) /\ proc[p].pc = "closing" /\ Unclosed(s) /\ session'[s] = "closing"
       \/ inner_close(p) /\ proc[p].pc = "inner_close" /\ session'[s] = "closed"

\* A session changes only by dying, by being opened, or by one of those who close it.
LEMMA SessionChange ==
    ASSUME TypeOK, [Next]_vars, NEW s \in Execs
    PROVE  \/ session'[s] = session[s]
           \/ session[s] = "open" /\ session'[s] = "dead"
           \/ open_session(s) /\ proc[s].pc = "opening" /\ session'[s] = "open"
           \/ \E p \in Execs \cup Closers : Closes(p, s)
<1>0. session \in [Execs -> {"none", "open", "dead", "closing", "closed"}]
      BY DEF TypeOK, PoolType
<1>1. ASSUME NEW p \in Execs \cup Closers, close(p) \/ inner_close(p)
      PROVE  session'[s] = session[s] \/ Closes(p, s)
      BY <1>0, <1>1 DEF close, inner_close, Closes
<1>2. ASSUME NEW e \in Execs, open_session(e)
      PROVE  session'[s] = session[s] \/ (e = s /\ proc[s].pc = "opening" /\ session'[s] = "open")
      BY <1>0, <1>2 DEF open_session
<1>3. ASSUME NEW e \in Execs, session_dies(e)
      PROVE  session'[s] = session[s] \/ (session[s] = "open" /\ session'[s] = "dead")
      BY <1>0, <1>3 DEF session_dies
<1>4. ASSUME NEW e \in Execs,
             \/ start(e) \/ cancel_handle(e) \/ drive(e) \/ checkout(e) \/ wait_for_open(e)
             \/ reuse(e) \/ open_cancelled(e) \/ probe(e) \/ finish_open(e) \/ bind_session(e)
             \/ invalidate(e) \/ finish(e)
      PROVE  session' = session
      BY <1>4
      DEF start, cancel_handle, drive, checkout, wait_for_open, reuse, open_cancelled, probe,
          finish_open, bind_session, invalidate, finish
<1>5. ASSUME NEW c \in Closers,
             \/ begin_close(c) \/ cancel_targets(c) \/ close_bound(c) \/ close_pool(c)
             \/ close_entry(c) \/ entries_closed(c) \/ wait_for_activity(c)
      PROVE  session' = session
      BY <1>5
      DEF begin_close, cancel_targets, close_bound, close_pool, close_entry, entries_closed,
          wait_for_activity
<1>. QED
      BY <1>1, <1>2, <1>3, <1>4, <1>5 DEF Next, TaskStep, CloserStep, vars

\* Where a task may come from to the places before its session is published.
LEMMA EarlyMoves ==
    ASSUME TypeOK, [Next]_vars, NEW e \in Execs, proc'[e].pc \in Early
    PROVE  \/ proc'[e] = proc[e]
           \/ /\ proc[e].pc \in Early \ {"probing", "opened"}
              /\ proc'[e].pc \in Early \ {"probing", "opened"} /\ session' = session
           \/ open_session(e) /\ proc'[e].pc = "probing" /\ proc'[e].on = e /\ session'[e] = "open"
           \/ probe(e) /\ proc[e].pc = "probing" /\ proc'[e].pc = "opened" /\ proc'[e].on = e
<1>1. ASSUME NEW c \in Closers, CloserAny(c) PROVE proc'[e] = proc[e]
      BY <1>1, CloserKeeps DEF TypeOK
<1>2. ASSUME NEW q \in Execs, TaskAny(q), q # e PROVE proc'[e] = proc[e]
      BY <1>2, TaskKeeps DEF TypeOK, Others
<1>3. CASE TaskAny(e)
  <2>1. CASE start(e) \/ checkout(e) \/ wait_for_open(e)
        BY <2>1, TaskAt DEF TypeOK, start, checkout, wait_for_open, Early
  <2>2. CASE open_session(e)
        BY <2>2, TaskAt DEF TypeOK, PoolType, open_session, unopened, Early
  <2>3. CASE probe(e)
        BY <2>3, TaskAt DEF TypeOK, probe, unopened, Early
  <2>4. CASE \/ reuse(e) \/ open_cancelled(e) \/ finish_open(e) \/ bind_session(e) \/ drive(e)
             \/ invalidate(e) \/ finish(e)
        BY <2>4, TaskAt
        DEF TypeOK, reuse, open_cancelled, unopened, finish_open, stale_open, bind_session,
            finish_lease, drive, invalidate, finish, Early
  <2>5. CASE cancel_handle(e) \/ session_dies(e)
        BY <2>5 DEF cancel_handle, session_dies
  <2>6. CASE close(e) \/ inner_close(e)
    <3>1. proc[e].pc \in Closing /\ proc'[e].pc \in {"inner_close", proc[e].then}
          BY <2>6, CloseMoves DEF TypeOK, close, inner_close, Closing
    <3>2. proc[e].then \in {"returning", "open_cancelled", "open_failed"}
          BY <3>1 DEF TypeOK, ProcType, TaskOK, Tasks
    <3>. QED
          BY <3>1, <3>2 DEF Early
  <2>. QED
        BY <1>3, <2>1, <2>2, <2>3, <2>4, <2>5, <2>6 DEF TaskAny, TaskStep
<1>4. CASE UNCHANGED vars
      BY <1>4 DEF vars
<1>. QED
      BY <1>1, <1>2, <1>3, <1>4 DEF Next, TaskAny, CloserAny

\* A session is its opener's alone until it is published: nobody else can close it.
LEMMA OpenedByItsTaskStep ==
    ASSUME TypeOK, PublishedToTasks, PublishedToClosers, OpenedByItsTask, [Next]_vars
    PROVE  OpenedByItsTask'
<1>1. ASSUME NEW e \in Execs, proc'[e].pc \in Early
      PROVE  /\ proc'[e].pc \in {"probing", "opened"} => proc'[e].on = e /\ Unclosed(e)'
             /\ proc'[e].pc \notin {"probing", "opened"} => session'[e] = "none"
  <2>1. ASSUME proc[e].pc \in Early, NEW p \in Execs \cup Closers PROVE ~Closes(p, e)
        BY <2>1 DEF Closes, PublishedToTasks, PublishedToClosers, Published, Holding, Closing
  <2>2. CASE proc'[e] = proc[e]
        BY <1>1, <2>1, <2>2, SessionChange, TaskAt
        DEF TypeOK, OpenedByItsTask, Unclosed, open_session, unopened
  <2>3. CASE /\ proc[e].pc \in Early \ {"probing", "opened"}
             /\ proc'[e].pc \in Early \ {"probing", "opened"} /\ session' = session
        BY <2>3 DEF OpenedByItsTask
  <2>4. CASE open_session(e) /\ proc'[e].pc = "probing" /\ proc'[e].on = e /\ session'[e] = "open"
        BY <2>4 DEF Unclosed
  <2>5. CASE probe(e) /\ proc[e].pc = "probing" /\ proc'[e].pc = "opened" /\ proc'[e].on = e
        BY <2>5 DEF probe, OpenedByItsTask, Unclosed
  <2>. QED
        BY <1>1, <2>2, <2>3, <2>4, <2>5, EarlyMoves
<1>. QED
      BY <1>1 DEF OpenedByItsTask, Early, Unclosed

\* A published session that is out of the pool stays out.
LEMMA OffStays ==
    ASSUME TypeOK, [Next]_vars, NEW s \in Execs, Published(s), Off(s)
    PROVE  Off(s)'
<1>1. ASSUME NEW k \in Keys PROVE entries'[k] # Live(s)
  <2>1. entries'[k] \in Gone => entries'[k] # Live(s)
        BY DEF Gone, Absent, Lost, Replaceable, Live
  <2>2. ASSUME NEW e \in Execs, Opens(e, k) PROVE entries'[k] # Live(s)
        BY <2>2 DEF Opens, Opening, Live
  <2>3. ASSUME NEW e \in Execs, Publishes(e, k) PROVE entries'[k] # Live(s)
        BY <2>3 DEF Publishes, Live, Published, Early
  <2>. QED
        BY <2>1, <2>2, <2>3, EntryChange DEF Off
<1>. QED
      BY <1>1 DEF Off, Keys, Live

\* Where a task comes from to close a session.
LEMMA ClosingMoves ==
    ASSUME TypeOK, [Next]_vars, NEW e \in Execs, proc'[e].pc = "closing"
    PROVE  \/ proc'[e] = proc[e]
           \/ /\ proc[e].pc \in {"probing", "opened"} /\ proc'[e].on = e /\ entries' = entries
           \/ /\ ~Reusable(e) /\ proc[e].pc \in {"leased", "driving"} /\ proc'[e].on = proc[e].on
              /\ entries' = entries
           \/ /\ proc[e].pc \in {"losing", "replacing"} /\ proc'[e].on = proc[e].on
              /\ invalidate(e)
<1>1. ASSUME NEW c \in Closers, CloserAny(c) PROVE proc'[e] = proc[e]
      BY <1>1, CloserKeeps DEF TypeOK
<1>2. ASSUME NEW q \in Execs, TaskAny(q), q # e PROVE proc'[e] = proc[e]
      BY <1>2, TaskKeeps DEF TypeOK, Others
<1>3. CASE TaskAny(e)
  <2>1. CASE \/ start(e) \/ checkout(e) \/ wait_for_open(e) \/ open_session(e) \/ reuse(e)
             \/ open_cancelled(e) \/ finish(e)
        BY <2>1, TaskAt
        DEF TypeOK, start, checkout, wait_for_open, open_session, unopened, reuse, open_cancelled,
            finish
  <2>2. CASE cancel_handle(e) \/ session_dies(e)
        BY <2>2 DEF cancel_handle, session_dies
  <2>3. CASE probe(e) \/ finish_open(e)
        BY <2>3, TaskAt DEF TypeOK, probe, finish_open, stale_open
  <2>4. CASE bind_session(e) \/ drive(e)
        BY <2>4, TaskAt DEF TypeOK, bind_session, drive, finish_lease
  <2>5. CASE invalidate(e)
        BY <2>5, TaskAt DEF TypeOK, invalidate
  <2>6. CASE close(e) \/ inner_close(e)
    <3>1. proc[e].pc \in Closing /\ proc'[e].pc \in {"inner_close", proc[e].then}
          BY <2>6, CloseMoves DEF TypeOK, close, inner_close, Closing
    <3>2. proc[e].then \in {"returning", "open_cancelled", "open_failed"}
          BY <3>1 DEF TypeOK, ProcType, TaskOK, Tasks
    <3>. QED
          BY <3>1, <3>2
  <2>. QED
        BY <1>3, <2>1, <2>2, <2>3, <2>4, <2>5, <2>6 DEF TaskAny, TaskStep
<1>4. CASE UNCHANGED vars
      BY <1>4 DEF vars
<1>. QED
      BY <1>1, <1>2, <1>3, <1>4 DEF Next, TaskAny, CloserAny

\* invalidate takes a session out of the one entry it may be in.
LEMMA Invalidated ==
    ASSUME TypeOK, KeyedEntries, NEW e \in Execs, NEW s \in Execs, Reusable(e), Shares(e, s),
           NEW next \in Gone, entries' = invalidated(reusable_key(e), s, next)
    PROVE  Off(s)'
<1>1. ASSUME NEW k \in Keys, entries[k] = Live(s) PROVE k = reusable_key(e)
      BY <1>1 DEF KeyedEntries, Live, Shares
<1>2. ASSUME NEW k \in Keys PROVE entries'[k] # Live(s)
      BY <1>1, <1>2 DEF invalidated, Gone, Absent, Lost, Replaceable, Live, TypeOK, PoolType
<1>. QED
      BY <1>2 DEF Off, Keys, Live

\* A closer's list of entries, after any step.
LEMMA Listed ==
    ASSUME TypeOK, [Next]_vars, NEW c \in Closers, NEW x \in proc'[c].todo
    PROVE  \/ x \in proc[c].todo
           \/ give_up(c, proc[c].run) /\ \E k \in doomed(proc[c].run) : x = entries[k]
<1>1. CloserAny(c) \/ proc'[c] = proc[c]
      BY TaskKeeps, CloserKeeps DEF TypeOK, Next, TaskAny, CloserAny, Others, vars
<1>. QED
      BY <1>1, ListsChange DEF TypeOK

\* Where a closer comes from to close a session.
LEMMA CloserClosing ==
    ASSUME TypeOK, [Next]_vars, NEW c \in Closers, proc'[c].pc = "closing"
    PROVE  proc'[c] = proc[c] \/ close_bound(c) \/ close_entry(c)
<1>1. CloserAny(c) \/ proc'[c] = proc[c]
      BY TaskKeeps, CloserKeeps DEF TypeOK, Next, TaskAny, CloserAny, Others, vars
<1>2. CASE close(c) \/ inner_close(c)
  <2>1. proc[c].pc \in Closing /\ proc'[c].pc \in {"inner_close", proc[c].then}
        BY <1>2, CloseMoves DEF TypeOK, close, inner_close, Closing
  <2>2. proc[c].then \in {"bindings", "entries"}
        BY <2>1 DEF TypeOK, ProcType, CloserOK, CloserStates
  <2>. QED
        BY <2>1, <2>2
<1>3. CASE begin_close(c) \/ cancel_targets(c) \/ close_pool(c) \/ entries_closed(c)
             \/ wait_for_activity(c)
  <2>1. \A pc, on, then, targets, bound, todo :
            CloserMoved(c, pc, on, then, targets, bound, todo) => proc'[c].pc = pc
        BY DEF CloserMoved
  <2>2. proc'[c].pc \in {"cancelling", "bindings", "entries", "awaiting", "returned"}
        BY <1>3, <2>1, CloserMoves, CloseMoves DEF TypeOK
  <2>. QED
        BY <2>2
<1>. QED
      BY <1>1, <1>2, <1>3 DEF CloserAny, CloserStep

\* The pool does not offer what a task closes.
LEMMA OffTasksStep ==
    ASSUME TypeOK, KeyedEntries, KeyedTasks, PublishedEntries, PublishedToTasks, OpenedByItsTask,
           OffTasks, [Next]_vars
    PROVE  OffTasks'
<1>1. ASSUME NEW e \in Execs, proc'[e].pc = "closing" PROVE Off(proc[e].on)'
  <2>1. CASE proc'[e] = proc[e]
    <3>1. proc[e].on \in Execs /\ Published(proc[e].on) /\ Off(proc[e].on)
          BY <1>1, <2>1 DEF TypeOK, ProcType, TaskOK, Holding, PublishedToTasks, OffTasks
    <3>. QED
          BY <2>1, <3>1, OffStays DEF Off
  <2>2. CASE proc[e].pc \in {"probing", "opened"} /\ proc'[e].on = e /\ entries' = entries
        BY <2>2 DEF PublishedEntries, Published, Early, Off, Live, Keys
  <2>3. CASE /\ ~Reusable(e) /\ proc[e].pc \in {"leased", "driving"} /\ proc'[e].on = proc[e].on
             /\ entries' = entries
    <3>1. proc[e].on = e
          BY <2>3 DEF KeyedTasks, Shares, Holding
    <3>. QED
          BY <2>3, <3>1 DEF KeyedEntries, Off, Live, Keys
  <2>4. CASE proc[e].pc \in {"losing", "replacing"} /\ proc'[e].on = proc[e].on /\ invalidate(e)
    <3>1. Reusable(e) /\ Shares(e, proc[e].on) /\ proc[e].on \in Execs
          BY <2>4 DEF KeyedTasks, Holding, TypeOK, ProcType, TaskOK
    <3>2. \E next \in Gone : entries' = invalidated(reusable_key(e), proc[e].on, next)
          BY <2>4 DEF invalidate, Gone
    <3>. QED
          BY <2>4, <3>1, <3>2, Invalidated DEF Off
  <2>. QED
        BY <1>1, <2>1, <2>2, <2>3, <2>4, ClosingMoves
<1>. QED
      BY <1>1 DEF OffTasks

\* Nor what a closer closes, or has taken out to close.
LEMMA OffClosersStep ==
    ASSUME TypeOK, KeyedEntries, KeyedBound, PublishedToClosers, OffClosers, [Next]_vars
    PROVE  OffClosers'
<1>1. ASSUME NEW s \in Execs, Published(s), Off(s) PROVE Off(s)'
      BY <1>1, OffStays
<1>2. ASSUME NEW c \in Closers, NEW x \in proc'[c].todo, x.state = "live" PROVE Off(x.of)'
  <2>1. CASE x \in proc[c].todo
    <3>1. x.of \in Execs /\ Published(x.of) /\ Off(x.of)
          BY <1>2, <2>1 DEF TypeOK, ProcType, CloserOK, PublishedToClosers, OffClosers
    <3>. QED
          BY <1>1, <3>1
  <2>2. ASSUME give_up(c, proc[c].run), NEW k \in doomed(proc[c].run), x = entries[k]
        PROVE  Off(x.of)'
    <3>1. x.of \in Execs /\ k \in Keys
          BY <1>2, <2>2 DEF TypeOK, PoolType, doomed
    <3>2. ASSUME NEW j \in Keys, entries[j] = Live(x.of) PROVE j = k
          BY <1>2, <2>2, <3>1, <3>2 DEF KeyedEntries, Live
    <3>3. ASSUME NEW j \in Keys PROVE entries'[j] # Live(x.of)
          BY <2>2, <3>2 DEF give_up, Lost, Live
    <3>. QED
          BY <3>3 DEF Off, Keys, Live
  <2>. QED
        BY <1>2, <2>1, <2>2, Listed
<1>3. ASSUME NEW c \in Closers, proc'[c].pc = "closing" PROVE Off(proc[c].on)'
  <2>0. CloserOK(proc[c])
        BY DEF TypeOK, ProcType
  <2>1. CASE proc'[c] = proc[c]
    <3>1. proc[c].on \in Execs /\ Published(proc[c].on) /\ Off(proc[c].on)
          BY <1>3, <2>0, <2>1 DEF CloserOK, Closing, PublishedToClosers, OffClosers
    <3>. QED
          BY <1>1, <2>1, <3>1 DEF Off
  <2>2. CASE close_bound(c)
    <3>1. PICK b \in proc[c].bound :
                 /\ CloserMoved(c, "closing", b[2], "bindings", proc[c].targets,
                                proc[c].bound \ {b}, proc[c].todo)
                 /\ entries' = IF Reusable(b[1])
                               THEN invalidated(reusable_key(b[1]), b[2],
                                          IF proc[c].run = Everything THEN Lost ELSE Replaceable)
                               ELSE entries
          BY <2>2, CloserMoves DEF TypeOK
    <3>2. b[1] \in Execs /\ b[2] \in Execs /\ Shares(b[1], b[2]) /\ proc'[c].on = b[2]
          BY <2>0, <3>1 DEF CloserOK, CloserStates, CloserMoved, KeyedBound
    <3>3. CASE Reusable(b[1])
      <4>1. \E next \in Gone : entries' = invalidated(reusable_key(b[1]), b[2], next)
            BY <3>1, <3>3 DEF Gone
      <4>. QED
            BY <3>2, <3>3, <4>1, Invalidated DEF Off
    <3>4. CASE ~Reusable(b[1])
      <4>1. Off(b[2]) /\ entries' = entries
            BY <3>1, <3>2, <3>4 DEF Shares, KeyedEntries, Off, Live
      <4>. QED
            BY <3>2, <4>1 DEF Off, Keys, Live
    <3>. QED
          BY <3>3, <3>4
  <2>3. CASE close_entry(c)
    <3>1. PICK x \in proc[c].todo :
                 \/ /\ x.state = "live"
                    /\ CloserMoved(c, "closing", x.of, "entries", proc[c].targets, proc[c].bound,
                                   proc[c].todo \ {x})
                 \/ CloserMoved(c, "entries", proc[c].on, proc[c].then, proc[c].targets,
                                proc[c].bound, proc[c].todo \ {x})
          BY <2>3, CloserMoves DEF TypeOK
    <3>2. x.state = "live" /\ proc'[c].on = x.of
          BY <1>3, <3>1 DEF CloserMoved
    <3>3. x.of \in Execs /\ Published(x.of) /\ Off(x.of)
          BY <2>0, <3>2 DEF CloserOK, PublishedToClosers, OffClosers
    <3>. QED
          BY <1>1, <3>2, <3>3 DEF Off
  <2>. QED
        BY <1>3, <2>1, <2>2, <2>3, CloserClosing
<1>. QED
      BY <1>2, <1>3 DEF OffClosers

\* Who is closing a session goes on until it is closed, and nobody joins them unannounced.
LEMMA InnerMoves ==
    ASSUME TypeOK, [Next]_vars, NEW p \in Execs \cup Closers
    PROVE  /\ proc[p].pc = "inner_close" => proc'[p] = proc[p] \/ inner_close(p)
           /\ proc'[p].pc = "inner_close" =>
                  \/ proc'[p] = proc[p]
                  \/ /\ Closes(p, proc[p].on) /\ session'[proc[p].on] = "closing"
                     /\ proc'[p].on = proc[p].on
<1>1. CASE p \in Execs
  <2>1. CASE TaskAny(p)
    <3>1. CASE close(p) \/ inner_close(p)
      <4>1. TaskOK(proc[p]) /\ proc[p].pc \in Closing
            BY <1>1, <3>1 DEF TypeOK, ProcType, close, inner_close, Closing
      <4>2. proc[p].then # "inner_close" /\ proc[p].on \in Execs
            BY <4>1 DEF TaskOK, Tasks, Holding, Closing
      <4>. QED
            BY <3>1, <4>2, CloseMoves
            DEF TypeOK, PoolType, close, inner_close, Stays, Closes
    <3>2. CASE ~(close(p) \/ inner_close(p))
          BY <1>1, <2>1, <3>2, TaskAt
          DEF TypeOK, TaskAny, TaskStep, start, cancel_handle, open_session, unopened, drive,
              session_dies, checkout, wait_for_open, reuse, open_cancelled, probe, finish_open,
              stale_open, bind_session, finish_lease, invalidate, finish
    <3>. QED
          BY <3>1, <3>2
  <2>2. CASE ~TaskAny(p)
        BY <1>1, <2>2, TaskKeeps, CloserKeeps
        DEF TypeOK, Next, TaskAny, CloserAny, Others, vars
  <2>. QED
        BY <2>1, <2>2
<1>2. CASE p \in Closers
  <2>1. CASE CloserAny(p)
    <3>1. CASE close(p) \/ inner_close(p)
      <4>1. CloserOK(proc[p]) /\ proc[p].pc \in Closing
            BY <1>2, <3>1 DEF TypeOK, ProcType, close, inner_close, Closing
      <4>2. proc[p].then # "inner_close" /\ proc[p].on \in Execs
            BY <4>1 DEF CloserOK, CloserStates
      <4>. QED
            BY <3>1, <4>2, CloseMoves
            DEF TypeOK, PoolType, close, inner_close, Stays, Closes
    <3>2. CASE ~(close(p) \/ inner_close(p))
      <4>1. \A pc, on, then, targets, bound, todo :
                CloserMoved(p, pc, on, then, targets, bound, todo) => proc'[p].pc = pc
            BY DEF CloserMoved
      <4>2. proc'[p].pc # "inner_close"
            BY <1>2, <2>1, <3>2, <4>1, CloserMoves, CloseMoves DEF TypeOK, CloserAny, CloserStep
      <4>3. proc[p].pc # "inner_close"
            BY <2>1, <3>2
            DEF CloserAny, CloserStep, begin_close, cancel_targets, close_bound, close_pool,
                close_entry, entries_closed, wait_for_activity
      <4>. QED
            BY <4>2, <4>3
    <3>. QED
          BY <3>1, <3>2
  <2>2. CASE ~CloserAny(p)
        BY <1>2, <2>2, TaskKeeps, CloserKeeps
        DEF TypeOK, Next, TaskAny, CloserAny, Others, vars
  <2>. QED
        BY <2>1, <2>2
<1>. QED
      BY <1>1, <1>2

\* A session that is closing is attended until it is closed.
LEMMA ClosingAttendedStep ==
    ASSUME TypeOK, OpenedByItsTask, ClosingAttended, [Next]_vars
    PROVE  ClosingAttended'
<1>1. ASSUME NEW s \in Execs, session'[s] = "closing" PROVE Attended(s)'
  <2>1. CASE session[s] = "closing"
    <3>1. PICK p \in Execs \cup Closers : proc[p].pc = "inner_close" /\ proc[p].on = s
          BY <2>1 DEF ClosingAttended, Attended
    <3>2. ~inner_close(p)
          BY <1>1, <3>1 DEF inner_close, TypeOK, PoolType
    <3>. QED
          BY <3>1, <3>2, InnerMoves DEF Attended
  <2>2. CASE session[s] # "closing"
    <3>1. PICK p \in Execs \cup Closers : Closes(p, s)
          BY <1>1, <2>2, SessionChange
    <3>2. proc'[p].pc = "inner_close" /\ proc'[p].on = s
          BY <1>1, <3>1, CloseMoves DEF TypeOK, Closes, Stays
    <3>. QED
          BY <3>2 DEF Attended
  <2>. QED
        BY <2>1, <2>2
<1>2. ASSUME NEW p \in Execs \cup Closers, proc'[p].pc = "inner_close"
      PROVE  session'[proc'[p].on] \in {"closing", "closed"}
  <2>1. CASE proc'[p] = proc[p]
    <3>1. proc[p].on \in Execs /\ session[proc[p].on] \in {"closing", "closed"}
          BY <1>2, <2>1
          DEF TypeOK, ProcType, TaskOK, CloserOK, Holding, Closing, ClosingAttended
    <3>2. ~open_session(proc[p].on)
          BY <3>1 DEF open_session, OpenedByItsTask, Early
    <3>. QED
          BY <2>1, <3>1, <3>2, SessionChange DEF Closes
  <2>2. CASE proc'[p] # proc[p]
        BY <1>2, <2>2, InnerMoves
  <2>. QED
        BY <2>1, <2>2
<1>. QED
      BY <1>1, <1>2 DEF ClosingAttended

-----------------------------------------------------------------------------
(* Closers *)

\* A closer that began goes on to the end with the same targets, which it cancels first and is
\* rid of when it returns.
LEMMA CloserProgress ==
    ASSUME TypeOK, NEW c \in Closers, CloserAny(c), ~begin_close(c)
    PROVE  /\ Begun(c) /\ proc[c].pc # "returned" /\ Begun(c)' /\ proc'[c].pc # "cancelling"
           /\ proc'[c].targets = proc[c].targets
           /\ proc[c].pc = "cancelling" => cancel_targets(c)
           /\ proc'[c].pc = "returned" => proc[c].targets \cap active = {}
<1>1. CASE cancel_targets(c)
  <2>1. CloserMoved(c, "bindings", proc[c].on, proc[c].then, proc[c].targets, proc[c].bound,
                    proc[c].todo)
        BY <1>1, CloserMoves DEF TypeOK
  <2>. QED
        BY <1>1, <2>1 DEF cancel_targets, CloserMoved, Begun
<1>2. CASE close_bound(c)
  <2>1. PICK b \in proc[c].bound :
               CloserMoved(c, "closing", b[2], "bindings", proc[c].targets, proc[c].bound \ {b},
                           proc[c].todo)
        BY <1>2, CloserMoves DEF TypeOK
  <2>. QED
        BY <1>2, <2>1 DEF close_bound, CloserMoved, Begun
<1>3. CASE close_pool(c)
  <2>1. CASE give_up(c, proc[c].run)
    <3> DEFINE todo == {entries[k] : k \in doomed(proc[c].run)} \ {Replaceable, Lost}
    <3>1. CloserMoved(c, "entries", proc[c].on, proc[c].then, proc[c].targets, proc[c].bound, todo)
          BY <2>1, CloserMoves DEF TypeOK
    <3> HIDE DEF todo
    <3>. QED
          BY <1>3, <3>1 DEF close_pool, CloserMoved, Begun
  <2>2. CASE ~give_up(c, proc[c].run)
        BY <1>3, <2>2, CloseMoves DEF TypeOK, close_pool, Stays, Begun
  <2>. QED
        BY <2>1, <2>2
<1>4. CASE close_entry(c)
  <2>1. PICK x \in proc[c].todo :
               \/ CloserMoved(c, "closing", x.of, "entries", proc[c].targets, proc[c].bound,
                              proc[c].todo \ {x})
               \/ CloserMoved(c, "entries", proc[c].on, proc[c].then, proc[c].targets,
                              proc[c].bound, proc[c].todo \ {x})
        BY <1>4, CloserMoves DEF TypeOK
  <2>. QED
        BY <1>4, <2>1 DEF close_entry, CloserMoved, Begun
<1>5. CASE entries_closed(c) \/ wait_for_activity(c)
      BY <1>5, CloseMoves DEF TypeOK, entries_closed, wait_for_activity, awaited, Stays, Begun
<1>6. CASE close(c) \/ inner_close(c)
  <2>1. CloserOK(proc[c]) /\ proc[c].pc \in Closing
        BY <1>6 DEF TypeOK, ProcType, close, inner_close, Closing
  <2>2. proc[c].then \in {"bindings", "entries"}
        BY <2>1 DEF CloserOK, CloserStates
  <2>. QED
        BY <1>6, <2>1, <2>2, CloseMoves DEF TypeOK, Stays, Begun, Closing
<1>. QED
      BY <1>1, <1>2, <1>3, <1>4, <1>5, <1>6 DEF CloserAny, CloserStep

\* What closing a run, and cancelling an execution, leaves behind for good; nothing starts in a
\* closed run.
LEMMA ClosedKept ==
    ASSUME TypeOK, [Next]_vars
    PROVE  /\ closed => closed'
           /\ closed_runs \subseteq closed_runs'
           /\ \A e \in Execs : cancel[e] => cancel'[e]
           /\ \A e \in active' : e \in active \/ ~RunClosed(e)
<1>1. ASSUME NEW e \in Execs, TaskAny(e)
      PROVE  /\ closed' = closed /\ closed_runs' = closed_runs
             /\ \A q \in Execs : cancel[q] => cancel'[q]
             /\ \A q \in active' : q \in active \/ ~RunClosed(q)
  <2>1. closed' = closed /\ closed_runs' = closed_runs
        BY <1>1, TaskKeeps DEF TypeOK
  <2>2. \A q \in Execs : cancel[q] => cancel'[q]
        BY <1>1
        DEF TypeOK, RegistryType, TaskAny, TaskStep, start, cancel_handle, open_session, drive,
            session_dies, checkout, wait_for_open, reuse, open_cancelled, probe, finish_open,
            bind_session, invalidate, finish, close, inner_close
  <2>3. \A q \in active' : q \in active \/ ~RunClosed(q)
        BY <1>1
        DEF TaskAny, TaskStep, start, cancel_handle, open_session, drive, session_dies, checkout,
            wait_for_open, reuse, open_cancelled, probe, finish_open, bind_session, invalidate,
            finish, deregistered, close, inner_close, registry
  <2>. QED
        BY <2>1, <2>2, <2>3
<1>2. ASSUME NEW c \in Closers, CloserAny(c)
      PROVE  /\ closed => closed'
             /\ closed_runs \subseteq closed_runs'
             /\ \A q \in Execs : cancel[q] => cancel'[q]
             /\ active' = active
  <2>1. active' = active
        BY <1>2, CloserKeeps DEF TypeOK
  <2>2. /\ closed => closed'
        /\ closed_runs \subseteq closed_runs'
    <3>1. CASE begin_close(c)
      <4>1. closed => closed'
            BY <3>1 DEF begin_close
      <4>2. closed_runs' = closed_runs \/ closed_runs' = closed_runs \cup {proc[c].run}
            BY <3>1 DEF begin_close
      <4>. QED
            BY <4>1, <4>2
    <3>2. CASE CloserStep(c)
      <4>1. closed' = closed /\ closed_runs' = closed_runs
            BY <3>2
            DEF CloserStep, cancel_targets, close_bound, close_pool, close_entry, entries_closed,
                wait_for_activity, close, inner_close, registry
      <4>. QED
            BY <4>1
    <3>. QED
          BY <1>2, <3>1, <3>2 DEF CloserAny
  <2>3. \A q \in Execs : cancel[q] => cancel'[q]
        BY <1>2
        DEF CloserAny, CloserStep, begin_close, cancel_targets, close_bound, close_pool,
            close_entry, entries_closed, wait_for_activity, close, inner_close
  <2>. QED
        BY <2>1, <2>2, <2>3
<1>. QED
      BY <1>1, <1>2 DEF Next, TaskAny, CloserAny, vars

\* A closer begins by closing its run.
LEMMA StaysClosedStep ==
    ASSUME TypeOK, StaysClosed, [Next]_vars
    PROVE  StaysClosed'
<1>1. ASSUME NEW c \in Closers, Begun(c)'
      PROVE  IF proc'[c].run = Everything THEN closed' ELSE proc'[c].run \in closed_runs'
  <2>1. CASE begin_close(c)
    <3>1. proc'[c].run = proc[c].run
          BY <2>1, CloserKeeps DEF TypeOK, CloserAny
    <3>2. CASE proc[c].run = Everything
      <4>1. closed'
            BY <2>1, <3>2 DEF begin_close
      <4>. QED
            BY <3>1, <3>2, <4>1
    <3>3. CASE proc[c].run # Everything
      <4>1. proc[c].run \in closed_runs'
            BY <2>1, <3>3 DEF begin_close
      <4>. QED
            BY <3>1, <3>3, <4>1
    <3>. QED
          BY <3>2, <3>3
  <2>2. CASE CloserAny(c) /\ ~begin_close(c)
        BY <2>2, CloserProgress, CloserKeeps, ClosedKept DEF TypeOK, StaysClosed
  <2>3. CASE proc'[c] = proc[c]
        BY <1>1, <2>3, ClosedKept DEF StaysClosed, Begun
  <2>4. CloserAny(c) \/ proc'[c] = proc[c]
        BY TaskKeeps, CloserKeeps DEF TypeOK, Next, TaskAny, CloserAny, Others, vars
  <2>. QED
        BY <2>1, <2>2, <2>3, <2>4
<1>. QED
      BY <1>1 DEF StaysClosed, Everything

\* Its targets are everything it covers that runs, for good: nothing of a closed run starts.
LEMMA TargetsCoveredStep ==
    ASSUME TypeOK, StaysClosed, TargetsCovered, [Next]_vars
    PROVE  TargetsCovered'
<1>1. ASSUME NEW c \in Closers, Begun(c), proc'[c].run = proc[c].run,
             proc'[c].targets = proc[c].targets
      PROVE  /\ \A e \in active' : Covers(proc'[c].run, RunOf[e]) => e \in proc'[c].targets
             /\ \A e \in active' : Covers(proc'[c].run, RunOf[e]) => e \in active
  <2>1. \A e \in active' : Covers(proc[c].run, RunOf[e]) => e \in active
        BY <1>1, ClosedKept DEF StaysClosed, RunClosed, Covers
  <2>. QED
        BY <1>1, <2>1 DEF TargetsCovered
<1>2. ASSUME NEW c \in Closers
      PROVE  /\ Begun(c)' => \A e \in active' : Covers(proc'[c].run, RunOf[e]) =>
                                 e \in proc'[c].targets
             /\ proc'[c].pc = "returned" => \A e \in active' : ~Covers(proc'[c].run, RunOf[e])
  <2>1. CASE begin_close(c)
    <3> DEFINE targets == {e \in active : Covers(proc[c].run, RunOf[e])}
               bound == {<<e, binding[e]>> : e \in {t \in targets : binding[t] # None}}
    <3>1. CloserMoved(c, "cancelling", None, "none", targets, bound, {})
          BY <2>1, CloserMoves DEF TypeOK
    <3>2. active' = active
          BY <2>1 DEF begin_close
    <3> HIDE DEF bound
    <3>. QED
          BY <3>1, <3>2 DEF CloserMoved
  <2>2. CASE CloserAny(c) /\ ~begin_close(c)
    <3>1. /\ Begun(c) /\ proc'[c].run = proc[c].run /\ proc'[c].targets = proc[c].targets
          /\ proc'[c].pc = "returned" => proc[c].targets \cap active = {}
          /\ active' = active
          BY <2>2, CloserProgress, CloserKeeps DEF TypeOK
    <3>. QED
          BY <1>1, <3>1 DEF TargetsCovered
  <2>3. CASE proc'[c] = proc[c]
    <3>1. Begun(c)' => Begun(c)
          BY <2>3 DEF Begun
    <3>2. proc'[c].pc = "returned" => Begun(c)
          BY <2>3 DEF Begun
    <3>. QED
          BY <1>1, <2>3, <3>1, <3>2 DEF TargetsCovered
  <2>4. CloserAny(c) \/ proc'[c] = proc[c]
        BY TaskKeeps, CloserKeeps DEF TypeOK, Next, TaskAny, CloserAny, Others, vars
  <2>. QED
        BY <2>1, <2>2, <2>3, <2>4
<1>. QED
      BY <1>2 DEF TargetsCovered

\* The targets are cancelled before anything else is closed, and stay cancelled.
LEMMA TargetsCancelledStep ==
    ASSUME TypeOK, TargetsCancelled, [Next]_vars
    PROVE  TargetsCancelled'
<1>1. ASSUME NEW c \in Closers, Begun(c)', proc'[c].pc # "cancelling", NEW e \in proc'[c].targets
      PROVE  cancel'[e]
  <2>1. CASE begin_close(c)
    <3> DEFINE targets == {q \in active : Covers(proc[c].run, RunOf[q])}
               bound == {<<q, binding[q]>> : q \in {t \in targets : binding[t] # None}}
    <3>1. CloserMoved(c, "cancelling", None, "none", targets, bound, {})
          BY <2>1, CloserMoves DEF TypeOK
    <3> HIDE DEF targets, bound
    <3>. QED
          BY <1>1, <3>1 DEF CloserMoved
  <2>2. CASE cancel_targets(c)
    <3>1. proc'[c].targets = proc[c].targets
          BY <2>2, CloserProgress DEF CloserAny, CloserStep, cancel_targets, begin_close
    <3>2. proc[c].targets \subseteq Execs
          BY DEF TypeOK, ProcType, CloserOK, CloserStates
    <3>. QED
          BY <1>1, <2>2, <3>1, <3>2 DEF cancel_targets
  <2>3. CASE CloserAny(c) /\ ~begin_close(c) /\ ~cancel_targets(c)
    <3>1. Begun(c) /\ proc[c].pc # "cancelling" /\ proc'[c].targets = proc[c].targets
          BY <2>3, CloserProgress DEF TypeOK
    <3>2. proc[c].targets \subseteq Execs
          BY DEF TypeOK, ProcType, CloserOK, CloserStates
    <3>. QED
          BY <1>1, <3>1, <3>2, ClosedKept DEF TargetsCancelled
  <2>4. CASE proc'[c] = proc[c]
    <3>1. Begun(c)
          BY <1>1, <2>4 DEF Begun
    <3>2. proc[c].targets \subseteq Execs
          BY DEF TypeOK, ProcType, CloserOK, CloserStates
    <3>. QED
          BY <1>1, <2>4, <3>1, <3>2, ClosedKept DEF TargetsCancelled
  <2>5. CloserAny(c) \/ proc'[c] = proc[c]
        BY TaskKeeps, CloserKeeps DEF TypeOK, Next, TaskAny, CloserAny, Others, vars
  <2>. QED
        BY <2>1, <2>2, <2>3, <2>4, <2>5
<1>. QED
      BY <1>1 DEF TargetsCancelled

\* A closer has entries left to close only while it closes entries.
LEMMA ListClearedStep ==
    ASSUME TypeOK, ListCleared, [Next]_vars
    PROVE  ListCleared'
<1>1. ASSUME NEW c \in Closers, ~OnEntries(c)'
      PROVE  proc'[c].todo = {}
  <2>1. CASE begin_close(c)
    <3> DEFINE targets == {q \in active : Covers(proc[c].run, RunOf[q])}
               bound == {<<q, binding[q]>> : q \in {t \in targets : binding[t] # None}}
    <3>1. CloserMoved(c, "cancelling", None, "none", targets, bound, {})
          BY <2>1, CloserMoves DEF TypeOK
    <3> HIDE DEF targets, bound
    <3>. QED
          BY <1>1, <3>1 DEF CloserMoved
  <2>2. CASE cancel_targets(c)
    <3>1. CloserMoved(c, "bindings", proc[c].on, proc[c].then, proc[c].targets, proc[c].bound,
                      proc[c].todo)
          BY <2>2, CloserMoves DEF TypeOK
    <3>. QED
          BY <2>2, <3>1 DEF cancel_targets, CloserMoved, ListCleared, OnEntries, Closing
  <2>3. CASE close_bound(c)
    <3>1. PICK b \in proc[c].bound :
                 CloserMoved(c, "closing", b[2], "bindings", proc[c].targets, proc[c].bound \ {b},
                             proc[c].todo)
          BY <2>3, CloserMoves DEF TypeOK
    <3>. QED
          BY <2>3, <3>1 DEF close_bound, CloserMoved, ListCleared, OnEntries, Closing
  <2>4. CASE close_pool(c)
    <3>1. CASE give_up(c, proc[c].run)
      <4> DEFINE todo == {entries[k] : k \in doomed(proc[c].run)} \ {Replaceable, Lost}
      <4>1. CloserMoved(c, "entries", proc[c].on, proc[c].then, proc[c].targets, proc[c].bound,
                        todo)
            BY <3>1, CloserMoves DEF TypeOK
      <4> HIDE DEF todo
      <4>. QED
            BY <1>1, <4>1 DEF CloserMoved, OnEntries
    <3>2. CASE ~give_up(c, proc[c].run)
          BY <2>4, <3>2, CloseMoves DEF TypeOK, close_pool, Stays, ListCleared, OnEntries, Closing
    <3>. QED
          BY <3>1, <3>2
  <2>5. CASE close_entry(c)
    <3>1. PICK x \in proc[c].todo :
                 \/ CloserMoved(c, "closing", x.of, "entries", proc[c].targets, proc[c].bound,
                                proc[c].todo \ {x})
                 \/ CloserMoved(c, "entries", proc[c].on, proc[c].then, proc[c].targets,
                                proc[c].bound, proc[c].todo \ {x})
          BY <2>5, CloserMoves DEF TypeOK
    <3>. QED
          BY <1>1, <3>1 DEF CloserMoved, OnEntries, Closing
  <2>6. CASE entries_closed(c) \/ wait_for_activity(c)
        BY <2>6, CloseMoves
        DEF TypeOK, entries_closed, wait_for_activity, Stays, ListCleared, OnEntries, Closing
  <2>7. CASE close(c) \/ inner_close(c)
    <3>1. CloserOK(proc[c]) /\ proc[c].pc \in Closing
          BY <2>7 DEF TypeOK, ProcType, close, inner_close, Closing
    <3>2. proc[c].then \in {"bindings", "entries"}
          BY <3>1 DEF CloserOK, CloserStates
    <3>3. /\ proc'[c].todo = proc[c].todo /\ proc'[c].then = proc[c].then
          /\ proc'[c].pc \in {"inner_close", proc[c].then}
          BY <2>7, CloseMoves DEF TypeOK, close, inner_close, Stays, Closing
    <3>. QED
          BY <1>1, <3>1, <3>2, <3>3 DEF ListCleared, OnEntries, Closing
  <2>8. CASE proc'[c] = proc[c]
        BY <1>1, <2>8 DEF ListCleared, OnEntries
  <2>9. CloserAny(c) \/ proc'[c] = proc[c]
        BY TaskKeeps, CloserKeeps DEF TypeOK, Next, TaskAny, CloserAny, Others, vars
  <2>. QED
        BY <2>1, <2>2, <2>3, <2>4, <2>5, <2>6, <2>7, <2>8, <2>9 DEF CloserAny, CloserStep
<1>. QED
      BY <1>1 DEF ListCleared

\* The pool is emptied in one step; what comes after only closes what was taken out.
LEMMA EmptiedBegins ==
    ASSUME TypeOK, NEW c \in Closers, CloserAny(c), Emptied(c)'
    PROVE  Emptied(c) \/ give_up(c, proc[c].run)
<1>0. boundary' = boundary /\ proc'[c].run = proc[c].run
      BY CloserKeeps DEF TypeOK
<1>1. CASE begin_close(c)
  <2> DEFINE targets == {q \in active : Covers(proc[c].run, RunOf[q])}
             bound == {<<q, binding[q]>> : q \in {t \in targets : binding[t] # None}}
  <2>1. CloserMoved(c, "cancelling", None, "none", targets, bound, {})
        BY <1>1, CloserMoves DEF TypeOK
  <2> HIDE DEF targets, bound
  <2>. QED
        BY <2>1 DEF CloserMoved, Emptied, OnEntries, Closing
<1>2. CASE cancel_targets(c)
  <2>1. CloserMoved(c, "bindings", proc[c].on, proc[c].then, proc[c].targets, proc[c].bound,
                    proc[c].todo)
        BY <1>2, CloserMoves DEF TypeOK
  <2>. QED
        BY <2>1 DEF CloserMoved, Emptied, OnEntries, Closing
<1>3. CASE close_bound(c)
  <2>1. PICK b \in proc[c].bound :
               CloserMoved(c, "closing", b[2], "bindings", proc[c].targets, proc[c].bound \ {b},
                           proc[c].todo)
        BY <1>3, CloserMoves DEF TypeOK
  <2>. QED
        BY <2>1 DEF CloserMoved, Emptied, OnEntries, Closing
<1>4. CASE close_pool(c)
      BY <1>0, <1>4 DEF close_pool, Emptied
<1>5. CASE close_entry(c) \/ entries_closed(c) \/ wait_for_activity(c)
      BY <1>0, <1>5 DEF close_entry, entries_closed, wait_for_activity, Emptied, OnEntries
<1>6. CASE close(c) \/ inner_close(c)
  <2>1. CloserOK(proc[c]) /\ proc[c].pc \in Closing
        BY <1>6 DEF TypeOK, ProcType, close, inner_close, Closing
  <2>2. proc[c].then \in {"bindings", "entries"}
        BY <2>1 DEF CloserOK, CloserStates
  <2>3. proc'[c].then = proc[c].then /\ proc'[c].pc \in {"inner_close", proc[c].then}
        BY <1>6, CloseMoves DEF TypeOK, close, inner_close, Stays, Closing
  <2>. QED
        BY <1>0, <2>1, <2>2, <2>3 DEF Emptied, OnEntries, Closing
<1>. QED
      BY <1>1, <1>2, <1>3, <1>4, <1>5, <1>6 DEF CloserAny, CloserStep

\* A task comes to have an opened session only from its probe, uncancelled, or had it before.
LEMMA OpenedComesFromProbe ==
    ASSUME TypeOK, NEW e \in Execs, [Next]_vars, proc'[e].pc = "opened"
    PROVE  \/ proc[e].pc = "opened" /\ ~checkout(e)
           \/ proc[e].pc = "probing" /\ ~cancel[e] /\ entries' = entries
<1>1. CASE TaskAny(e)
  <2>1. CASE start(e) \/ checkout(e) \/ wait_for_open(e) \/ reuse(e) \/ finish(e)
        BY <2>1, TaskAt DEF TypeOK, start, checkout, wait_for_open, reuse, finish
  <2>2. CASE open_session(e) \/ open_cancelled(e)
        BY <2>2, TaskAt DEF TypeOK, open_session, open_cancelled, unopened
  <2>3. CASE drive(e) \/ bind_session(e) \/ invalidate(e) \/ finish_open(e)
        BY <2>3, TaskAt
        DEF TypeOK, drive, bind_session, invalidate, finish_open, stale_open, finish_lease
  <2>4. CASE probe(e)
        BY <2>4, TaskAt DEF TypeOK, probe
  <2>5. CASE cancel_handle(e) \/ session_dies(e)
        BY <2>5 DEF cancel_handle, session_dies, checkout
  <2>6. CASE close(e) \/ inner_close(e)
    <3>1. TaskOK(proc[e]) /\ proc[e].pc \in Closing
          BY <2>6 DEF TypeOK, ProcType, close, inner_close, Closing
    <3>2. proc[e].then \in {"returning", "open_cancelled", "open_failed"}
          BY <3>1 DEF TaskOK, Tasks
    <3>3. proc'[e].pc \in {"inner_close", proc[e].then}
          BY <2>6, CloseMoves DEF TypeOK
    <3>. QED
          BY <3>2, <3>3
  <2>. QED
        BY <1>1, <2>1, <2>2, <2>3, <2>4, <2>5, <2>6 DEF TaskAny, TaskStep
<1>2. CASE proc'[e] = proc[e]
      BY <1>2 DEF checkout
<1>3. TaskAny(e) \/ proc'[e] = proc[e]
      BY TaskKeeps, CloserKeeps DEF TypeOK, Next, TaskAny, CloserAny, Others, vars
<1>. QED
      BY <1>1, <1>2, <1>3

\* Nothing comes to life behind a closer: who still opens was cancelled, or finds the entry lost.
LEMMA EmptiedStaysEmptyStep ==
    ASSUME TypeOK, Registered, KeyedEntries, TargetsCovered, TargetsCancelled, EmptiedStaysEmpty,
           [Next]_vars
    PROVE  EmptiedStaysEmpty'
<1>1. ASSUME NEW c \in Closers, Emptied(c), NEW k \in Keys, Covers(proc[c].run, k[1])
      PROVE  /\ entries'[k].state # "live"
             /\ \A e \in Execs : proc'[e].pc = "opened" => entries'[k] # Opening(e)
  <2>1. /\ entries[k].state # "live"
        /\ \A e \in Execs : proc[e].pc = "opened" => entries[k] # Opening(e)
        BY <1>1 DEF EmptiedStaysEmpty
  <2>2. \A e \in Execs : ~Publishes(e, k)
        BY <2>1 DEF Publishes
  <2>3. \/ entries'[k] = entries[k] \/ entries'[k] \in Gone
        \/ \E e \in Execs : checkout(e) /\ entries'[k] = Opening(e)
        BY <2>2, EntryChange DEF Opens
  <2>0. /\ \A x \in Gone : x.state \notin {"live", "opening"}
        /\ \A e : Opening(e).state = "opening" /\ Opening(e).of = e
        BY DEF Gone, Absent, Lost, Replaceable, Opening
  <2>4. entries'[k].state # "live"
        BY <2>0, <2>1, <2>3
  <2>5. ASSUME NEW e \in Execs, proc'[e].pc = "opened", entries'[k] = Opening(e)
        PROVE  FALSE
    <3>1. CASE proc[e].pc = "opened" /\ ~checkout(e)
          BY <2>0, <2>1, <2>3, <2>5, <3>1
    <3>2. CASE proc[e].pc = "probing" /\ ~cancel[e] /\ entries' = entries
      <4>1. entries[k] = Opening(e)
            BY <2>5, <3>2
      <4>2. Reusable(e) /\ reusable_key(e) = k
            BY <4>1 DEF KeyedEntries, Opening
      <4>3. Covers(proc[c].run, RunOf[e])
            BY <1>1, <4>2 DEF Emptied, Covers, reusable_key
      <4>4. e \in active
            BY <3>2 DEF Registered, Still
      <4>5. Begun(c) /\ proc[c].pc # "cancelling"
            BY <1>1 DEF Emptied, OnEntries, Closing, Begun
      <4>. QED
            BY <3>2, <4>3, <4>4, <4>5 DEF TargetsCovered, TargetsCancelled
    <3>. QED
          BY <2>5, <3>1, <3>2, OpenedComesFromProbe
  <2>. QED
        BY <2>4, <2>5
<1>2. ASSUME NEW c \in Closers, Emptied(c)', NEW k \in Keys, Covers(proc'[c].run, k[1])
      PROVE  /\ entries'[k].state # "live"
             /\ \A e \in Execs : proc'[e].pc = "opened" => entries'[k] # Opening(e)
  <2>1. CASE Emptied(c) /\ proc'[c].run = proc[c].run
        BY <1>1, <1>2, <2>1
  <2>2. CASE give_up(c, proc[c].run) /\ proc'[c].run = proc[c].run
    <3>1. entries'[k] \in {Lost, Absent}
          BY <1>2, <2>2 DEF give_up, doomed
    <3>. QED
          BY <3>1 DEF Lost, Absent, Opening
  <2>3. CASE CloserAny(c)
        BY <1>2, <2>1, <2>2, <2>3, EmptiedBegins, CloserKeeps DEF TypeOK
  <2>4. CASE proc'[c] = proc[c] /\ boundary' = boundary
    <3>1. Emptied(c)
          BY <1>2, <2>4 DEF Emptied, OnEntries
    <3>. QED
          BY <2>1, <2>4, <3>1
  <2>5. CloserAny(c) \/ (proc'[c] = proc[c] /\ boundary' = boundary)
        BY TaskKeeps, CloserKeeps DEF TypeOK, Next, TaskAny, CloserAny, Others, vars
  <2>. QED
        BY <2>3, <2>4, <2>5
<1>3. Keys' = Keys
      BY DEF Keys
<1>. QED
      BY <1>2 DEF EmptiedStaysEmpty

-----------------------------------------------------------------------------
(* Accounting for sessions *)

\* What takes a live session out of the pool hands it on, to be closed.
LEMMA TakenOut ==
    ASSUME TypeOK, [Next]_vars, NEW k \in Keys, NEW s \in Execs, entries[k] = Live(s),
           entries'[k] # Live(s)
    PROVE  \/ \E p \in Execs \cup Closers : proc'[p].pc = "closing" /\ proc'[p].on = s
           \/ \E c \in Closers : Live(s) \in proc'[c].todo
<1>0. /\ entries \in [Keys -> Entries]
      /\ \A e : Opening(e) # Live(s) /\ Live(s).state = "live" /\ Live(s).of = s
      /\ Live(s) \notin {Absent, Replaceable, Lost}
      BY DEF TypeOK, PoolType, Opening, Live, Absent, Replaceable, Lost
<1>1. ASSUME NEW e \in Execs, invalidate(e)
      PROVE  proc'[e].pc = "closing" /\ proc'[e].on = s
  <2>1. entries[reusable_key(e)] = Live(proc[e].on) /\ k = reusable_key(e)
        BY <1>0, <1>1 DEF invalidate, invalidated
  <2>2. proc[e].on = s
        BY <2>1 DEF Live
  <2>. QED
        BY <1>1, <2>2, TaskAt DEF TypeOK, invalidate
<1>2. ASSUME NEW c \in Closers, close_bound(c)
      PROVE  proc'[c].pc = "closing" /\ proc'[c].on = s
  <2>1. PICK b \in proc[c].bound :
               /\ CloserMoved(c, "closing", b[2], "bindings", proc[c].targets, proc[c].bound \ {b},
                              proc[c].todo)
               /\ entries' = IF Reusable(b[1])
                             THEN invalidated(reusable_key(b[1]), b[2],
                                        IF proc[c].run = Everything THEN Lost ELSE Replaceable)
                             ELSE entries
        BY <1>2, CloserMoves DEF TypeOK
  <2>2. entries[reusable_key(b[1])] = Live(b[2]) /\ k = reusable_key(b[1])
        BY <1>0, <2>1 DEF invalidated
  <2>3. b[2] = s
        BY <2>2 DEF Live
  <2>. QED
        BY <2>1, <2>3 DEF CloserMoved
<1>3. ASSUME NEW c \in Closers, close_pool(c)
      PROVE  Live(s) \in proc'[c].todo
  <2>1. give_up(c, proc[c].run)
        BY <1>3 DEF close_pool
  <2>2. k \in doomed(proc[c].run)
        BY <2>1 DEF give_up
  <2> DEFINE todo == {entries[q] : q \in doomed(proc[c].run)} \ {Replaceable, Lost}
  <2>3. CloserMoved(c, "entries", proc[c].on, proc[c].then, proc[c].targets, proc[c].bound, todo)
        BY <2>1, CloserMoves DEF TypeOK
  <2>4. Live(s) \in todo
        BY <1>0, <2>2
  <2> HIDE DEF todo
  <2>. QED
        BY <2>3, <2>4 DEF CloserMoved
<1>4. ASSUME NEW e \in Execs, checkout(e) PROVE FALSE
      BY <1>0, <1>4 DEF checkout
<1>5. ASSUME NEW e \in Execs, finish_open(e) PROVE FALSE
      BY <1>0, <1>5 DEF finish_open, still_opening
<1>6. ASSUME NEW e \in Execs,
             \/ start(e) \/ cancel_handle(e) \/ open_session(e) \/ drive(e) \/ session_dies(e)
             \/ wait_for_open(e) \/ reuse(e) \/ open_cancelled(e) \/ probe(e) \/ bind_session(e)
             \/ finish(e) \/ close(e) \/ inner_close(e)
      PROVE  entries' = entries
      BY <1>6
      DEF start, cancel_handle, open_session, drive, session_dies, wait_for_open, reuse,
          open_cancelled, probe, bind_session, finish, close, inner_close
<1>7. ASSUME NEW c \in Closers,
             \/ begin_close(c) \/ cancel_targets(c) \/ close_entry(c) \/ entries_closed(c)
             \/ wait_for_activity(c) \/ close(c) \/ inner_close(c)
      PROVE  entries' = entries
      BY <1>7
      DEF begin_close, cancel_targets, close_entry, entries_closed, wait_for_activity, close,
          inner_close
<1>. QED
      BY <1>1, <1>2, <1>3, <1>4, <1>5, <1>6, <1>7 DEF Next, TaskStep, CloserStep, vars

\* Who is about to close a session stays so until it is closing.
LEMMA ClosingStays ==
    ASSUME TypeOK, [Next]_vars, NEW p \in Execs \cup Closers, proc[p].pc = "closing"
    PROVE  proc'[p] = proc[p] \/ close(p)
<1>1. CASE p \in Execs
  <2>1. TaskAny(p) => close(p) \/ proc' = proc
        BY DEF TaskAny, TaskStep, start, cancel_handle, open_session, drive, session_dies, checkout,
               wait_for_open, reuse, open_cancelled, probe, finish_open, bind_session, invalidate,
               finish, inner_close
  <2>. QED
        BY <1>1, <2>1, TaskKeeps, CloserKeeps
        DEF TypeOK, Next, TaskAny, CloserAny, Others, vars
<1>2. CASE p \in Closers
  <2>1. CloserAny(p) => close(p)
        BY DEF CloserAny, CloserStep, begin_close, cancel_targets, close_bound, close_pool,
               close_entry, entries_closed, wait_for_activity, inner_close
  <2>. QED
        BY <1>2, <2>1, TaskKeeps, CloserKeeps
        DEF TypeOK, Next, TaskAny, CloserAny, Others, vars
<1>. QED
      BY <1>1, <1>2

\* A task in charge of a session stays in charge, publishes it or goes on to close it.
Keeps(e, s) ==
    /\ proc[e].on = s
    /\ \/ proc[e].pc \in {"probing", "opened", "losing", "replacing"}
       \/ ~Reusable(e) /\ proc[e].pc \in {"leased", "driving"}

\* It does so at every step.
LEMMA KeeperMoves ==
    ASSUME TypeOK, KeyedTasks, OpenedByItsTask, [Next]_vars, NEW e \in Execs, NEW s \in Execs,
           Keeps(e, s)
    PROVE  \/ Keeps(e, s)'
           \/ proc'[e].pc = "closing" /\ proc'[e].on = s
           \/ \E k \in Keys : entries'[k] = Live(s)
<1>1. CASE TaskAny(e)
  <2>1. CASE probe(e)
    <3>1. s = e
          BY <2>1 DEF probe, Keeps, OpenedByItsTask
    <3>. QED
          BY <2>1, <3>1, TaskAt DEF TypeOK, probe, Keeps
  <2>2. CASE finish_open(e)
    <3>1. s = e /\ proc[e].pc = "opened"
          BY <2>2 DEF finish_open, Keeps, OpenedByItsTask
    <3>2. CASE still_opening(e)
      <4>1. Reusable(e)
            BY <3>1 DEF KeyedTasks
      <4>2. reusable_key(e) \in Keys /\ entries \in [Keys -> Entries]
            BY <4>1, KeyOf DEF TypeOK, PoolType
      <4>3. entries' = [entries EXCEPT ![reusable_key(e)] = opened_entry(e)]
            BY <2>2, <3>2 DEF finish_open
      <4>4. opened_entry(e) = Live(e)
            BY <3>1 DEF opened_entry
      <4>. QED
            BY <3>1, <4>2, <4>3, <4>4
    <3>3. CASE ~still_opening(e)
          BY <2>2, <3>1, <3>3, TaskAt DEF TypeOK, finish_open, stale_open
    <3>. QED
          BY <3>2, <3>3
  <2>3. CASE invalidate(e)
        BY <2>3, TaskAt DEF TypeOK, invalidate, Keeps
  <2>4. CASE bind_session(e)
        BY <2>4, TaskAt DEF TypeOK, bind_session, finish_lease, Keeps
  <2>5. CASE drive(e)
        BY <2>5, TaskAt DEF TypeOK, drive, finish_lease, Keeps
  <2>6. CASE cancel_handle(e) \/ session_dies(e)
        BY <2>6 DEF cancel_handle, session_dies, Keeps
  <2>. QED
        BY <1>1, <2>1, <2>2, <2>3, <2>4, <2>5, <2>6
        DEF TaskAny, TaskStep, Keeps, start, open_session, checkout, wait_for_open, reuse,
            open_cancelled, finish, close, inner_close
<1>2. CASE proc'[e] = proc[e]
      BY <1>2 DEF Keeps
<1>3. TaskAny(e) \/ proc'[e] = proc[e]
      BY TaskKeeps, CloserKeeps DEF TypeOK, Next, TaskAny, CloserAny, Others, vars
<1>. QED
      BY <1>1, <1>2, <1>3

\* An entry on a closer's list stays there until it is closed.
LEMMA ListedMoves ==
    ASSUME TypeOK, ListCleared, [Next]_vars, NEW c \in Closers, NEW s \in Execs,
           Live(s) \in proc[c].todo
    PROVE  Live(s) \in proc'[c].todo \/ (proc'[c].pc = "closing" /\ proc'[c].on = s)
<1>0. OnEntries(c) /\ Live(s).state = "live" /\ Live(s).of = s
      BY DEF ListCleared, Live
<1>1. CASE begin_close(c) \/ cancel_targets(c) \/ close_bound(c) \/ close_pool(c)
      BY <1>0, <1>1 DEF OnEntries, Closing, begin_close, cancel_targets, close_bound, close_pool
<1>2. CASE close_entry(c)
  <2>1. PICK x \in proc[c].todo :
               \/ /\ x.state = "live"
                  /\ CloserMoved(c, "closing", x.of, "entries", proc[c].targets, proc[c].bound,
                                 proc[c].todo \ {x})
               \/ /\ x.state = "opening"
                  /\ CloserMoved(c, "entries", proc[c].on, proc[c].then, proc[c].targets,
                                 proc[c].bound, proc[c].todo \ {x})
        BY <1>2, CloserMoves DEF TypeOK
  <2>2. CASE x = Live(s)
        BY <1>0, <2>1, <2>2 DEF CloserMoved
  <2>3. CASE x # Live(s)
        BY <2>1, <2>3 DEF CloserMoved
  <2>. QED
        BY <2>2, <2>3
<1>3. CASE entries_closed(c) \/ wait_for_activity(c) \/ close(c) \/ inner_close(c)
      BY <1>3, CloseMoves DEF TypeOK, Stays
<1>4. CASE proc'[c] = proc[c]
      BY <1>4
<1>5. CloserAny(c) \/ proc'[c] = proc[c]
      BY TaskKeeps, CloserKeeps DEF TypeOK, Next, TaskAny, CloserAny, Others, vars
<1>. QED
      BY <1>1, <1>2, <1>3, <1>4, <1>5 DEF CloserAny, CloserStep

\* No session is lost track of, and none is offered once it is closed.
LEMMA SessionsAreAccountedForStep ==
    ASSUME TypeOK, KeyedEntries, KeyedTasks, PublishedEntries, OpenedByItsTask, NotOffered,
           ClosingAttended, ListCleared, SessionsAreAccountedFor, KeyedEntries', [Next]_vars
    PROVE  SessionsAreAccountedFor'
<1>1. ASSUME NEW s \in Execs, Unclosed(s)'
      PROVE  InCharge(s)'
  <2>1. CASE open_session(s) /\ session'[s] = "open" /\ session[s] = "none"
    <3>1. proc'[s].pc = "probing" /\ proc'[s].on = s
          BY <2>1, TaskAt DEF TypeOK, open_session
    <3>. QED
          BY <3>1 DEF InCharge
  <2>2. CASE Unclosed(s) /\ \A p \in Execs \cup Closers : ~Closes(p, s)
    <3>1. InCharge(s)
          BY <2>2 DEF SessionsAreAccountedFor
    <3>2. CASE \E k \in Keys : entries[k] = Live(s)
          BY <3>2, TakenOut DEF InCharge, Keys
    <3>3. ASSUME NEW p \in Execs \cup Closers, proc[p].pc = "closing", proc[p].on = s
          PROVE  InCharge(s)'
      <4>1. ~close(p)
            BY <2>2, <3>3 DEF Closes, close, TypeOK, PoolType
      <4>2. proc'[p] = proc[p]
            BY <3>3, <4>1, ClosingStays
      <4>. QED
            BY <3>3, <4>2 DEF InCharge
    <3>4. ASSUME NEW e \in Execs, Keeps(e, s)
          PROVE  InCharge(s)'
          BY <3>4, KeeperMoves DEF InCharge, Keeps, Keys
    <3>5. ASSUME NEW c \in Closers, Live(s) \in proc[c].todo
          PROVE  InCharge(s)'
          BY <3>5, ListedMoves DEF InCharge
    <3>. QED
          BY <3>1, <3>2, <3>3, <3>4, <3>5 DEF InCharge, Keeps
  <2>3. \/ open_session(s) /\ session'[s] = "open" /\ session[s] = "none"
        \/ Unclosed(s) /\ \A p \in Execs \cup Closers : ~Closes(p, s)
    <3>1. \A p \in Execs \cup Closers : ~Closes(p, s)
          BY <1>1 DEF Closes, Unclosed
    <3>2. proc[s].pc = "opening" => session[s] = "none"
          BY DEF OpenedByItsTask, Early
    <3>. QED
          BY <1>1, <3>1, <3>2, SessionChange DEF Unclosed
  <2>. QED
        BY <2>1, <2>2, <2>3
<1>2. ASSUME NEW k \in Keys, NEW s \in Execs, entries'[k] = Live(s)
      PROVE  Unclosed(s)' /\ reusable_key(s)' = k
  <2>1. reusable_key(s)' = k
        BY <1>2 DEF KeyedEntries, Live, Keys
  <2>2. CASE entries[k] = Live(s)
    <3>1. Unclosed(s)
          BY <2>2 DEF SessionsAreAccountedFor
    <3>2. ASSUME NEW p \in Execs \cup Closers, Closes(p, s)
          PROVE  FALSE
      <4>1. CASE proc[p].pc = "closing"
            BY <2>2, <3>2, <4>1 DEF Closes, NotOffered, OffTasks, OffClosers, Off
      <4>2. CASE proc[p].pc = "inner_close"
            BY <3>1, <3>2, <4>2 DEF Closes, ClosingAttended, Unclosed
      <4>. QED
            BY <3>2, <4>1, <4>2 DEF Closes
    <3>. QED
          BY <2>1, <3>1, <3>2, SessionChange DEF Unclosed
  <2>3. CASE entries[k] # Live(s)
    <3>1. PICK e \in Execs : Publishes(e, k)
      <4>1. /\ \A x \in Gone : x # Live(s)
            /\ \A e : Opening(e) # Live(s)
            BY DEF Gone, Absent, Lost, Replaceable, Live, Opening
      <4>. QED
            BY <1>2, <2>3, <4>1, EntryChange DEF Opens
    <3>2. e = s
          BY <1>2, <3>1 DEF Publishes, Live
    <3>3. Unclosed(s) /\ session' = session
          BY <3>1, <3>2 DEF Publishes, OpenedByItsTask, finish_open
    <3>. QED
          BY <2>1, <3>3 DEF Unclosed
  <2>. QED
        BY <2>2, <2>3
<1>. QED
      BY <1>1, <1>2 DEF SessionsAreAccountedFor, Keys

-----------------------------------------------------------------------------
(* The theorems *)

\* The first state: nothing is registered, open or being closed.
LEMMA InitIInv == Init => IInv
<1> SUFFICES ASSUME Init PROVE IInv
      OBVIOUS
<1>1. PICK cast \in Casts :
             /\ boundary = cast.boundary
             /\ proc = [p \in Execs \cup Closers |->
                         IF p \in Execs
                         THEN Task(IF p \in cast.execs THEN "idle" ELSE "unused", None, "none")
                         ELSE IF p \in DOMAIN cast.closes
                              THEN Closer("idle", cast.closes[p], {}, {})
                         ELSE Closer("unused", None, {}, {})]
      BY DEF Init
<1>2. \A e \in Execs : proc[e] = Task("idle", None, "none") \/ proc[e] = Task("unused", None, "none")
      BY <1>1
<1>3. \A c \in Closers : \E r \in Nat : proc[c] = Closer("idle", r, {}, {})
                                        \/ proc[c] = Closer("unused", r, {}, {})
      BY <1>1, ExecAssumption DEF None
<1>4. /\ active = {} /\ closed_runs = {} /\ closed = FALSE
      /\ binding = [e \in Execs |-> None] /\ cancel = [e \in Execs |-> FALSE]
      /\ ready = [e \in Execs |-> FALSE] /\ entries = [k \in Keys |-> Absent]
      /\ session = [e \in Execs |-> "none"]
      BY DEF Init
<1>5. \A e \in Execs : /\ proc[e].pc \in {"idle", "unused"} /\ proc[e].on = None
                       /\ proc[e].then = "none" /\ TaskOK(proc[e])
      BY <1>2 DEF Task, TaskOK, Tasks, TaskPlaces, Early, Holding, Closing
<1>6. \A c \in Closers : /\ proc[c].pc \in {"idle", "unused"} /\ proc[c].bound = {}
                         /\ proc[c].todo = {} /\ CloserOK(proc[c])
  <2> SUFFICES ASSUME NEW c \in Closers
               PROVE  /\ proc[c].pc \in {"idle", "unused"} /\ proc[c].bound = {}
                      /\ proc[c].todo = {} /\ CloserOK(proc[c])
        OBVIOUS
  <2>1. PICK r \in Nat : proc[c] = Closer("idle", r, {}, {}) \/ proc[c] = Closer("unused", r, {}, {})
        BY <1>3
  <2>2. \A pc \in {"idle", "unused"} :
            LET x == Closer(pc, r, {}, {}) IN
            x.pc = pc /\ x.bound = {} /\ x.todo = {} /\ x \in CloserStates
        BY DEF Closer, CloserStates, CloserPlaces
  <2>. QED
        BY <2>1, <2>2 DEF CloserOK, Closing
<1>7. TypeOK
  <2>1. RegistryType
        BY <1>4 DEF RegistryType
  <2>2. PoolType
        BY <1>1, <1>4, ExecAssumption DEF PoolType, Entries, Absent
  <2>3. proc = [p \in Execs \cup Closers |-> proc[p]]
        BY <1>1
  <2>4. ProcType
        BY <1>5, <1>6, <2>3 DEF ProcType
  <2>. QED
        BY <2>1, <2>2, <2>4 DEF TypeOK
<1>8. Registered
      BY <1>4, <1>5 DEF Registered, Still
<1>9. /\ \A k \in Keys : entries[k].state = "absent"
      /\ \A e \in Execs : binding[e] = None /\ proc[e].pc \notin Holding
      BY <1>4, <1>5 DEF Absent, Holding
<1>10. SharedByKey
      BY <1>5, <1>6, <1>9 DEF SharedByKey, KeyedEntries, KeyedTasks, KeyedBound
<1>11. KnownOncePublished
      BY <1>6, <1>9
      DEF KnownOncePublished, PublishedEntries, PublishedToTasks, PublishedBindings,
          PublishedToClosers, Closing
<1>12. OpenedByItsTask
      BY <1>4, <1>5 DEF OpenedByItsTask
<1>13. NotOffered
      BY <1>5, <1>6 DEF NotOffered, OffTasks, OffClosers
<1>14. ClosingAttended
      BY <1>4, <1>5, <1>6 DEF ClosingAttended
<1>15. CloserSound
      BY <1>6 DEF CloserSound, StaysClosed, TargetsCovered, TargetsCancelled, ListCleared, Begun
<1>16. EmptiedStaysEmpty
      BY <1>6 DEF EmptiedStaysEmpty, Emptied, OnEntries, Closing
<1>17. SessionsAreAccountedFor
      BY <1>4, <1>9 DEF SessionsAreAccountedFor, Unclosed, Live
<1>. QED
      BY <1>7, <1>8, <1>10, <1>11, <1>12, <1>13, <1>14, <1>15, <1>16, <1>17 DEF IInv

\* Every step keeps the invariant, part by part.
LEMMA StepIInv == IInv /\ [Next]_vars => IInv'
<1> SUFFICES ASSUME IInv, [Next]_vars PROVE IInv'
      OBVIOUS
<1> USE DEF IInv, SharedByKey, KnownOncePublished, NotOffered, CloserSound
<1>1. TypeOK'
      BY RegistryTypeStep, PoolTypeStep, ProcTypeStep DEF TypeOK
<1>2. Registered'
      BY RegisteredStep
<1>3. SharedByKey'
      BY KeyedEntriesStep, KeyedTasksStep, KeyedBoundStep
<1>4. KnownOncePublished'
      BY PublishedEntriesStep, PublishedToTasksStep, PublishedBindingsStep, PublishedToClosersStep
<1>5. OpenedByItsTask'
      BY OpenedByItsTaskStep
<1>6. NotOffered'
      BY OffTasksStep, OffClosersStep
<1>7. ClosingAttended'
      BY ClosingAttendedStep
<1>8. CloserSound'
      BY StaysClosedStep, TargetsCoveredStep, TargetsCancelledStep, ListClearedStep
<1>9. EmptiedStaysEmpty'
      BY EmptiedStaysEmptyStep
<1>10. SessionsAreAccountedFor'
      BY <1>3, SessionsAreAccountedForStep
<1>. QED
      BY <1>1, <1>2, <1>3, <1>4, <1>5, <1>6, <1>7, <1>8, <1>9, <1>10

\* The inductive invariant holds in every reachable state, for every set of executions, runs and
\* slots, any number of concurrent closes and both pool boundaries.
THEOREM Invariant == Spec => []IInv
  BY InitIInv, StepIInv, PTL DEF Spec

\* No provider session is lost track of, however starts, cancellations, losses and closes
\* interleave, and the pool never offers a session that was closed.
THEOREM SessionsAccounted == Spec => []SessionsAreAccountedFor
<1>1. IInv => SessionsAreAccountedFor
      BY DEF IInv
<1>. QED
      BY <1>1, Invariant, PTL

\* Whoever shares a session that a close covers is itself covered by it.
LEMMA SharersAreCovered ==
    ASSUME NEW c \in Closers, NEW e \in Execs, NEW s \in ClosedBy(c), Shares(e, s)
    PROVE  Covers(proc[c].run, RunOf[e])
  BY DEF ClosedBy, Shares, Covers, reusable_key

\* What a close leaves behind once it has returned, from the invariant.
LEMMA QuietOnceReturned ==
    ASSUME IInv, NEW c \in Closers, proc[c].pc = "returned"
    PROVE  /\ \A e \in Execs : Covers(proc[c].run, RunOf[e]) => proc[e].pc \in Still
           /\ \/ \E d \in Closers : proc[d].pc \notin {"unused", "idle", "returned"}
              \/ \A s \in ClosedBy(c) : session[s] \in {"none", "closed"}
<1>1. ASSUME NEW e \in Execs, Covers(proc[c].run, RunOf[e])
      PROVE  proc[e].pc \in Still
      BY <1>1 DEF IInv, CloserSound, TargetsCovered, Registered
<1>2. ASSUME \A d \in Closers : proc[d].pc \in {"unused", "idle", "returned"},
             NEW s \in ClosedBy(c), session[s] \notin {"none", "closed"}
      PROVE  FALSE
  <2>1. s \in Execs /\ Covers(proc[c].run, RunOf[s])
        BY DEF ClosedBy
  <2>2. ASSUME NEW e \in Execs, proc[e].pc \in Holding, proc[e].on = s
        PROVE  FALSE
    <3>1. Shares(e, s)
          BY <2>2 DEF IInv, SharedByKey, KeyedTasks
    <3>. QED
          BY <1>1, <2>2, <3>1, SharersAreCovered DEF Holding, Still
  <2>3. CASE session[s] = "closing"
    <3>1. PICK p \in Execs \cup Closers : proc[p].pc = "inner_close" /\ proc[p].on = s
          BY <2>1, <2>3 DEF IInv, ClosingAttended, Attended
    <3>. QED
          BY <1>2, <2>2, <3>1 DEF Holding
  <2>4. CASE Unclosed(s)
    <3>1. InCharge(s)
          BY <2>1, <2>4 DEF IInv, SessionsAreAccountedFor
    <3>2. ASSUME NEW k \in Keys, entries[k] = Live(s) PROVE FALSE
      <4>1. entries[k].state = "live" /\ entries[k].of = s
            BY <3>2 DEF Live
      <4>2. Reusable(s) /\ reusable_key(s) = k
            BY <4>1 DEF IInv, SharedByKey, KeyedEntries
      <4>3. boundary = "Run" \/ proc[c].run = Everything
            BY <4>2 DEF ClosedBy
      <4>4. Covers(proc[c].run, k[1])
            BY <2>1, <4>2, <4>3 DEF Covers, reusable_key
      <4>. QED
            BY <4>1, <4>3, <4>4 DEF IInv, EmptiedStaysEmpty, Emptied
    <3>3. ASSUME NEW p \in Execs \cup Closers, proc[p].pc = "closing", proc[p].on = s PROVE FALSE
          BY <1>2, <2>2, <3>3 DEF Holding
    <3>4. ASSUME NEW e \in Execs, proc[e].on = s, proc[e].pc \in {"probing", "opened"} PROVE FALSE
      <4>1. e = s
            BY <3>4 DEF IInv, OpenedByItsTask
      <4>. QED
            BY <1>1, <2>1, <3>4, <4>1 DEF Still
    <3>5. ASSUME NEW d \in Closers, Live(s) \in proc[d].todo PROVE FALSE
      <4>1. OnEntries(d)
            BY <3>5 DEF IInv, CloserSound, ListCleared
      <4>. QED
            BY <1>2, <4>1 DEF OnEntries, Closing
    <3>. QED
          BY <2>2, <3>1, <3>2, <3>3, <3>4, <3>5 DEF InCharge, Holding
  <2>5. session[s] \in {"none", "open", "dead", "closing", "closed"}
        BY <2>1 DEF IInv, TypeOK, PoolType
  <2>. QED
        BY <1>2, <2>3, <2>4, <2>5 DEF Unclosed
<1>. QED
      BY <1>1, <1>2

\* Once close_run or close_session has returned, nothing it covers has a task, and when no other
\* close is under way every session it covers is closed.
THEOREM ClosedRunQuiet == Spec => []ClosedRunIsQuiet
<1>1. IInv => ClosedRunIsQuiet
      BY QuietOnceReturned DEF ClosedRunIsQuiet
<1>. QED
      BY <1>1, Invariant, PTL

\* A lost session stays lost: no open that was under way, and no later close, brings it back.
THEOREM LostIsFinal == Spec => LostStaysLost
<1>1. IInv /\ [Next]_vars => [\A k \in Keys : entries[k] = Lost => entries'[k] = Lost]_vars
  <2> SUFFICES ASSUME IInv, [Next]_vars, NEW k \in Keys, entries[k] = Lost
               PROVE  entries'[k] = Lost
        OBVIOUS
  <2>1. \A e : Lost # Opening(e) /\ Lost.state = "lost"
        BY DEF Lost, Opening
  <2>. QED
        BY <2>1, EntryChange DEF IInv, Opens, Publishes
<1>. QED
      BY <1>1, Invariant, PTL DEF Spec, LostStaysLost
=============================================================================
