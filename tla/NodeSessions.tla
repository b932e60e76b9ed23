----------------------------- MODULE NodeSessions -----------------------------
(***************************************************************************)
(* The node runner's activity registry and session pool:                   *)
(* zeroshot/src/native_v2_runner.rs and its state module.                  *)
(*                                                                         *)
(* Every execution is a task of its own: it checks a session out of the    *)
(* pool, binds it, lets the driver run on it, gives it back and leaves the *)
(* registry.  close_run (the driving turn's, force_stop's, runtime_lost's) *)
(* and close_session run concurrently with the tasks and with each other.  *)
(* A step ends where the code releases a lock or awaits.                   *)
(*                                                                         *)
(* A session is named by the execution that opened it (an execution opens  *)
(* at most one) and so is the `ready` channel of an Opening entry.  What   *)
(* sessions and drivers do inside is external: a session may be lost at    *)
(* any time, opening it may fail or stall, a driver may return either way. *)
(***************************************************************************)
EXTENDS Naturals, FiniteSets

CONSTANTS Execs,       \* executions, positive numbers
          RunOf,       \* the run of an execution, a positive number
          SlotOf,      \* its session slot, or ExecutionScope
          ExecutionScope,
          Closers,     \* concurrent close_run and close_session calls
          Casts        \* the situations considered: the pool's boundary, the executions
                       \* that may start, and what each closer closes

ASSUME ExecAssumption ==
    /\ Execs \subseteq Nat \ {0}
    /\ RunOf \in [Execs -> Nat \ {0}]
    /\ Closers \cap Execs = {}
    /\ \A cast \in Casts : /\ cast.boundary \in {"Run", "Owner"} /\ cast.execs \subseteq Execs
                            /\ DOMAIN cast.closes \subseteq Closers
                            /\ \A c \in DOMAIN cast.closes : cast.closes[c] \in Nat

VARIABLES boundary,     \* the pool's ReusableSessionBoundary
          active,       \* ActivityState: executions registered
          binding,      \*   the session an active execution has bound
          closed_runs,  \*   runs that were closed
          closed,       \*   the runner was closed
          cancel,       \* the cancel channel of each execution
          ready,        \* the ready channel of each opener
          entries,      \* SessionPool's entries
          session,      \* every session's life
          proc          \* where each task and each closer is

vars == <<boundary, active, binding, closed_runs, closed, cancel, ready, entries, session, proc>>

registry == <<active, binding, closed_runs, closed>>

None == 0
Everything == 0   \* what close_session closes
Runs == {RunOf[e] : e \in Execs}
Slots == {SlotOf[e] : e \in Execs} \ {ExecutionScope}

Reusable(e) == SlotOf[e] # ExecutionScope

\* The run of a key is None when the owner, and not the run, keeps the session.
Keys == (Runs \cup {None}) \X Slots
reusable_key(e) == <<IF boundary = "Run" THEN RunOf[e] ELSE None, SlotOf[e]>>

Absent == [state |-> "absent", of |-> None]
Opening(e) == [state |-> "opening", of |-> e]
Live(s) == [state |-> "live", of |-> s]
Replaceable == [state |-> "replaceable", of |-> None]
Lost == [state |-> "lost", of |-> None]

\* A process: where it is, the session or opener it deals with, and where it goes once
\* the session is closed.  A closer has besides the run it closes, the executions it
\* waits for, the bindings <<execution, session>> and the entries it still has to close.
Task(pc, on, then) == [pc |-> pc, on |-> on, then |-> then]
Closer(pc, run, targets, bound) ==
    [pc |-> pc, on |-> None, then |-> "none",
     run |-> run, targets |-> targets, bound |-> bound, todo |-> {}]

Init ==
    /\ active = {} /\ closed_runs = {} /\ closed = FALSE
    /\ binding = [e \in Execs |-> None]
    /\ cancel = [e \in Execs |-> FALSE]
    /\ ready = [e \in Execs |-> FALSE]
    /\ entries = [k \in Keys |-> Absent]
    /\ session = [e \in Execs |-> "none"]
    /\ \E cast \in Casts :
          /\ boundary = cast.boundary
          /\ proc = [p \in Execs \cup Closers |->
                       IF p \in Execs
                       THEN Task(IF p \in cast.execs THEN "idle" ELSE "unused", None, "none")
                       ELSE IF p \in DOMAIN cast.closes THEN Closer("idle", cast.closes[p], {}, {})
                       ELSE Closer("unused", None, {}, {})]

RunClosed(e) == closed \/ RunOf[e] \in closed_runs

-------------------------------------------------------------------------------
(* Closing a session, for tasks and closers alike *)

Unclosed(s) == session[s] \in {"open", "dead"}

\* is_live: not closed by the pool and not lost by the provider.
is_live(s) == session[s] = "open"

\* ManagedSession::close: the first to swap the flag closes the session, anyone later
\* goes on at once.
close(p) ==
    /\ proc[p].pc = "closing"
    /\ IF Unclosed(proc[p].on)
       THEN /\ session' = [session EXCEPT ![proc[p].on] = "closing"]
            /\ proc' = [proc EXCEPT ![p].pc = "inner_close"]
       ELSE /\ proc' = [proc EXCEPT ![p].pc = proc[p].then]
            /\ UNCHANGED session
    /\ UNCHANGED <<boundary, registry, cancel, ready, entries>>

inner_close(p) ==
    /\ proc[p].pc = "inner_close"
    /\ session' = [session EXCEPT ![proc[p].on] = "closed"]
    /\ proc' = [proc EXCEPT ![p].pc = proc[p].then]
    /\ UNCHANGED <<boundary, registry, cancel, ready, entries>>

\* The provider loses the session by itself.
session_dies(s) ==
    /\ session[s] = "open"
    /\ session' = [session EXCEPT ![s] = "dead"]
    /\ UNCHANGED <<boundary, registry, cancel, ready, entries, proc>>

\* invalidate: the entry gives up this session, and no other.
invalidated(key, s, next) ==
    IF entries[key] = Live(s) THEN [entries EXCEPT ![key] = next] ELSE entries

-------------------------------------------------------------------------------
(* One execution's task *)

goes(e, pc, on) == proc' = [proc EXCEPT ![e] = Task(pc, on, "none")]
closes(e, s, then) == proc' = [proc EXCEPT ![e] = Task("closing", s, then)]

\* A run's pool is the run's own; the owner of a shared one starts a run's executions
\* only when the turn of every earlier run has ended, with its close_run.
MayStart(e) ==
    \A r \in Runs : r < RunOf[e] =>
        boundary = "Owner" /\ \E c \in Closers : proc[c].pc = "returned" /\ proc[c].run = r

\* start, with register: refused once the run is closed.
start(e) ==
    /\ proc[e].pc = "idle" /\ MayStart(e)
    /\ IF RunClosed(e)
       THEN /\ goes(e, "refused", None)
            /\ UNCHANGED active
       ELSE /\ active' = active \cup {e}
            /\ goes(e, "checkout", None)
    /\ UNCHANGED <<boundary, binding, closed_runs, closed, cancel, ready, entries, session>>

\* NodeHandle::cancel, or the handle dropped before its completion.
cancel_handle(e) ==
    /\ e \in active /\ ~cancel[e]
    /\ cancel' = [cancel EXCEPT ![e] = TRUE]
    /\ UNCHANGED <<boundary, registry, ready, entries, session, proc>>

\* checkout, with checkout_action under the pool's lock.
checkout(e) ==
    /\ proc[e].pc = "checkout"
    /\ \/ /\ ~Reusable(e)
          /\ goes(e, "opening", e)
          /\ UNCHANGED entries
       \/ /\ Reusable(e)
          /\ LET key == reusable_key(e)
                 entry == entries[key]
             IN  \/ /\ entry.state = "lost"
                    /\ goes(e, "returning", None)
                    /\ UNCHANGED entries
                 \/ /\ entry.state = "live"
                    /\ goes(e, "reusing", entry.of)
                    /\ UNCHANGED entries
                 \/ /\ entry.state = "opening"
                    /\ goes(e, "waiting", entry.of)
                    /\ UNCHANGED entries
                 \/ /\ entry.state \in {"absent", "replaceable"}
                    /\ entries' = [entries EXCEPT ![key] = Opening(e)]
                    /\ goes(e, "opening", e)
    /\ UNCHANGED <<boundary, registry, cancel, ready, session>>

\* wait_for_open: cancellation wins over the opener's signal.
wait_for_open(e) ==
    /\ proc[e].pc = "waiting"
    /\ \/ cancel[e] /\ goes(e, "returning", None)
       \/ ~cancel[e] /\ ready[proc[e].on] /\ goes(e, "checkout", None)
    /\ UNCHANGED <<boundary, registry, cancel, ready, entries, session>>

\* reuse: a session the provider lost is lost for good.
reuse(e) ==
    /\ proc[e].pc = "reusing"
    /\ \/ cancel[e] /\ goes(e, "returning", None)
       \/ ~cancel[e] /\ is_live(proc[e].on) /\ goes(e, "leased", proc[e].on)
       \/ ~cancel[e] /\ ~is_live(proc[e].on) /\ goes(e, "losing", proc[e].on)
    /\ UNCHANGED <<boundary, registry, cancel, ready, entries, session>>

\* Where an unsuccessful open_session leads: an execution-scoped one ends the execution.
unopened(e, pc) == IF Reusable(e) THEN pc ELSE "returning"

\* open_session up to the factory's answer.  Cancelling drops the factory's future.
open_cancelled(e) ==
    /\ proc[e].pc = "opening" /\ cancel[e]
    /\ goes(e, unopened(e, "open_cancelled"), e)
    /\ UNCHANGED <<boundary, registry, cancel, ready, entries, session>>

open_session(e) ==
    /\ proc[e].pc = "opening" /\ ~cancel[e]
    /\ \/ /\ session' = [session EXCEPT ![e] = "open"]
          /\ goes(e, "probing", e)
       \/ /\ goes(e, unopened(e, "open_failed"), e)
          /\ UNCHANGED session
    /\ UNCHANGED <<boundary, registry, cancel, ready, entries>>

\* open_session from there: a session not wanted any more, or not live, is closed first.
probe(e) ==
    /\ proc[e].pc = "probing"
    /\ \/ cancel[e] /\ closes(e, e, unopened(e, "open_cancelled"))
       \/ ~cancel[e] /\ ~is_live(e) /\ closes(e, e, unopened(e, "open_failed"))
       \/ ~cancel[e] /\ is_live(e) /\ goes(e, IF Reusable(e) THEN "opened" ELSE "leased", e)
    /\ UNCHANGED <<boundary, registry, cancel, ready, entries, session>>

\* still_opening_any: the opener publishes its session whatever became of the entry.
still_opening_any(e) == TRUE

still_opening(e) == entries[reusable_key(e)] = Opening(e)

\* What finish_open leaves in the entry it still owns.
opened_entry(e) ==
    CASE proc[e].pc = "opened" -> Live(e)
      [] proc[e].pc = "open_cancelled" -> IF boundary = "Run" THEN Lost ELSE Replaceable
      [] proc[e].pc = "open_failed" -> Absent

\* stale_open_kept: the late session is dropped instead of closed.
stale_open_kept(e) == goes(e, "returning", None)

\* A session opened for an entry that was closed meanwhile is closed.
stale_open(e) ==
    IF proc[e].pc = "opened" THEN closes(e, e, "returning") ELSE goes(e, "returning", None)

\* signalled_never: waiters are not woken.
signalled_never(e) == ready

signalled(e) == [ready EXCEPT ![e] = TRUE]

\* finish_open: the entry changes under the lock, the waiters are woken, and a stale
\* session is closed.
finish_open(e) ==
    /\ proc[e].pc \in {"opened", "open_cancelled", "open_failed"}
    /\ IF still_opening(e)
       THEN /\ entries' = [entries EXCEPT ![reusable_key(e)] = opened_entry(e)]
            /\ goes(e, IF proc[e].pc = "opened" THEN "leased" ELSE "returning", e)
       ELSE /\ stale_open(e)
            /\ UNCHANGED entries
    /\ ready' = signalled(e)
    /\ UNCHANGED <<boundary, registry, cancel, session>>

\* SessionLease::finish: only an unclean end gives up a reusable session.
finish_lease(e, clean) ==
    IF ~Reusable(e) THEN closes(e, proc[e].on, "returning")
    ELSE goes(e, IF clean THEN "returning" ELSE "replacing", proc[e].on)

bind_allowed(e) == ~RunClosed(e)

\* bind_session: refused once the run is closed, so that every session a driver runs on
\* was bound before the closer took its targets.
bind_session(e) ==
    /\ proc[e].pc = "leased"
    /\ IF bind_allowed(e)
       THEN /\ binding' = [binding EXCEPT ![e] = proc[e].on]
            /\ goes(e, "driving", proc[e].on)
       ELSE /\ finish_lease(e, FALSE)
            /\ UNCHANGED binding
    /\ UNCHANGED <<boundary, active, closed_runs, closed, cancel, ready, entries, session>>

\* The driver returns, and its outcome satisfies the response contract or does not.
drive(e) ==
    /\ proc[e].pc = "driving"
    /\ \E clean \in BOOLEAN : finish_lease(e, clean)
    /\ UNCHANGED <<boundary, registry, cancel, ready, entries, session>>

\* invalidate, on behalf of reuse (for good) or of an unclean lease (replaceable).
invalidate(e) ==
    /\ proc[e].pc \in {"losing", "replacing"}
    /\ entries' = invalidated(reusable_key(e), proc[e].on,
                              IF proc[e].pc = "losing" THEN Lost ELSE Replaceable)
    /\ closes(e, proc[e].on, "returning")
    /\ UNCHANGED <<boundary, registry, cancel, ready, session>>

deregistered(e) == active \ {e}

\* ActivityToken::finish, then the completion is sent.
finish(e) ==
    /\ proc[e].pc = "returning"
    /\ active' = deregistered(e)
    /\ binding' = [binding EXCEPT ![e] = None]
    /\ goes(e, "returned", None)
    /\ UNCHANGED <<boundary, closed_runs, closed, cancel, ready, entries, session>>

-------------------------------------------------------------------------------
(* close_run and close_session *)

Covers(run, r) == run = Everything \/ run = r

\* begin_close and begin_close_all, under the registry's lock: no start and no bind from
\* here on; the executions to cancel and the sessions they have bound.
begin_close(c) ==
    /\ proc[c].pc = "idle"
    /\ LET run == proc[c].run
           targets == {e \in active : Covers(run, RunOf[e])}
       IN  /\ closed' = (closed \/ run = Everything)
           /\ closed_runs' = IF run = Everything THEN closed_runs ELSE closed_runs \cup {run}
           /\ proc' = [proc EXCEPT ![c] =
                         Closer("cancelling", run, targets,
                                {<<e, binding[e]>> : e \in {t \in targets : binding[t] # None}})]
    /\ UNCHANGED <<boundary, active, binding, cancel, ready, entries, session>>

\* cancel_targets, after the lock is released.
cancel_targets(c) ==
    /\ proc[c].pc = "cancelling"
    /\ cancel' = [e \in Execs |-> cancel[e] \/ e \in proc[c].targets]
    /\ proc' = [proc EXCEPT ![c].pc = "bindings"]
    /\ UNCHANGED <<boundary, registry, ready, entries, session>>

\* close_bound, one binding at a time (the code's order is the registry's; any is allowed
\* here): the entry gives the session up, for good only when the runner closes.
close_bound(c) ==
    /\ proc[c].pc = "bindings"
    /\ \E b \in proc[c].bound :
          /\ entries' = IF Reusable(b[1])
                        THEN invalidated(reusable_key(b[1]), b[2],
                                         IF proc[c].run = Everything THEN Lost ELSE Replaceable)
                        ELSE entries
          /\ proc' = [proc EXCEPT ![c].pc = "closing", ![c].on = b[2], ![c].then = "bindings",
                                  ![c].bound = proc[c].bound \ {b}]
    /\ UNCHANGED <<boundary, registry, cancel, ready, session>>

\* The entries the pool gives up: the run's, or all of them.
doomed(run) == {k \in Keys : Covers(run, k[1]) /\ entries[k] # Absent}

\* Under the pool's lock, the entries are given up; closing them comes after.
give_up(c, run) ==
    /\ entries' = [k \in Keys |-> IF k \in doomed(run) THEN Lost ELSE entries[k]]
    /\ proc' = [proc EXCEPT ![c].pc = "entries",
                            ![c].todo = {entries[k] : k \in doomed(run)} \ {Replaceable, Lost}]

\* The pool's close_run and close_all: sessions an owner keeps survive the run.
close_pool(c) ==
    /\ proc[c].pc = "bindings" /\ proc[c].bound = {}
    /\ IF boundary = "Owner" /\ proc[c].run # Everything
       THEN /\ proc' = [proc EXCEPT ![c].pc = "awaiting"]
            /\ UNCHANGED entries
       ELSE give_up(c, proc[c].run)
    /\ UNCHANGED <<boundary, registry, cancel, ready, session>>

\* close_entries, one at a time (in any order): a live session is closed, the waiters of
\* one being opened are woken.
close_entry(c) ==
    /\ proc[c].pc = "entries"
    /\ \E x \in proc[c].todo :
          \/ /\ x.state = "live"
             /\ proc' = [proc EXCEPT ![c].pc = "closing", ![c].on = x.of, ![c].then = "entries",
                                     ![c].todo = proc[c].todo \ {x}]
             /\ UNCHANGED ready
          \/ /\ x.state = "opening"
             /\ ready' = signalled(x.of)
             /\ proc' = [proc EXCEPT ![c].todo = proc[c].todo \ {x}]
    /\ UNCHANGED <<boundary, registry, cancel, entries, session>>

entries_closed(c) ==
    /\ proc[c].pc = "entries" /\ proc[c].todo = {}
    /\ proc' = [proc EXCEPT ![c].pc = "awaiting"]
    /\ UNCHANGED <<boundary, registry, cancel, ready, entries, session>>

\* awaited_everyone: the closer waits for the executions of every run.
awaited_everyone(c) == active = {}

\* awaited_none: the closer does not wait for the tasks it cancelled.
awaited_none(c) == TRUE

awaited(c) == proc[c].targets \cap active = {}

wait_for_activity(c) ==
    /\ proc[c].pc = "awaiting" /\ awaited(c)
    /\ proc' = [proc EXCEPT ![c].pc = "returned"]
    /\ UNCHANGED <<boundary, registry, cancel, ready, entries, session>>

-------------------------------------------------------------------------------
(* What the code's own scheduling drives, and what may stall: a provider that opens a
   session and a driver that nobody cancelled. *)

TaskStep(e) ==
    \/ checkout(e) \/ wait_for_open(e) \/ reuse(e) \/ open_cancelled(e) \/ probe(e)
    \/ finish_open(e) \/ bind_session(e) \/ invalidate(e) \/ finish(e)
    \/ close(e) \/ inner_close(e)

CloserStep(c) ==
    \/ cancel_targets(c) \/ close_bound(c) \/ close_pool(c) \/ close_entry(c)
    \/ entries_closed(c) \/ wait_for_activity(c)
    \/ close(c) \/ inner_close(c)

Next ==
    \/ \E e \in Execs :
          \/ start(e) \/ cancel_handle(e) \/ open_session(e) \/ drive(e) \/ session_dies(e)
          \/ TaskStep(e)
    \/ \E c \in Closers :
          begin_close(c) \/ CloserStep(c)

Spec == Init /\ [][Next]_vars

\* Tasks and closers are scheduled, sessions finish closing, and a driver that was
\* cancelled returns (NodeDriver::run's contract).  Nothing obliges a provider to open a
\* session, or an uncancelled driver to return.
FairSpec ==
    /\ Spec
    /\ \A e \in Execs : WF_vars(TaskStep(e)) /\ WF_vars(cancel[e] /\ drive(e))
    /\ \A c \in Closers : WF_vars(CloserStep(c))

-------------------------------------------------------------------------------
(* Properties *)

\* A task not begun, or over.
Still == {"unused", "idle", "refused", "returned"}

\* Who will close a session, or hand it on: the pool, a process about to close it, its
\* opener, the holder of an execution-scoped lease, a closer's list.
InCharge(s) ==
    \/ \E k \in Keys : entries[k] = Live(s)
    \/ \E p \in Execs \cup Closers : proc[p].pc = "closing" /\ proc[p].on = s
    \/ \E e \in Execs : /\ proc[e].on = s
                        /\ \/ proc[e].pc \in {"probing", "opened", "losing", "replacing"}
                           \/ ~Reusable(e) /\ proc[e].pc \in {"leased", "driving"}
    \/ \E c \in Closers : Live(s) \in proc[c].todo

\* Every provider session is accounted for.  Whatever races with its opening (the run
\* closed, the entry given up, the execution cancelled), an unclosed session is in the pool
\* or somebody is in charge of closing it; and the pool offers no session that was closed:
\* invalidate, close_bound, close_run and close_all take the entry away before they close,
\* and a late opener cannot put it back.
SessionsAreAccountedFor ==
    /\ \A s \in Execs : Unclosed(s) => InCharge(s)
    /\ \A k \in Keys, s \in Execs : entries[k] = Live(s) => Unclosed(s) /\ reusable_key(s) = k

\* The sessions a close covers: all of the run's when the run owns them, its
\* execution-scoped ones when the owner keeps the others.
ClosedBy(c) ==
    {e \in Execs : /\ Covers(proc[c].run, RunOf[e])
                   /\ boundary = "Run" \/ proc[c].run = Everything \/ ~Reusable(e)}

\* After close_run or close_session has returned, no execution it covers has a task; and
\* once no close of the run is under way, no session it covers is left unclosed.
ClosedRunIsQuiet ==
    \A c \in Closers : proc[c].pc = "returned" =>
        /\ \A e \in Execs : Covers(proc[c].run, RunOf[e]) => proc[e].pc \in Still
        /\ \/ \E d \in Closers : proc[d].pc \notin {"unused", "idle", "returned"}
           \/ \A s \in ClosedBy(c) : session[s] \in {"none", "closed"}

\* What the runner's tests expect of one close_run
\* ("closing_a_run_closes_and_permanently_loses_its_reused_sessions"), for each close_run
\* that returns: the sessions are closed.  force_stop's close_run runs beside the driving
\* turn's, and the one that finds the entries already Lost returns first.
CloseRunClosesSessions ==
    \A c \in Closers : proc[c].pc = "returned" =>
        \A s \in ClosedBy(c) : session[s] \in {"none", "closed"}

\* A lost session stays lost ("Passive session loss remains permanently fail-closed"):
\* not even an open that was under way when the run closed brings the entry back.
LostStaysLost == [][\A k \in Keys : entries[k] = Lost => entries'[k] = Lost]_vars

\* close_run and close_session return: nobody they wait for waits for them.
CloseReturns == \A c \in Closers : proc[c].pc = "cancelling" ~> proc[c].pc = "returned"

\* Nobody is stuck: a cancelled execution ends wherever the cancellation met it, and nobody
\* keeps waiting for a session that is no longer being opened, because its opener failed,
\* was cancelled or was closed.
ExecutionsMoveOn ==
    \A e \in Execs :
        /\ cancel[e] ~> proc[e].pc = "returned"
        /\ proc[e].pc = "waiting" /\ proc[proc[e].on].pc = "returned" ~> proc[e].pc # "waiting"
===============================================================================
