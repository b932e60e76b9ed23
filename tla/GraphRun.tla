------------------------------- MODULE GraphRun -------------------------------
(***************************************************************************)
(* A graph driven to its end: the supervisor's advance loop                *)
(* (zeroshot/src/native_v2_supervisor.rs) around the reducer.  It reduces  *)
(* the recorded history, cancels and awaits the losers it is told to void, *)
(* records the dispatches it is told to make, and otherwise waits for one  *)
(* execution to finish.  Executions finish in any order and with any       *)
(* outcome of their kind; while losers are being awaited other executions  *)
(* may finish too, so several events can separate two reductions.          *)
(* Stopping, failing and crashing runs are the Supervisor module's.        *)
(***************************************************************************)
EXTENDS GraphReducer

CONSTANTS Graphs,      \* the submitted graphs, one of which is run
          Deliveries,  \* the names of nodes with a delivery worker
          Decisions,   \* the names of nodes bound to a decision, which write nothing
          Paths,       \* the state paths the graphs use
          Errors       \* the error outcomes an execution may settle with

ASSUME ErrorsAssumption == Errors \subseteq ErrorLabels

VARIABLES graph,    \* the run's graph
          history,  \* the recorded executions, by execution id (durable_history)
          cursor,   \* the ledger's last event position
          pending,  \* pending_voids: the losers being awaited, with their reason
          phase,    \* "reduce", "awaiting", "voiding", "done" or "failed"
          result    \* <<>> or the terminal result of the graph

vars == <<graph, history, cursor, pending, phase, result>>

Active == {e \in DOMAIN history : history[e].state = "active"}

-----------------------------------------------------------------------------
(* Delivery: what admission refuses and what a successful end requires *)

Executables(node) == {d.node.name : d \in {d \in Nodes(node, 0) : IsExecutable(d.node)}}
Delivers(node) == Executables(node) \cap Deliveries # {}

\* Mutant: a delivery beside a writer is admitted when the writer comes first.
Bug_validate_ordered(root) ==
    \A d \in Nodes(root, 0) :
        /\ d.node.kind = "par" => \A i, j \in DOMAIN d.node.branches :
               i < j /\ Delivers(d.node.branches[i]) => Executables(d.node.branches[j]) = {}
        /\ d.node.kind = "map" /\ d.node.max > 1 => ~Delivers(d.node.body)

\* validate_delivery_concurrency: no branch of a parallel group delivers beside a branch
\* that executes anything, and no map delivers for several items.
validate_delivery_concurrency(root) ==
    \A d \in Nodes(root, 0) :
        /\ d.node.kind = "par" => \A i, j \in DOMAIN d.node.branches :
               i # j /\ Delivers(d.node.branches[i]) => Executables(d.node.branches[j]) = {}
        /\ d.node.kind = "map" /\ d.node.max > 1 => ~Delivers(d.node.body)

\* sole_delivery_node, as a set of at most one name.
sole_delivery_node ==
    LET names == Executables(graph) \cap Deliveries
    IN  IF Cardinality(names) = 1 THEN names ELSE {}

writer_nodes == Executables(graph) \ Decisions

Writers == {e \in DOMAIN history : history[e].node \in writer_nodes}

\* The writer execution that settled last.
LastWriter ==
    {e \in Writers : /\ history[e].state = "settled"
                     /\ \A f \in Writers : history[f].state = "settled" =>
                            history[f].position <= history[e].position}

\* confirmed_delivery_execution: the last writer is the delivery, its receipt matches, and
\* every other writer ended before it was dispatched.
confirmed_delivery_execution ==
    {e \in LastWriter :
        /\ history[e].node \in sole_delivery_node
        /\ history[e].outcome = "yes"
        /\ \A f \in Writers \ {e} :
               history[f].state # "active" /\ history[f].position < history[e].dispatched}

\* enforce_delivery_terminal: a graph with a delivery succeeds only if it is confirmed.
enforce_delivery_terminal(terminal) ==
    IF terminal[1].succeeded /\ sole_delivery_node # {} /\ confirmed_delivery_execution = {}
    THEN <<[succeeded |-> FALSE, reason |-> "delivery_unconfirmed"]>>
    ELSE terminal

-----------------------------------------------------------------------------
(* The drive loop *)

Init ==
    /\ graph \in {g \in Graphs : validate_delivery_concurrency(g)}
    /\ history = <<>>
    /\ cursor = 1            \* RunStarted
    /\ pending = <<>>
    /\ phase = "reduce"
    /\ result = <<>>

\* durable_execution of a NodeDispatched event recorded at this position.
Dispatched(decision, position) ==
    decision @@ [state |-> "active", dispatched |-> position, position |-> 0, outcome |-> "", reason |-> ""]

\* advance -> cancel_voids: the losers' tasks are told to stop.
cancel_voids(reduction) ==
    /\ DOMAIN reduction.voids # {}
    /\ pending' = reduction.voids
    /\ phase' = "voiding"
    /\ UNCHANGED <<graph, history, cursor, result>>

\* advance -> finish_reduction, refused while an execution is active; the outcome is
\* latched by latch_primary_graph.
finish_reduction(reduction) ==
    /\ DOMAIN reduction.voids = {}
    /\ reduction.terminal # <<>>
    /\ IF Active = {} THEN phase' = "done" /\ result' = enforce_delivery_terminal(reduction.terminal)
                      ELSE phase' = "failed" /\ UNCHANGED result
    /\ UNCHANGED <<graph, history, cursor, pending>>

\* advance -> dispatch: every dispatch is one event of one batch.
dispatch(reduction) ==
    /\ DOMAIN reduction.voids = {} /\ reduction.terminal = <<>>
    /\ reduction.dispatches # <<>>
    /\ history' = history \o [i \in DOMAIN reduction.dispatches |->
                                 Dispatched(reduction.dispatches[i], cursor + i)]
    /\ cursor' = cursor + Len(reduction.dispatches)
    /\ UNCHANGED <<graph, pending, phase, result>>

\* advance -> await_completion; with no task to join it is InvalidState.
await_completion(reduction) ==
    /\ DOMAIN reduction.voids = {} /\ reduction.terminal = <<>> /\ reduction.dispatches = <<>>
    /\ phase' = IF Active = {} THEN "failed" ELSE "awaiting"
    /\ UNCHANGED <<graph, history, cursor, pending, result>>

\* drive_active_program's loop: reduce the recorded history and act on it, or fail
\* the run when the reducer refuses the history.
advance ==
    /\ phase = "reduce"
    /\ \E reduction \in {reduce(graph, Paths, history)} :
           IF reduction.ok
           THEN \/ cancel_voids(reduction)
                \/ finish_reduction(reduction)
                \/ dispatch(reduction)
                \/ await_completion(reduction)
           ELSE phase' = "failed" /\ UNCHANGED <<graph, history, cursor, pending, result>>

Outcomes(e) ==
    LET node == (CHOOSE d \in Nodes(graph, 0) : d.node.name = history[e].node).node
    IN  Errors \cup (IF node.kind = "verifier" THEN {"yes", "no"} ELSE {"verified"})

\* Mutant: a loser that was voided is awaited for ever.
Bug_settle_keeps_pending(e) ==
    /\ phase \in {"awaiting", "voiding"} /\ e \in Active
    /\ IF e \in DOMAIN pending
       THEN history' = [history EXCEPT ![e].state = "voided", ![e].position = cursor + 1,
                                       ![e].reason = pending[e]]
       ELSE \E outcome \in Outcomes(e) :
                history' = [history EXCEPT ![e].state = "settled", ![e].position = cursor + 1,
                                           ![e].outcome = outcome]
    /\ cursor' = cursor + 1
    /\ phase' = IF DOMAIN pending = {} THEN "reduce" ELSE "voiding"
    /\ UNCHANGED <<graph, pending, result>>

\* settle: one finished task is recorded, as a void if it was being awaited as a loser.
settle(e) ==
    /\ phase \in {"awaiting", "voiding"} /\ e \in Active
    /\ \/ /\ e \in DOMAIN pending
          /\ history' = [history EXCEPT ![e].state = "voided", ![e].position = cursor + 1,
                                        ![e].reason = pending[e]]
          /\ pending' = [f \in DOMAIN pending \ {e} |-> pending[f]]
       \/ /\ e \notin DOMAIN pending
          /\ \E outcome \in Outcomes(e) :
                history' = [history EXCEPT ![e].state = "settled", ![e].position = cursor + 1,
                                           ![e].outcome = outcome]
          /\ UNCHANGED pending
    /\ cursor' = cursor + 1
    /\ phase' = IF DOMAIN pending' = {} THEN "reduce" ELSE "voiding"
    /\ UNCHANGED <<graph, result>>

\* A run that is over stays over.
Over == phase \in {"done", "failed"} /\ UNCHANGED vars

Next ==
    \/ advance
    \/ \E e \in Active : settle(e)
    \/ Over

Spec == Init /\ [][Next]_vars

\* The drive loop is polled and every worker finishes, so a run that can take a step
\* takes one: weak fairness of Next, with ENABLED <<Next>>_vars spelled out.
Runnable == phase = "reduce" \/ (phase \in {"awaiting", "voiding"} /\ Active # {})

Fairness == []<>~Runnable \/ []<><<TRUE>>_vars

FairSpec == Spec /\ Fairness

-----------------------------------------------------------------------------
(* The bounds the graph verifier proves (graph_verifier/analyzer_bounds.rs). *)

RECURSIVE fold_node(_)
RECURSIVE fold_children(_)

\* The sums and the maxima of the children's folds.
fold_children(kids) ==
    IF kids = <<>> THEN [sum |-> [executions |-> 0, concurrency |-> 0],
                         max |-> [executions |-> 0, concurrency |-> 0]]
    ELSE LET first == fold_node(Head(kids))
             rest  == fold_children(Tail(kids))
         IN  [sum |-> [executions  |-> first.executions + rest.sum.executions,
                       concurrency |-> first.concurrency + rest.sum.concurrency],
              max |-> [executions  |-> Later(first.executions, rest.max.executions),
                       concurrency |-> Later(first.concurrency, rest.max.concurrency)]]

fold_node(node) ==
    LET kids == fold_children(graph_node_children(node))
    IN  CASE IsExecutable(node)   -> [executions |-> 1, concurrency |-> 1]
          [] node.kind = "seq"    -> [kids.sum EXCEPT !.concurrency = kids.max.concurrency]
          [] node.kind = "choice" -> kids.max
          [] node.kind = "map"    -> [executions |-> node.max * kids.sum.executions,
                                      concurrency |-> node.max * kids.sum.concurrency]
          [] node.kind = "loop"   -> [kids.sum EXCEPT !.executions = node.max * kids.sum.executions]
          [] OTHER                -> kids.sum

-----------------------------------------------------------------------------
\* Retries stay within a structural visit and a revisit starts anew: no recorded
\* execution is read as the outcome of two different rounds of a loop.
EveryRoundRunsAfresh ==
    LET uses == reduce(graph, Paths, history).uses
    IN  \A u, v \in uses : u[1] = v[1] => u[2] = v[2]

\* The run stays within the bounds the verifier proved for its graph: first
\* attempts within the execution bound, running executions within the peak.
WithinStructuralBounds ==
    /\ Cardinality({e \in DOMAIN history : history[e].attempt = 1}) <= fold_node(graph).executions
    /\ Cardinality(Active) <= fold_node(graph).concurrency

\* A parallel group whose branches are executables, outside loops and maps.
FlatPars == {d.node : d \in {d \in Nodes(graph, 0) :
                /\ d.node.kind = "par" /\ d.depth = 0
                /\ \A i \in DOMAIN d.node.branches : IsExecutable(d.node.branches[i])}}

InLoop(node) == \E d \in Nodes(graph, 0) : d.node.kind = "loop" /\ node.name \in descendant_names(d.node)

\* The branches' final executions that a join may count.
Completions(par) ==
    {e \in DOMAIN history :
        \E i \in DOMAIN par.branches :
            /\ history[e].node = par.branches[i].name
            /\ history[e].state = "settled"
            /\ history[e].outcome # "crash" \/ history[e].attempt = par.branches[i].attempts
            /\ par.join.kind = "first" => history[e].outcome = "yes"}

\* Every value a later execution was given, and every value of the result.
ValuesRead ==
    UNION {UNION {Range(history[e].input[p]) : p \in DOMAIN history[e].input} : e \in DOMAIN history}
        \cup (IF result # <<>> /\ result[1].succeeded
              THEN UNION {Range(result[1].output[p]) : p \in DOMAIN result[1].output} ELSE {})

Branch(par, e) == \E i \in DOMAIN par.branches : history[e].node = par.branches[i].name

\* Only a join's winners are read: what a branch wrote reaches a later input or the
\* result only if the branch counts for the join and fewer than `required` others
\* completed before it in the ledger, also when several finish between two reductions.
OnlyWinnersAreRead ==
    \A par \in {p \in FlatPars : ~InLoop(p)} : \A e \in ValuesRead : Branch(par, e) =>
        /\ e \in Completions(par)
        /\ Cardinality({f \in Completions(par) : history[f].position < history[e].position})
               < parallel_join_required(par)

\* Trusted delivery has exclusive mutation authority: while it runs no other writer does,
\* whatever lost, crashed or was abandoned before it, and a run with a delivery succeeds
\* only over a receipt that nothing has written behind, before or after a retry.
DeliveryIsExclusive ==
    LET others(e) == Writers \ {e}
    IN  /\ \A e \in Active : history[e].node \in Deliveries => others(e) \cap Active = {}
        /\ result # <<>> /\ result[1].succeeded /\ Delivers(graph) =>
               \E e \in DOMAIN history :
                   /\ history[e].node \in Deliveries /\ history[e].outcome = "yes"
                   /\ \A f \in others(e) : history[f].dispatched < history[e].dispatched
                                          /\ history[f].position < history[e].dispatched

\* Every graph ends, and ends in a terminal node: its loops and its retries are bounded,
\* and the supervisor neither waits for a loser that is gone nor stops while work is due.
GraphEnds == <>(phase = "done")
=============================================================================
