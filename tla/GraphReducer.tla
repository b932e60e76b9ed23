---------------------------- MODULE GraphReducer ----------------------------
(***************************************************************************)
(* The pure reduction of an admitted graph over the executions one run has *)
(* recorded (zeroshot/src/full_v1_reducer.rs and its companion modules, in *)
(* the NativeV2 execution mode the supervisor uses).  Nothing is kept      *)
(* between two reductions: every call walks the whole tree again, decides  *)
(* from the history what each node has done, and returns the dispatches    *)
(* and the voids that follow.  It is a recursive walk, so only TLC reasons *)
(* about it.                                                               *)
(*                                                                         *)
(* A graph node is a record with a "kind" and a "name":                    *)
(*   step, verifier  attempts, reads, writes                               *)
(*   seq             children, promotes                                    *)
(*   choice          branches (when, node), otherwise, promotes            *)
(*   par             branches, join (kind, count, when), promotes          *)
(*   loop            body, until (a guard or Never), max, promotes         *)
(*   map             body, items, max, promotes                            *)
(*   succeed         reads                                                 *)
(*   fail            reason                                                *)
(* A state path is a flat name and its value is the sequence of executions *)
(* it was made from: <<>> for what the initial input holds, <<e>> for what *)
(* execution e wrote, and the items' values in input order for a promoted  *)
(* map.  That is all an input comparison or a promotion can tell apart.    *)
(* "items" is the length of the array the map's selector finds.            *)
(***************************************************************************)
EXTENDS Integers, Sequences, FiniteSets, TLC, SequencesExt

\* HistoryPosition::MAX: later than every position of a history.
MaxPosition == 100000

Never == [kind |-> "never", name |-> "never"]

\* The labels of the worker error channel; only a crash is retried.
ErrorLabels == {"timeout", "crash", "malformed", "refusal"}

Pending == [kind |-> "pending", position |-> MaxPosition]
Continue(position) == [kind |-> "continue", position |-> position]
Terminal(result) == [kind |-> "terminal", position |-> 0, result |-> result]
\* A ReducerError, which ends the walk at once.
Refused == [kind |-> "error", position |-> MaxPosition]

Later(a, b) == IF a > b THEN a ELSE b

\* Status::after: a terminal found after other children is not earlier than they are.
After(status, prior) ==
    IF status.kind = "terminal"
    THEN [status EXCEPT !.position = Later(status.position, prior)]
    ELSE status

IsExecutable(node) == node.kind \in {"step", "verifier"}

graph_node_children(node) ==
    CASE node.kind = "seq"            -> node.children
      [] node.kind = "par"            -> node.branches
      [] node.kind = "choice"         -> [i \in DOMAIN node.branches |-> node.branches[i].node]
                                         \o <<node.otherwise>>
      [] node.kind \in {"loop", "map"} -> <<node.body>>
      [] OTHER                        -> <<>>

RECURSIVE Nodes(_, _)
\* collect_map_depths: every node of a tree with the number of maps around it.
Nodes(node, depth) ==
    LET below == IF node.kind = "map" THEN depth + 1 ELSE depth
        kids  == graph_node_children(node)
    IN  {[node |-> node, depth |-> depth]} \cup UNION {Nodes(kids[i], below) : i \in DOMAIN kids}

descendant_names(node) == {d.node.name : d \in Nodes(node, 0)}

MapDepths(root) ==
    [n \in descendant_names(root) |-> (CHOOSE d \in Nodes(root, 0) : d.node.name = n).depth]

-----------------------------------------------------------------------------
(* The context of a walk: the state, the control labels, the number of the *)
(* last visit of each occurrence (the "__reducer_visit" control), and the  *)
(* paths written since the enclosing group began.                          *)

Context(paths) == [state |-> [p \in paths |-> <<>>], controls |-> <<>>, visits |-> <<>>, writes |-> {}]

StartsWith(indices, scope) == IsPrefix(scope, indices)

\* merge_runtime_facts: what the source has seen overrides the target's.
merge_runtime_facts(source, target) ==
    [target EXCEPT !.controls = source.controls @@ target.controls,
                   !.visits   = source.visits @@ target.visits]

Scoped(facts, names, scope) ==
    [k \in {k \in DOMAIN facts : k.node \in names /\ StartsWith(k.indices, scope)} |-> facts[k]]

\* merge_scoped_runtime_facts: only the facts of the named nodes in this map scope.
merge_scoped_runtime_facts(source, target, names, scope) ==
    merge_runtime_facts([source EXCEPT !.controls = Scoped(source.controls, names, scope),
                                       !.visits   = Scoped(source.visits, names, scope)], target)

Unscoped(facts, names, scope) ==
    [k \in {k \in DOMAIN facts : ~(k.node \in names /\ StartsWith(k.indices, scope))} |-> facts[k]]

\* Mutant: the visit numbers are forgotten with the labels.
Bug_clear_forgets_visits(context, names, scope) ==
    [context EXCEPT !.controls = Unscoped(context.controls, names, scope),
                    !.visits   = Unscoped(context.visits, names, scope)]

\* clear_scoped_runtime_facts: a new iteration forgets the labels and keeps the visit numbers.
clear_scoped_runtime_facts(context, names, scope) ==
    [context EXCEPT !.controls = Unscoped(context.controls, names, scope)]

ControlKey(node, field, indices) == [node |-> node, field |-> field, indices |-> indices]

set_control(engine, context, node, field, label, indices) ==
    LET key == ControlKey(node, field, SubSeq(indices, 1, engine.depths[node]))
    IN  [context EXCEPT !.controls = (key :> label) @@ context.controls]

\* control_values: one label, or the labels of every item when the selected
\* node is in a map the reader is outside of.
ControlKeys(engine, context, selector, indices) ==
    LET depth == engine.depths[selector.node]
    IN  {k \in DOMAIN context.controls :
            /\ k.node = selector.node /\ k.field = selector.field
            /\ IF depth > Len(indices)
               THEN StartsWith(k.indices, indices) /\ Len(k.indices) = depth
               ELSE k.indices = SubSeq(indices, 1, depth)}

Matching(engine, context, selector, labels, indices) ==
    {k \in ControlKeys(engine, context, selector, indices) : context.controls[k] \in labels}

RECURSIVE guard(_, _, _, _)
guard(engine, when, context, indices) ==
    CASE when.kind = "never" -> FALSE
      [] when.kind = "in"  -> Matching(engine, context, when.value, when.labels, indices) # {}
      [] when.kind = "not" -> ~guard(engine, when.guard, context, indices)
      [] when.kind = "all" -> \A g \in when.guards : guard(engine, g, context, indices)
      [] when.kind = "any" -> \E g \in when.guards : guard(engine, g, context, indices)
      [] when.kind = "k_of_n" ->
            Cardinality({s \in when.values : Matching(engine, context, s, when.labels, indices) # {}})
                >= when.count
      [] when.kind = "k_of_map" ->
            Cardinality(Matching(engine, context, when.value, when.labels, indices)) >= when.count

\* promote: the group's promoted paths move to the parent, optional ones only if
\* the group wrote them, with every runtime fact the group collected.
promote(paths, optional, local, parent) ==
    LET moved == {p \in paths : p \in optional => p \in local.writes}
    IN  merge_runtime_facts(local,
            [parent EXCEPT !.state  = [p \in moved |-> local.state[p]] @@ parent.state,
                           !.writes = parent.writes \cup (local.writes \cap paths)])

-----------------------------------------------------------------------------
(* The engine carries what the walk reads and collects; `uses` records the *)
(* loop iterations each recorded execution was used in, for the properties.*)

Engine(root, history) ==
    [history |-> history, depths |-> MapDepths(root), consumed |-> {}, cutoffs |-> <<>>,
     dispatches |-> <<>>, voids |-> <<>>, boundary |-> <<>>, uses |-> {}]

Result(status, context, engine) == [status |-> status, context |-> context, engine |-> engine]

\* The executions of one occurrence in dispatch order: ids are given in that order.
Occurrences(engine, node, indices) ==
    SetToSortSeq({e \in DOMAIN engine.history :
                     engine.history[e].node = node /\ engine.history[e].indices = indices}, <)

\* native_visit_executions: a visit begins at every first attempt.
native_visit_executions(engine, matching, number) ==
    SelectSeq(matching, LAMBDA e :
        Cardinality({f \in Range(matching) : f <= e /\ engine.history[f].attempt = 1}) = number)

NextInstance(engine) ==
    1 + Cardinality({<<r.node, r.indices>> : r \in Range(engine.history) \cup Range(engine.dispatches)})

\* record_boundary: every dispatch of one reduction belongs to one visit of one
\* executable or of its outermost parallel or map group.
Boundary(node, traversal, attempt) ==
    IF traversal.boundary # <<>> THEN traversal.boundary
    ELSE <<node.name, traversal.indices, traversal.iterations, attempt>>

Dispatch(node, context, traversal, engine, attempt, input, instance) ==
    LET boundary == Boundary(node, traversal, attempt)
        decision == [node |-> node.name, indices |-> traversal.indices, attempt |-> attempt,
                     instance |-> instance, input |-> input]
    IN  IF traversal.mode = "probe" \/ traversal.cutoff # MaxPosition
        THEN Result(Pending, context, engine)
        ELSE IF engine.boundary \notin {<<>>, boundary}
        THEN Result(Refused, context, engine)
        ELSE Result(Pending, context,
                    [engine EXCEPT !.boundary = boundary,
                                   !.dispatches = Append(engine.dispatches, decision)])

\* apply_outcome: an error sets its label and writes nothing.
apply_outcome(node, execution, outcome, context, traversal, engine) ==
    LET set(field) == set_control(engine, context, node.name, field, outcome, traversal.indices)
        wrote(c)   == [c EXCEPT !.state  = [p \in node.writes |-> <<execution>>] @@ c.state,
                                !.writes = c.writes \cup node.writes]
    IN  IF outcome \in ErrorLabels THEN set("error")
        ELSE IF node.kind = "verifier" THEN wrote(set("signal"))
        ELSE wrote(context)

\* finish_existing_execution: what the last execution of the visit says now.
finish_existing_execution(node, execution, input, context, traversal, engine) ==
    LET recorded == engine.history[execution]
    IN  IF \/ recorded.dispatched > traversal.cutoff
           \/ recorded.state # "settled"
           \/ recorded.position > traversal.cutoff
        THEN Result(Pending, context, engine)
        ELSE IF recorded.outcome = "crash" /\ recorded.attempt < node.attempts
        THEN Dispatch(node, context, traversal, engine, recorded.attempt + 1, input, recorded.instance)
        ELSE Result(Continue(recorded.position),
                    apply_outcome(node, execution, recorded.outcome, context, traversal, engine), engine)

\* eval_executable: resolve the visit, check and consume its executions, then
\* dispatch it or read its outcome.
eval_executable(node, context, traversal, engine) ==
    LET key      == ControlKey(node.name, "visit", traversal.indices)
        number   == 1 + (IF key \in DOMAIN context.visits THEN context.visits[key] ELSE 0)
        matching == Occurrences(engine, node.name, traversal.indices)
        visit    == native_visit_executions(engine, matching, number)
        input    == [p \in node.reads |-> context.state[p]]
        marked   == [context EXCEPT !.visits = (key :> number) @@ context.visits]
        used     == [engine EXCEPT !.consumed = @ \cup Range(visit),
                                   !.uses = @ \cup {<<e, traversal.iterations>> : e \in Range(visit)}]
    IN  IF \/ \E e \in Range(visit) : engine.history[e].input # input
           \/ visit # <<>> /\ engine.history[Last(visit)].attempt > node.attempts
        THEN Result(Refused, context, engine)
        ELSE IF visit = <<>>
        THEN Dispatch(node, marked, traversal, used, 1, input,
                      IF matching = <<>> THEN NextInstance(engine) ELSE engine.history[Last(matching)].instance)
        ELSE finish_existing_execution(node, Last(visit), input, marked, traversal, used)

-----------------------------------------------------------------------------
RECURSIVE Eval(_, _, _, _)

RECURSIVE EvalChildren(_, _, _, _, _)
EvalChildren(children, context, traversal, engine, position) ==
    IF children = <<>> THEN Result(Continue(position), context, engine)
    ELSE LET first == Eval(Head(children), context, traversal, engine)
         IN  IF first.status.kind = "continue"
             THEN EvalChildren(Tail(children), first.context, traversal, first.engine,
                               Later(position, first.status.position))
             ELSE [first EXCEPT !.status = After(first.status, position)]

eval_sequence(group, context, traversal, engine) ==
    LET run == EvalChildren(group.children, [context EXCEPT !.writes = {}], traversal, engine, 0)
    IN  IF run.status.kind = "continue"
        THEN [run EXCEPT !.context = promote(group.promotes, group.optional, run.context, context)]
        ELSE run

\* eval_choice: the first branch whose guard holds, otherwise the fallback.
eval_choice(group, context, traversal, engine) ==
    LET local    == [context EXCEPT !.writes = {}]
        open     == {i \in DOMAIN group.branches :
                        guard(engine, group.branches[i].when, local, traversal.indices)}
        selected == IF open = {} THEN group.otherwise
                    ELSE group.branches[CHOOSE i \in open : \A j \in open : i <= j].node
        run      == Eval(selected, local, traversal, engine)
    IN  IF selected.kind = "never" THEN Result(Refused, context, engine)
        ELSE IF run.status.kind = "continue"
        THEN [run EXCEPT !.context = promote(group.promotes, group.optional, run.context, context)]
        ELSE run

\* finish_loop: the parent forgets what it knew of the body, then learns the last iteration's facts.
finish_loop(group, local, context, traversal, engine, position, label) ==
    LET names    == descendant_names(group)
        labelled == set_control(engine, local, group.name, "terminated", label, traversal.indices)
    IN  Result(Continue(position),
               promote(group.promotes, group.optional, labelled,
                       clear_scoped_runtime_facts(context, names, traversal.indices)), engine)

RECURSIVE EvalIterations(_, _, _, _, _, _, _)
EvalIterations(group, local, context, traversal, engine, iteration, position) ==
    LET fresh == [clear_scoped_runtime_facts(local, descendant_names(group), traversal.indices)
                     EXCEPT !.writes = {}]
        run   == Eval(group.body, fresh,
                      [traversal EXCEPT !.iterations = Append(traversal.iterations, iteration)], engine)
        ended == Later(position, run.status.position)
    IN  IF run.status.kind # "continue" THEN [run EXCEPT !.status = After(run.status, position)]
        ELSE IF guard(run.engine, group.until, run.context, traversal.indices)
        THEN finish_loop(group, run.context, context, traversal, run.engine, ended, "converged")
        ELSE IF iteration = group.max
        THEN finish_loop(group, run.context, context, traversal, run.engine, ended, "exhausted")
        ELSE EvalIterations(group, run.context, context, traversal, run.engine, iteration + 1, ended)

eval_loop(group, context, traversal, engine) ==
    EvalIterations(group, context, context, traversal, engine, 1, 0)

RECURSIVE EvalEach(_, _, _)
\* Every job from the same context, the engine passing through all of them.
EvalEach(jobs, context, engine) ==
    IF jobs = <<>> THEN [results |-> <<>>, engine |-> engine]
    ELSE LET first == Eval(Head(jobs).node, [context EXCEPT !.writes = {}], Head(jobs).traversal, engine)
             rest  == EvalEach(Tail(jobs), context, first.engine)
         IN  [results |-> <<first>> \o rest.results, engine |-> rest.engine]

AnyStatus(results, kind) == \E i \in DOMAIN results : results[i].status.kind = kind

-----------------------------------------------------------------------------
(* Voiding: what a join or a terminal map item leaves behind is cut off at *)
(* that position; a void is decided once, for what is still active.        *)

record_void_cutoff(engine, losers, position, reason) ==
    LET earlier == {e \in losers : e \in DOMAIN engine.cutoffs /\ engine.cutoffs[e].position <= position}
    IN  [e \in losers \ earlier |-> [position |-> position, reason |-> reason]] @@ engine.cutoffs

VoidLosers(engine, lost, position, reason, mode) ==
    LET losers  == {e \in engine.consumed : lost[e] /\ engine.history[e].state # "settled"}
        cutoffs == record_void_cutoff(engine, losers, position, reason)
        decided == {e \in losers : mode = "decide" /\ engine.history[e].state = "active"}
    IN  [engine EXCEPT !.cutoffs = cutoffs,
                       !.voids = engine.voids @@ [e \in decided |-> cutoffs[e].reason]]

void_active_descendants(engine, branch, traversal, position) ==
    VoidLosers(engine,
        [e \in DOMAIN engine.history |->
            /\ engine.history[e].node \in descendant_names(branch)
            /\ StartsWith(engine.history[e].indices, traversal.indices)],
        position, "parallel_join", traversal.mode)

void_map_losers(engine, body, traversal, winner, position) ==
    VoidLosers(engine,
        [e \in DOMAIN engine.history |->
            /\ engine.history[e].node \in descendant_names(body)
            /\ StartsWith(engine.history[e].indices, traversal.indices)
            /\ ~StartsWith(engine.history[e].indices, winner)],
        position, "map_terminal", traversal.mode)

-----------------------------------------------------------------------------
parallel_join_required(group) ==
    CASE group.join.kind = "all"             -> Len(group.branches)
      [] group.join.kind \in {"any", "first"} -> 1
      [] group.join.kind = "quorum"          -> group.join.count

\* record_parallel_control: the label of a join that was reached, or that no longer can be.
record_parallel_control(engine, group, context, traversal, reached) ==
    IF group.join.kind = "first"
    THEN set_control(engine, context, group.name, "raced",
                     IF reached THEN "satisfied" ELSE "no_satisfier", traversal.indices)
    ELSE set_control(engine, context, group.name, "joined",
                     IF reached THEN "reached" ELSE "quorum_unreachable", traversal.indices)

\* Mutant: a first join takes any completion.
Bug_parallel_completions_unguarded(group, probes, traversal, engine) ==
    {i \in DOMAIN probes : probes[i].status.kind = "continue"}

\* parallel_completions: the branches that completed (and satisfy a first join).
parallel_completions(group, probes, traversal, engine) ==
    {i \in DOMAIN probes :
        /\ probes[i].status.kind = "continue"
        /\ group.join.kind = "first" => guard(engine, group.join.when, probes[i].context, traversal.indices)}

BranchJobs(group, traversal) ==
    [i \in DOMAIN group.branches |-> [node |-> group.branches[i], traversal |-> traversal]]

\* unreached_parallel_join: wait, dispatching what is missing, while a branch can
\* still complete; otherwise go on with the failure label and no branch's facts.
unreached_parallel_join(group, context, traversal, probes, engine) ==
    IF AnyStatus(probes, "pending")
    THEN IF traversal.mode = "decide"
         THEN LET decided == EvalEach(BranchJobs(group, traversal), context, engine)
              IN  Result(IF AnyStatus(decided.results, "error") THEN Refused ELSE Pending,
                         context, decided.engine)
         ELSE Result(Pending, context, engine)
    ELSE LET positions == {probes[i].status.position : i \in DOMAIN probes} \cup {0}
         IN  Result(Continue(CHOOSE p \in positions : \A q \in positions : q <= p),
                    record_parallel_control(engine, group, context, traversal, FALSE), engine)

\* join_parallel_winners: the winners are walked again as of the join, and only
\* their promoted writes and their facts are kept.
MergeWinner(group, traversal, joined, index, run) ==
    LET kept == run.context.writes \cap group.promotes
    IN  merge_scoped_runtime_facts(run.context,
            [joined EXCEPT !.state  = [p \in kept |-> run.context.state[p]] @@ joined.state,
                           !.writes = joined.writes \cup kept],
            descendant_names(group.branches[index]), traversal.indices)

RECURSIVE MergeWinners(_, _, _, _, _)
MergeWinners(group, traversal, joined, winners, runs) ==
    IF winners = <<>> THEN joined
    ELSE MergeWinners(group, traversal, MergeWinner(group, traversal, joined, Head(winners), Head(runs)),
                      Tail(winners), Tail(runs))

RECURSIVE VoidBranches(_, _, _, _, _)
VoidBranches(engine, group, traversal, lost, position) ==
    IF lost = <<>> THEN engine
    ELSE VoidBranches(void_active_descendants(engine, group.branches[Head(lost)], traversal, position),
                      group, traversal, Tail(lost), position)

\* The order in which completions are counted: ledger position, then authored order.
Precedes(probes, a, b) ==
    \/ probes[a].status.position < probes[b].status.position
    \/ probes[a].status.position = probes[b].status.position /\ a < b

\* eval_parallel and finish_parallel_join: the first `required` completions win, the rest is voided.
eval_parallel(group, context, traversal, engine) ==
    LET probed   == EvalEach(BranchJobs(group, [traversal EXCEPT !.mode = "probe"]), context, engine)
        probes   == probed.results
        done     == parallel_completions(group, probes, traversal, probed.engine)
        required == parallel_join_required(group)
        ordered  == SetToSortSeq(done, LAMBDA a, b : Precedes(probes, a, b))
        winners  == SubSeq(ordered, 1, required)
        position == probes[Last(winners)].status.position
        again    == EvalEach([i \in DOMAIN winners |->
                                 [node |-> group.branches[winners[i]],
                                  traversal |-> [traversal EXCEPT !.cutoff = position]]],
                             context, probed.engine)
        joined   == MergeWinners(group, traversal, [context EXCEPT !.writes = {}], winners, again.results)
        lost     == SetToSortSeq(DOMAIN group.branches \ Range(winners), <)
    IN  IF AnyStatus(probes, "error") THEN Result(Refused, context, probed.engine)
        ELSE IF Cardinality(done) < required
        THEN unreached_parallel_join(group, context, traversal, probes, probed.engine)
        ELSE IF \E i \in DOMAIN again.results : again.results[i].status.kind # "continue"
        THEN Result(Refused, context, again.engine)
        ELSE Result(Continue(position),
                    record_parallel_control(again.engine, group,
                        [joined EXCEPT !.writes = joined.writes \cup context.writes], traversal, TRUE),
                    VoidBranches(again.engine, group, traversal, lost, position))

-----------------------------------------------------------------------------
ItemJobs(group, traversal, mode) ==
    [i \in 1..group.items |->
        [node |-> group.body,
         traversal |-> [traversal EXCEPT !.indices = Append(traversal.indices, i - 1), !.mode = mode]]]

\* finish_terminal_map_item: the earliest item that ends the graph decides; its rivals are voided.
finish_terminal_map_item(group, context, traversal, probed, index) ==
    LET scope    == Append(traversal.indices, index - 1)
        status   == probed.results[index].status
        again    == Eval(group.body, context,
                         [traversal EXCEPT !.indices = scope, !.cutoff = status.position], probed.engine)
        terminal == IF traversal.mode = "decide" THEN again.status ELSE status
        engine   == IF traversal.mode = "decide" THEN again.engine ELSE probed.engine
    IN  Result(terminal, context,
               void_map_losers(engine, group.body, traversal, scope, terminal.position))

\* finish_map: a path is collected only when every item wrote it.
RECURSIVE MergeItems(_, _, _, _)
MergeItems(group, traversal, context, results) ==
    IF results = <<>> THEN context
    ELSE MergeItems(group, traversal,
            merge_scoped_runtime_facts(Last(results).context, context, descendant_names(group.body),
                Append(traversal.indices, Len(results) - 1)), Front(results))

finish_map(group, context, traversal, engine, results) ==
    LET collected == {p \in group.promotes : \A i \in DOMAIN results : p \in results[i].context.writes}
        values(p) == FlattenSeq([i \in DOMAIN results |-> results[i].context.state[p]])
        local     == set_control(engine,
                        [context EXCEPT !.state  = [p \in collected |-> values(p)] @@ context.state,
                                        !.writes = context.writes \cup collected],
                        group.name, "overflow", "ok", traversal.indices)
        positions == {results[i].status.position : i \in DOMAIN results} \cup {0}
    IN  Result(Continue(CHOOSE p \in positions : \A q \in positions : q <= p),
               MergeItems(group, traversal, promote(collected, group.optional, local, context), results),
               engine)

\* Mutant: one item too many.
Bug_Overflows_late(group) == group.items > group.max + 1

\* More items than the verified bound: no item is evaluated (map_overflow).
Overflows(group) == group.items > group.max

eval_map(group, context, traversal, engine) ==
    LET probed  == EvalEach(ItemJobs(group, traversal, "probe"), context, engine)
        ends    == {i \in DOMAIN probed.results : probed.results[i].status.kind = "terminal"}
        at(i)   == probed.results[i].status.position
        first   == CHOOSE i \in ends : \A j \in ends : at(i) < at(j) \/ (at(i) = at(j) /\ i <= j)
        decided == IF traversal.mode = "probe" THEN probed
                   ELSE EvalEach(ItemJobs(group, traversal, "decide"), context, probed.engine)
    IN  IF Overflows(group)
        THEN Result(Continue(0),
                    set_control(engine, context, group.name, "overflow", "overflow", traversal.indices), engine)
        ELSE IF AnyStatus(probed.results, "error") THEN Result(Refused, context, probed.engine)
        ELSE IF ends # {} THEN finish_terminal_map_item(group, context, traversal, probed, first)
        ELSE IF AnyStatus(decided.results, "error") THEN Result(Refused, context, decided.engine)
        ELSE IF AnyStatus(decided.results, "pending") THEN Result(Pending, context, decided.engine)
        ELSE finish_map(group, context, traversal, decided.engine, decided.results)

\* Engine::eval: the outermost parallel or map group is the boundary of what it dispatches.
Eval(node, context, given, engine) ==
    LET traversal == IF given.boundary = <<>> /\ node.kind \in {"par", "map"}
                     THEN [given EXCEPT !.boundary = <<node.name, given.indices, given.iterations, 0>>]
                     ELSE given
    IN  CASE IsExecutable(node)    -> eval_executable(node, context, traversal, engine)
          [] node.kind = "seq"     -> eval_sequence(node, context, traversal, engine)
          [] node.kind = "choice"  -> eval_choice(node, context, traversal, engine)
          [] node.kind = "par"     -> eval_parallel(node, context, traversal, engine)
          [] node.kind = "loop"    -> eval_loop(node, context, traversal, engine)
          [] node.kind = "map"     -> eval_map(node, context, traversal, engine)
          [] node.kind = "succeed" -> Result(Terminal([succeeded |-> TRUE,
                                          output |-> [p \in node.reads |-> context.state[p]]]), context, engine)
          [] node.kind = "fail"    -> Result(Terminal([succeeded |-> FALSE, reason |-> node.reason]),
                                             context, engine)

-----------------------------------------------------------------------------
\* validate_native_attempt_lineage and validate_instance_lineage.
ValidHistory(root, history) ==
    /\ \A e \in DOMAIN history :
          /\ history[e].node \in descendant_names(root)
          /\ Len(history[e].indices) = MapDepths(root)[history[e].node]
    /\ \A e, f \in DOMAIN history :
          (history[e].instance = history[f].instance)
              <=> (history[e].node = history[f].node /\ history[e].indices = history[f].indices)
    /\ \A e \in DOMAIN history :
          LET before == {f \in 1..(e - 1) : history[f].instance = history[e].instance}
              prior  == history[CHOOSE f \in before : \A g \in before : g <= f]
          IN  IF before = {} THEN history[e].attempt = 1
              ELSE /\ prior.state # "active" /\ prior.position < history[e].dispatched
                   /\ history[e].attempt # 1 =>
                        /\ prior.state = "settled" /\ prior.outcome = "crash"
                        /\ history[e].attempt = prior.attempt + 1

\* ensure_history_consumed: every recorded execution belongs to the walk, and every
\* recorded void to a join or a terminal item that came before it.
HistoryConsumed(engine) ==
    \A e \in DOMAIN engine.history :
        /\ e \in engine.consumed
        /\ engine.history[e].state = "voided" =>
             /\ e \in DOMAIN engine.cutoffs
             /\ engine.history[e].position > engine.cutoffs[e].position
             /\ engine.history[e].reason = engine.cutoffs[e].reason

\* What evaluate returns for a finished walk of the graph.
Reduction(valid, run) ==
    [ok         |-> valid /\ run.status.kind # "error" /\ HistoryConsumed(run.engine),
     dispatches |-> run.engine.dispatches,
     voids      |-> run.engine.voids,
     boundary   |-> run.engine.boundary,
     uses       |-> run.engine.uses,
     terminal   |-> IF run.status.kind = "terminal" THEN <<run.status.result>> ELSE <<>>]

\* FullV1Reducer::evaluate.
reduce(root, paths, history) ==
    Reduction(ValidHistory(root, history),
              Eval(root, Context(paths),
                   [indices |-> <<>>, iterations |-> <<>>, boundary |-> <<>>,
                    mode |-> "decide", cutoff |-> MaxPosition], Engine(root, history)))
=============================================================================
