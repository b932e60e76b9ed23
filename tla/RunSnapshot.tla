---------------------------- MODULE RunSnapshot ----------------------------
(***************************************************************************)
(* The projection of a run (RunSnapshot) and the rules by which a durable  *)
(* event changes it (v2_run_ledger/state.rs).  Every consumer of the       *)
(* ledger - the store's writer, the watch subscription's replay - folds    *)
(* events with the one function apply_event, so it is one pure operator.   *)
(*                                                                         *)
(* Optional fields are records of the same shape with a distinguished      *)
(* empty value, so that a snapshot always has the one type Snapshot.  A    *)
(* cursor "v2:n" is the number n.                                          *)
(***************************************************************************)
EXTENDS Integers, Sequences

CONSTANTS ExecutionIds,          \* execution identities, positive numbers
          Instances,             \* node instances an execution may belong to
          MaxTokens,             \* largest TokenCount (2^53-1 in the code)
          MaxRecordedFailures    \* MAX_RECORDED_FAILURES (5 in the code)

ASSUME SnapshotAssumption ==
    /\ ExecutionIds \subseteq Nat \ {0}
    /\ MaxTokens \in Nat
    /\ MaxRecordedFailures \in Nat \ {0}
    /\ Instances # {}

NoExecution == 0
NoTokens == -1                      \* an absent optional token counter
SomeInstance == CHOOSE i \in Instances : TRUE

-----------------------------------------------------------------------------
(* Types *)

Phases == {"admitted", "running", "stopping", "finished"}
Outcomes == {"verified", "verifier", "error"}
OptionalExecution == ExecutionIds \cup {NoExecution}

FailureContext == [present: BOOLEAN, primary: Nat, recorded: Seq(Nat), incomplete: BOOLEAN]
NoContext == [present |-> FALSE, primary |-> 0, recorded |-> <<>>, incomplete |-> FALSE]

TerminalResult == [reason: {"none", "succeeded", "failed", "force_stopped"},
                   context: FailureContext]
NoResult == [reason |-> "none", context |-> NoContext]

PrimaryGraphCompletion ==
    [result: TerminalResult, auxiliaryPending: BOOLEAN, delivery: OptionalExecution]
NoPrimary == [result |-> NoResult, auxiliaryPending |-> FALSE, delivery |-> NoExecution]

TokenUsage == [known: BOOLEAN, tokens: 0..MaxTokens, cache: NoTokens..MaxTokens, complete: BOOLEAN]
NoUsage == [known |-> FALSE, tokens |-> 0, cache |-> NoTokens, complete |-> FALSE]

NodeSnapshot == [state: {"absent", "active", "completed", "voided"}, instance: Instances,
                 startedAt: Nat, settledAt: Nat, outcome: Outcomes \cup {"none"},
                 diagnostic: BOOLEAN]
AbsentNode == [state |-> "absent", instance |-> SomeInstance, startedAt |-> 0,
               settledAt |-> 0, outcome |-> "none", diagnostic |-> FALSE]

PriorExecution == [execution: ExecutionIds, position: Nat,
                   state: {"active", "settled", "voided"}, outcome: Outcomes \cup {"none"}]

Snapshot ==
    [cursor: Nat, phase: Phases, forceStop: BOOLEAN,
     executions: [ExecutionIds -> NodeSnapshot], seed: Seq(PriorExecution),
     primary: PrimaryGraphCompletion, terminal: TerminalResult,
     usage: TokenUsage, failure: FailureContext]

\* The run a reference names: this one, or another (require_run refuses it).
ExecutionRef == [run: {"this", "other"}, execution: ExecutionIds, instance: Instances]
\* A delta the provider reported, or NoUsage when it reported that usage is unknown.
TokenUsageDelta == [known: {TRUE}, tokens: 0..MaxTokens, cache: NoTokens..MaxTokens]
Unreported == [known |-> FALSE, tokens |-> 0, cache |-> NoTokens]

RunEvent ==
    [kind: {"prior_execution"}, prior: PriorExecution]
    \cup [kind: {"run_started", "force_stop_requested"}]
    \cup [kind: {"node_started", "execution_voided"}, reference: ExecutionRef]
    \cup [kind: {"node_completed"}, reference: ExecutionRef,
          outcome: Outcomes \cup {"malformed"}]    \* artifacts, or an invalid failure pair
    \cup [kind: {"safe_log"}, execution: OptionalExecution,
          stream: {"output", "error", "system"},
          diagnostic: {"none", "failure", "incomplete"}]
    \cup [kind: {"token_usage_observed"}, execution: ExecutionIds,
          usage: TokenUsageDelta \cup {Unreported}]
    \cup [kind: {"run_token_usage_observed"}, usage: TokenUsageDelta \cup {Unreported}]
    \cup [kind: {"primary_graph_completed"}, result: TerminalResult \ {NoResult},
          auxiliaryPending: BOOLEAN, delivery: OptionalExecution]
    \cup [kind: {"terminal"}, result: TerminalResult \ {NoResult}]

-----------------------------------------------------------------------------
(* The empty projection a run is created with and replayed from *)

admitted ==
    [cursor |-> 0, phase |-> "admitted", forceStop |-> FALSE,
     executions |-> [e \in ExecutionIds |-> AbsentNode], seed |-> <<>>,
     primary |-> NoPrimary, terminal |-> NoResult, usage |-> NoUsage,
     failure |-> NoContext]

active_executions(s) == {e \in ExecutionIds : s.executions[e].state = "active"}

IsTerminal(s) == s.terminal.reason # "none"
HasPrimary(s) == s.primary.result.reason # "none"
SeedIds(s) == {s.seed[i].execution : i \in 1..Len(s.seed)}

\* RunSnapshot::execution_output(e).is_some(): e completed as a verifier, here or in the seed.
execution_output(s, e) ==
    IF e \in ExecutionIds /\ s.executions[e].state # "absent"
    THEN s.executions[e].state = "completed" /\ s.executions[e].outcome = "verifier"
    ELSE \E i \in 1..Len(s.seed) : /\ s.seed[i].execution = e
                                   /\ s.seed[i].state = "settled"
                                   /\ s.seed[i].outcome = "verifier"

-----------------------------------------------------------------------------
(* prepare_event: a failure recorded without a context takes the one       *)
(* projected so far, except for a force stop.                              *)

prepare_event(s, e) ==
    IF /\ e.kind \in {"primary_graph_completed", "terminal"}
       /\ e.result.reason = "failed"
       /\ ~e.result.context.present
    THEN [e EXCEPT !.result.context = s.failure]
    ELSE e

-----------------------------------------------------------------------------
(* Which events a snapshot accepts: the guards of the apply_ functions.    *)

require_running(s) == s.phase = "running" /\ ~HasPrimary(s)

require_run(ref) == ref.run = "this"

\* Mutant: identities used by imported prerequisites are not considered.
Bug_require_new_dispatch_ignores_seed(s, ref) ==
    ~s.forceStop /\ s.executions[ref.execution].state = "absent"

require_new_dispatch(s, ref) ==
    /\ ~s.forceStop
    /\ s.executions[ref.execution].state = "absent"
    /\ ref.execution \notin SeedIds(s)

\* Mutant: the "already settled" check is dropped.
Bug_active_node_resettles(s, ref) ==
    /\ s.executions[ref.execution].state # "absent"
    /\ s.executions[ref.execution].instance = ref.instance

active_node(s, ref) ==
    /\ s.executions[ref.execution].state = "active"
    /\ s.executions[ref.execution].instance = ref.instance

accepts_prior_execution(s, p) ==
    /\ s.phase = "admitted"
    /\ p.state # "active"
    /\ s.seed # <<>> => LET previous == s.seed[Len(s.seed)]
                        IN  previous.execution < p.execution /\ previous.position < p.position

accepts_safe_log(s, e) ==
    /\ e.execution # NoExecution => s.executions[e.execution].state # "absent"
    /\ e.diagnostic # "none" => e.stream = "error"

\* checked_add within the range of TokenCount
accepts_usage(s, u) ==
    s.usage.known /\ u.known =>
        /\ s.usage.tokens + u.tokens <= MaxTokens
        /\ s.usage.cache # NoTokens /\ u.cache # NoTokens
              => s.usage.cache + u.cache <= MaxTokens

\* Mutants: each drops one of the guards.
Bug_primary_with_active_executions(s, e) ==
    /\ s.phase \in {"running", "stopping"}
    /\ ~HasPrimary(s)
    /\ e.delivery # NoExecution => execution_output(s, e.delivery)

Bug_primary_without_evidence(s, e) ==
    /\ s.phase \in {"running", "stopping"}
    /\ ~HasPrimary(s)
    /\ active_executions(s) = {}

Bug_primary_latched_twice(s, e) ==
    /\ s.phase \in {"running", "stopping"}
    /\ active_executions(s) = {}
    /\ e.delivery # NoExecution => execution_output(s, e.delivery)

accepts_primary_graph_completed(s, e) ==
    /\ s.phase \in {"running", "stopping"}
    /\ ~HasPrimary(s)
    /\ active_executions(s) = {}
    /\ e.delivery # NoExecution => execution_output(s, e.delivery)

Accepts(s, e) ==
    /\ ~IsTerminal(s)
    /\ CASE e.kind = "prior_execution" -> accepts_prior_execution(s, e.prior)
         [] e.kind = "run_started" -> s.phase = "admitted"
         [] e.kind = "node_started" ->
                require_running(s) /\ require_run(e.reference) /\ require_new_dispatch(s, e.reference)
         [] e.kind = "node_completed" ->
                require_run(e.reference) /\ e.outcome # "malformed" /\ active_node(s, e.reference)
         [] e.kind = "execution_voided" -> require_run(e.reference) /\ active_node(s, e.reference)
         [] e.kind = "safe_log" -> accepts_safe_log(s, e)
         [] e.kind = "token_usage_observed" ->
                s.executions[e.execution].state = "active" /\ accepts_usage(s, e.usage)
         [] e.kind = "run_token_usage_observed" -> accepts_usage(s, e.usage)
         [] e.kind = "primary_graph_completed" -> accepts_primary_graph_completed(s, e)
         [] e.kind = "force_stop_requested" -> ~s.forceStop
         [] e.kind = "terminal" -> active_executions(s) = {}

-----------------------------------------------------------------------------
(* What an accepted event does *)

apply_node_started(s, ref, sequence) ==
    [s EXCEPT !.executions[ref.execution] =
        [state |-> "active", instance |-> ref.instance, startedAt |-> sequence,
         settledAt |-> 0, outcome |-> "none", diagnostic |-> FALSE]]

apply_settlement(s, ref, state, outcome, sequence) ==
    [s EXCEPT !.executions[ref.execution] =
        [s.executions[ref.execution] EXCEPT
            !.state = state, !.outcome = outcome, !.settledAt = sequence]]

\* FailureContext::record keeps the last MaxRecordedFailures diagnostics.
record_failure(context, diagnostic) ==
    IF Len(context.recorded) = MaxRecordedFailures
    THEN [context EXCEPT !.recorded = Append(Tail(@), diagnostic), !.incomplete = TRUE]
    ELSE [context EXCEPT !.recorded = Append(@, diagnostic)]

apply_failure_diagnostic(s, e, sequence) ==
    LET context == [s.failure EXCEPT !.present = TRUE]
    IN  CASE e.diagnostic = "none" -> s
          [] e.diagnostic = "incomplete" ->
                [s EXCEPT !.failure = [context EXCEPT !.incomplete = TRUE]]
          [] e.diagnostic = "failure" /\ e.execution = NoExecution ->
                [s EXCEPT !.failure = IF context.primary = 0
                                      THEN [context EXCEPT !.primary = sequence]
                                      ELSE record_failure(context, sequence)]
          [] e.diagnostic = "failure" /\ e.execution # NoExecution ->
                [s EXCEPT !.failure = record_failure(context, sequence),
                          !.executions[e.execution].diagnostic = TRUE]

add_optional_tokens(left, right) ==
    IF left = NoTokens \/ right = NoTokens THEN NoTokens ELSE left + right

\* Mutant: an unreported observation after a reported one leaves the total "complete".
Bug_add_usage_stays_complete(s, u) ==
    [s EXCEPT !.usage =
        IF u.known THEN [known |-> TRUE, tokens |-> s.usage.tokens + u.tokens,
                         cache |-> add_optional_tokens(s.usage.cache, u.cache), complete |-> TRUE]
        ELSE [s.usage EXCEPT !.known = TRUE]]

add_usage(s, u) ==
    LET total == s.usage
    IN  [s EXCEPT !.usage =
            CASE ~total.known /\ u.known ->
                    [known |-> TRUE, tokens |-> u.tokens, cache |-> u.cache, complete |-> TRUE]
              [] ~total.known /\ ~u.known -> [NoUsage EXCEPT !.known = TRUE]
              [] total.known /\ u.known ->
                    [total EXCEPT !.tokens = total.tokens + u.tokens,
                                  !.cache = add_optional_tokens(total.cache, u.cache)]
              [] total.known /\ ~u.known -> [total EXCEPT !.complete = FALSE]]

apply_primary_graph_completed(s, e) ==
    [s EXCEPT !.primary = [result |-> e.result, auxiliaryPending |-> e.auxiliaryPending,
                           delivery |-> e.delivery]]

apply_terminal(s, result) ==
    [s EXCEPT !.primary.auxiliaryPending = FALSE, !.terminal = result, !.phase = "finished"]

apply_event_kind(s, e, sequence) ==
    CASE e.kind = "prior_execution" -> [s EXCEPT !.seed = Append(@, e.prior)]
      [] e.kind = "run_started" -> [s EXCEPT !.phase = "running"]
      [] e.kind = "node_started" -> apply_node_started(s, e.reference, sequence)
      [] e.kind = "node_completed" ->
            apply_settlement(s, e.reference, "completed", e.outcome, sequence)
      [] e.kind = "execution_voided" ->
            apply_settlement(s, e.reference, "voided", "none", sequence)
      [] e.kind = "safe_log" -> apply_failure_diagnostic(s, e, sequence)
      [] e.kind \in {"token_usage_observed", "run_token_usage_observed"} ->
            add_usage(s, e.usage)
      [] e.kind = "primary_graph_completed" -> apply_primary_graph_completed(s, e)
      [] e.kind = "force_stop_requested" ->
            [s EXCEPT !.forceStop = TRUE, !.phase = "stopping"]
      [] e.kind = "terminal" -> apply_terminal(s, e.result)

apply_event(s, e, sequence) ==
    [apply_event_kind(s, e, sequence) EXCEPT !.cursor = sequence]
=============================================================================
