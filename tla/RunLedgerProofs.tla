-------------------------- MODULE RunLedgerProofs --------------------------
(***************************************************************************)
(* Proofs about RunLedger for every set of executions, every bound and     *)
(* every set of client events.                                             *)
(***************************************************************************)
EXTENDS RunLedger, WellFoundedInduction, TLAPS

-----------------------------------------------------------------------------
(* Lemmas about the operators of RunSnapshot *)

\* The empty projection is a snapshot.
LEMMA AdmittedType == admitted \in Snapshot
  <1>1. SomeInstance \in Instances
    BY SnapshotAssumption DEF SomeInstance
  <1>2. AbsentNode \in NodeSnapshot
    BY <1>1 DEF AbsentNode, NodeSnapshot
  <1>3. NoContext \in FailureContext
    BY DEF NoContext, FailureContext
  <1>4. NoResult \in TerminalResult
    BY <1>3 DEF NoResult, TerminalResult
  <1>5. NoPrimary \in PrimaryGraphCompletion
    BY <1>4 DEF NoPrimary, PrimaryGraphCompletion, OptionalExecution
  <1>6. NoUsage \in TokenUsage
    BY SnapshotAssumption DEF NoUsage, TokenUsage, NoTokens
  <1>7. QED
    BY <1>2, <1>3, <1>4, <1>5, <1>6 DEF admitted, Snapshot, Phases

\* prepare_event only ever replaces the failure context.
LEMMA PrepareType ==
    ASSUME NEW s \in Snapshot, NEW e \in RunEvent
    PROVE  prepare_event(s, e) \in RunEvent
  <1>1. CASE /\ e.kind \in {"primary_graph_completed", "terminal"}
             /\ e.result.reason = "failed"
             /\ ~e.result.context.present
    <2>1. [e EXCEPT !.result.context = s.failure] \in RunEvent
      <3>1. s.failure \in FailureContext
        BY DEF Snapshot
      <3>2. CASE e.kind = "terminal"
        <4>1. e \in [kind: {"terminal"}, result: TerminalResult \ {NoResult}]
          BY <3>2 DEF RunEvent
        <4>2. [e.result EXCEPT !.context = s.failure] \in TerminalResult \ {NoResult}
          BY <1>1, <3>1, <4>1 DEF TerminalResult, NoResult
        <4>3. [e EXCEPT !.result.context = s.failure]
                \in [kind: {"terminal"}, result: TerminalResult \ {NoResult}]
          BY <4>1, <4>2
        <4>4. QED
          BY <4>3 DEF RunEvent
      <3>3. CASE e.kind = "primary_graph_completed"
        <4> DEFINE T == [kind: {"primary_graph_completed"}, result: TerminalResult \ {NoResult},
                         auxiliaryPending: BOOLEAN, delivery: OptionalExecution]
        <4>1. e \in T
          BY <3>3 DEF RunEvent
        <4>2. [e.result EXCEPT !.context = s.failure] \in TerminalResult \ {NoResult}
          BY <1>1, <3>1, <4>1 DEF TerminalResult, NoResult
        <4>3. [e EXCEPT !.result.context = s.failure] \in T
          BY <4>1, <4>2
        <4>4. QED
          BY <4>3 DEF RunEvent
      <3>4. QED
        BY <1>1, <3>2, <3>3
    <2>2. QED
      BY <1>1, <2>1 DEF prepare_event
  <1>2. CASE ~ (/\ e.kind \in {"primary_graph_completed", "terminal"}
                /\ e.result.reason = "failed"
                /\ ~e.result.context.present)
    BY <1>2 DEF prepare_event
  <1>3. QED
    BY <1>1, <1>2

\* Recording a diagnostic keeps the context well formed.
LEMMA RecordFailureType ==
    ASSUME NEW c \in FailureContext, NEW n \in Nat
    PROVE  record_failure(c, n) \in FailureContext
  <1>1. CASE Len(c.recorded) = MaxRecordedFailures
    <2>1. c.recorded \in Seq(Nat) /\ c.recorded # <<>>
      BY <1>1, SnapshotAssumption DEF FailureContext
    <2>2. Append(Tail(c.recorded), n) \in Seq(Nat)
      BY <2>1
    <2>3. QED
      BY <1>1, <2>2 DEF record_failure, FailureContext
  <1>2. CASE Len(c.recorded) # MaxRecordedFailures
    <2>1. Append(c.recorded, n) \in Seq(Nat)
      BY DEF FailureContext
    <2>2. QED
      BY <1>2, <2>1 DEF record_failure, FailureContext
  <1>3. QED
    BY <1>1, <1>2

LEMMA DiagnosticType ==
    ASSUME NEW s \in Snapshot, NEW e \in RunEvent, e.kind = "safe_log", NEW n \in Nat
    PROVE  apply_failure_diagnostic(s, e, n) \in Snapshot
  <1> DEFINE context == [s.failure EXCEPT !.present = TRUE]
  <1>1. e \in [kind: {"safe_log"}, execution: OptionalExecution,
               stream: {"output", "error", "system"},
               diagnostic: {"none", "failure", "incomplete"}]
    BY DEF RunEvent
  <1>2. context \in FailureContext
    BY DEF Snapshot, FailureContext
  <1>3. /\ [context EXCEPT !.incomplete = TRUE] \in FailureContext
        /\ [context EXCEPT !.primary = n] \in FailureContext
        /\ record_failure(context, n) \in FailureContext
    BY <1>2, RecordFailureType DEF FailureContext
  <1> HIDE DEF context
  <1>4. ASSUME NEW c \in FailureContext PROVE [s EXCEPT !.failure = c] \in Snapshot
    BY <1>4 DEF Snapshot
  <1>5. ASSUME NEW c \in FailureContext, NEW x \in ExecutionIds
        PROVE [s EXCEPT !.failure = c, !.executions[x].diagnostic = TRUE] \in Snapshot
    <2>1. [s.executions EXCEPT ![x].diagnostic = TRUE] \in [ExecutionIds -> NodeSnapshot]
      <3>1. s.executions \in [ExecutionIds -> NodeSnapshot]
        BY DEF Snapshot
      <3>2. [s.executions[x] EXCEPT !.diagnostic = TRUE] \in NodeSnapshot
        BY <3>1 DEF NodeSnapshot
      <3>3. QED
        BY <3>1, <3>2
    <2>2. QED
      BY <2>1 DEF Snapshot
  <1>6. CASE e.diagnostic = "none"
    BY <1>6 DEF apply_failure_diagnostic
  <1>7. CASE e.diagnostic = "incomplete"
    BY <1>3, <1>4, <1>7 DEF apply_failure_diagnostic, context
  <1>8. CASE e.diagnostic = "failure" /\ e.execution = NoExecution
    BY <1>3, <1>4, <1>8 DEF apply_failure_diagnostic, context
  <1>9. CASE e.diagnostic = "failure" /\ e.execution # NoExecution
    <2>1. e.execution \in ExecutionIds
      BY <1>1, <1>9 DEF OptionalExecution
    <2>2. QED
      BY <1>3, <1>5, <1>9, <2>1 DEF apply_failure_diagnostic, context
  <1>10. QED
    BY <1>1, <1>6, <1>7, <1>8, <1>9

\* Adding usage stays within TokenCount when the addition was accepted.
LEMMA UsageType ==
    ASSUME NEW s \in Snapshot, NEW u \in TokenUsageDelta \cup {Unreported}, accepts_usage(s, u)
    PROVE  add_usage(s, u) \in Snapshot
  <1>1. s.usage \in TokenUsage
    BY DEF Snapshot
  <1>a. u.tokens \in 0..MaxTokens /\ u.cache \in NoTokens..MaxTokens
    <2>1. CASE u \in TokenUsageDelta
      BY <2>1 DEF TokenUsageDelta
    <2>2. CASE u = Unreported
      BY <2>2, SnapshotAssumption DEF Unreported, NoTokens
    <2>3. QED
      BY <2>1, <2>2
  <1>2. ASSUME NEW v \in TokenUsage PROVE [s EXCEPT !.usage = v] \in Snapshot
    BY <1>2 DEF Snapshot
  <1>3. CASE ~s.usage.known /\ u.known
    <2>1. [known |-> TRUE, tokens |-> u.tokens, cache |-> u.cache, complete |-> TRUE] \in TokenUsage
      BY <1>a DEF TokenUsage
    <2>2. QED
      BY <1>2, <1>3, <2>1 DEF add_usage
  <1>4. CASE ~s.usage.known /\ ~u.known
    <2>1. NoTokens \in NoTokens..MaxTokens /\ 0 \in 0..MaxTokens
      BY SnapshotAssumption DEF NoTokens
    <2>2. NoUsage \in TokenUsage
      BY <2>1 DEF TokenUsage, NoUsage
    <2>3. [NoUsage EXCEPT !.known = TRUE] \in TokenUsage
      BY <2>2 DEF TokenUsage
    <2>4. QED
      BY <1>2, <1>4, <2>3 DEF add_usage
  <1>5. CASE s.usage.known /\ u.known
    <2>1. s.usage.tokens + u.tokens \in 0..MaxTokens
      BY <1>1, <1>a, <1>5, SnapshotAssumption DEF accepts_usage, TokenUsage
    <2>2. add_optional_tokens(s.usage.cache, u.cache) \in NoTokens..MaxTokens
      BY <1>1, <1>a, <1>5, SnapshotAssumption DEF accepts_usage, TokenUsage, add_optional_tokens, NoTokens
    <2>3. [s.usage EXCEPT !.tokens = s.usage.tokens + u.tokens,
                          !.cache = add_optional_tokens(s.usage.cache, u.cache)] \in TokenUsage
      BY <1>1, <2>1, <2>2 DEF TokenUsage
    <2>4. QED
      BY <1>2, <1>5, <2>3 DEF add_usage
  <1>6. CASE s.usage.known /\ ~u.known
    <2>1. [s.usage EXCEPT !.complete = FALSE] \in TokenUsage
      BY <1>1 DEF TokenUsage
    <2>2. QED
      BY <1>2, <1>6, <2>1 DEF add_usage
  <1>7. QED
    BY <1>1, <1>3, <1>4, <1>5, <1>6 DEF TokenUsage

\* What each kind of event carries.
LEMMA EventShape ==
    ASSUME NEW e \in RunEvent
    PROVE  /\ e.kind \in {"prior_execution", "run_started", "force_stop_requested", "node_started",
                          "execution_voided", "node_completed", "safe_log", "token_usage_observed",
                          "run_token_usage_observed", "primary_graph_completed", "terminal"}
           /\ e.kind = "prior_execution" => e.prior \in PriorExecution
           /\ e.kind \in {"node_started", "execution_voided", "node_completed"}
                => e.reference \in ExecutionRef
           /\ e.kind = "node_completed" => e.outcome \in Outcomes \cup {"malformed"}
           /\ e.kind \in {"token_usage_observed", "run_token_usage_observed"}
                => e.usage \in TokenUsageDelta \cup {Unreported}
           /\ e.kind \in {"primary_graph_completed", "terminal"}
                => e.result \in TerminalResult \ {NoResult}
           /\ e.kind = "primary_graph_completed"
                => e.auxiliaryPending \in BOOLEAN /\ e.delivery \in OptionalExecution
  BY DEF RunEvent

\* An accepted event yields a snapshot.
LEMMA ApplyKindType ==
    ASSUME NEW s \in Snapshot, NEW e \in RunEvent, Accepts(s, e), NEW n \in Nat
    PROVE  apply_event_kind(s, e, n) \in Snapshot
  <1>3. ASSUME NEW x \in ExecutionIds, NEW node \in NodeSnapshot
        PROVE  [s EXCEPT !.executions[x] = node] \in Snapshot
    BY DEF Snapshot
  <1>4. CASE e.kind = "prior_execution"
    <2>1. Append(s.seed, e.prior) \in Seq(PriorExecution)
      BY <1>4, EventShape DEF Snapshot
    <2>2. [s EXCEPT !.seed = Append(s.seed, e.prior)] \in Snapshot
      BY <2>1 DEF Snapshot
    <2>3. QED
      BY <1>4, <2>2 DEF apply_event_kind
  <1>5. CASE e.kind = "run_started"
    <2>1. [s EXCEPT !.phase = "running"] \in Snapshot
      BY DEF Snapshot, Phases
    <2>2. QED
      BY <1>5, <2>1 DEF apply_event_kind
  <1>6. CASE e.kind = "force_stop_requested"
    <2>1. [s EXCEPT !.forceStop = TRUE, !.phase = "stopping"] \in Snapshot
      BY DEF Snapshot, Phases
    <2>2. QED
      BY <1>6, <2>1 DEF apply_event_kind
  <1>7. CASE e.kind = "node_started"
    <2>1. e.reference \in ExecutionRef
      BY <1>7, EventShape
    <2>2. [state |-> "active", instance |-> e.reference.instance, startedAt |-> n,
           settledAt |-> 0, outcome |-> "none", diagnostic |-> FALSE] \in NodeSnapshot
      BY <2>1 DEF NodeSnapshot, ExecutionRef
    <2>3. apply_node_started(s, e.reference, n) \in Snapshot
      BY <1>3, <2>1, <2>2 DEF apply_node_started, ExecutionRef
    <2>4. QED
      BY <1>7, <2>3 DEF apply_event_kind
  <1>8. ASSUME NEW ref \in ExecutionRef, NEW st \in {"completed", "voided"},
               NEW o \in Outcomes \cup {"none"}
        PROVE  apply_settlement(s, ref, st, o, n) \in Snapshot
    <2>1. ref.execution \in ExecutionIds /\ s.executions[ref.execution] \in NodeSnapshot
      BY DEF Snapshot, ExecutionRef
    <2>2. [s.executions[ref.execution] EXCEPT !.state = st, !.outcome = o, !.settledAt = n]
            \in NodeSnapshot
      BY <2>1 DEF NodeSnapshot
    <2>3. QED
      BY <1>3, <2>1, <2>2 DEF apply_settlement
  <1>9. CASE e.kind = "node_completed"
    <2>1. e.reference \in ExecutionRef /\ e.outcome \in Outcomes \cup {"none"}
      BY <1>9, EventShape DEF Accepts
    <2>2. QED
      BY <1>8, <1>9, <2>1 DEF apply_event_kind
  <1>10. CASE e.kind = "execution_voided"
    <2>1. e.reference \in ExecutionRef
      BY <1>10, EventShape
    <2>2. QED
      BY <1>8, <1>10, <2>1 DEF apply_event_kind
  <1>11. CASE e.kind = "safe_log"
    BY <1>11, DiagnosticType DEF apply_event_kind
  <1>12. CASE e.kind \in {"token_usage_observed", "run_token_usage_observed"}
    <2>1. e.usage \in TokenUsageDelta \cup {Unreported} /\ accepts_usage(s, e.usage)
      BY <1>12, EventShape DEF Accepts
    <2>2. QED
      BY <1>12, <2>1, UsageType DEF apply_event_kind
  <1>13. CASE e.kind = "primary_graph_completed"
    <2>1. [result |-> e.result, auxiliaryPending |-> e.auxiliaryPending,
           delivery |-> e.delivery] \in PrimaryGraphCompletion
      BY <1>13, EventShape DEF PrimaryGraphCompletion
    <2>2. apply_primary_graph_completed(s, e) \in Snapshot
      BY <2>1 DEF apply_primary_graph_completed, Snapshot
    <2>3. QED
      BY <1>13, <2>2 DEF apply_event_kind
  <1>14. CASE e.kind = "terminal"
    <2>1. [s.primary EXCEPT !.auxiliaryPending = FALSE] \in PrimaryGraphCompletion
      BY DEF Snapshot, PrimaryGraphCompletion
    <2>2. apply_terminal(s, e.result) \in Snapshot
      BY <1>14, <2>1, EventShape DEF apply_terminal, Snapshot, Phases
    <2>3. QED
      BY <1>14, <2>2 DEF apply_event_kind
  <1>15. QED
    BY <1>4, <1>5, <1>6, <1>7, <1>9, <1>10, <1>11, <1>12, <1>13, <1>14, EventShape

LEMMA ApplyType ==
    ASSUME NEW s \in Snapshot, NEW e \in RunEvent, Accepts(s, e), NEW n \in Nat
    PROVE  apply_event(s, e, n) \in Snapshot
  BY ApplyKindType DEF apply_event, Snapshot

\* Submitted events are events.
LEMMA SubmittedType ==
    ASSUME pending.stored \in Snapshot, NEW e \in Submitted
    PROVE  e \in RunEvent
  <1>1. CASE e \in ClientEvents
    BY <1>1, LedgerAssumption
  <1>2. CASE e \in LatchedTerminal(pending.stored)
    <2>1. HasPrimary(pending.stored) /\ e = [kind |-> "terminal", result |-> pending.stored.primary.result]
      BY <1>2 DEF LatchedTerminal
    <2>2. pending.stored.primary.result \in TerminalResult \ {NoResult}
      BY <2>1 DEF HasPrimary, NoResult, Snapshot, PrimaryGraphCompletion
    <2>3. QED
      BY <2>1, <2>2 DEF RunEvent
  <1>3. QED
    BY <1>1, <1>2 DEF Submitted

-----------------------------------------------------------------------------
(* Type correctness *)

\* Whatever batches callers submit, the committed row, the log and the open transaction keep
\* their types; in particular token counters stay within TokenCount.
THEOREM TypeCorrect == Spec => []TypeOK
  <1>1. Init => TypeOK
    BY AdmittedType DEF Init, TypeOK, NoAppend
  <1>2. TypeOK /\ [Next]_vars => TypeOK'
    <2> SUFFICES ASSUME TypeOK, [Next]_vars PROVE TypeOK'
      OBVIOUS
    <2>0. NoAppend \in [open: BOOLEAN, stored: Snapshot, appended: Seq(RunEvent)]
      BY AdmittedType DEF NoAppend
    <2>1. CASE BeginAppend
      BY <2>1 DEF BeginAppend, TypeOK
    <2>2. ASSUME NEW e \in Submitted, one_event(e) PROVE TypeOK'
      <3> DEFINE prepared == prepare_event(pending.stored, e)
      <3>1. pending.stored \in Snapshot /\ pending.appended \in Seq(RunEvent)
        BY DEF TypeOK
      <3>2. e \in RunEvent
        BY <3>1, SubmittedType
      <3>3. prepared \in RunEvent
        BY <3>1, <3>2, PrepareType
      <3>4. next_sequence \in Nat
        BY <3>1 DEF next_sequence, Snapshot
      <3>5. apply_event(pending.stored, prepared, next_sequence) \in Snapshot
        BY <2>2, <3>1, <3>3, <3>4, ApplyType DEF one_event, Admissible
      <3>6. Append(pending.appended, prepared) \in Seq(RunEvent)
        BY <3>1, <3>3
      <3> HIDE DEF prepared
      <3>7. pending' = [pending EXCEPT !.stored = apply_event(pending.stored, prepared, next_sequence),
                                       !.appended = Append(pending.appended, prepared)]
        BY <2>2 DEF one_event, prepared
      <3>8. pending' \in [open: BOOLEAN, stored: Snapshot, appended: Seq(RunEvent)]
        BY <3>5, <3>6, <3>7 DEF TypeOK
      <3>9. QED
        BY <2>2, <3>8 DEF one_event, TypeOK
    <2>3. ASSUME NEW e \in Submitted, RefuseEvent(e) PROVE TypeOK'
      BY <2>0, <2>3 DEF RefuseEvent, TypeOK
    <2>4. CASE Commit
      BY <2>0, <2>4 DEF Commit, TypeOK
    <2>5. CASE Rollback
      BY <2>0, <2>5 DEF Rollback, TypeOK
    <2>6. CASE request_force_stop
      <3> DEFINE e == [kind |-> "force_stop_requested"]
      <3>1. e \in RunEvent
        BY DEF RunEvent
      <3>2. stored \in Snapshot /\ stored.cursor + 1 \in Nat
        BY DEF TypeOK, Snapshot
      <3>3. Accepts(stored, e)
        BY <2>6 DEF request_force_stop, Accepts
      <3>4. apply_event(stored, e, stored.cursor + 1) \in Snapshot
        BY <3>1, <3>2, <3>3, ApplyType
      <3>5. QED
        BY <2>6, <3>1, <3>4 DEF request_force_stop, TypeOK
    <2>7. CASE UNCHANGED vars
      BY <2>7 DEF vars, TypeOK
    <2>8. QED
      BY <2>1, <2>2, <2>3, <2>4, <2>5, <2>6, <2>7 DEF Next
  <1>3. QED
    BY <1>1, <1>2, PTL DEF Spec

-----------------------------------------------------------------------------
(* Safety of the projection.  The three parts hold of the committed row    *)
(* and of the copy inside every transaction; the middle ones are what      *)
(* makes the parts inductive.                                              *)

Quiescent(s) == HasPrimary(s) \/ IsTerminal(s) => active_executions(s) = {}

Unstarted(s) == s.phase = "admitted" =>
    ~HasPrimary(s) /\ \A x \in ExecutionIds : s.executions[x].state = "absent"

OrderedSeed(s) ==
    /\ \A x \in SeedIds(s) : x \in ExecutionIds => s.executions[x].state = "absent"
    /\ \A i, j \in 1..Len(s.seed) : i < j => /\ s.seed[i].execution < s.seed[j].execution
                                             /\ s.seed[i].position < s.seed[j].position

Evidence(s) == HasPrimary(s) /\ s.primary.delivery # NoExecution
                    => execution_output(s, s.primary.delivery)

SnapshotInv(s) == Quiescent(s) /\ Unstarted(s) /\ OrderedSeed(s) /\ Evidence(s)

\* A batch never takes back the primary outcome it started from.
Keeps(s, t) == HasPrimary(s) => /\ t.primary.result = s.primary.result
                                /\ t.primary.delivery = s.primary.delivery

LEMMA AdmittedInv == SnapshotInv(admitted)
  BY DEF SnapshotInv, Quiescent, Unstarted, OrderedSeed, Evidence, admitted, active_executions,
         HasPrimary, IsTerminal, SeedIds, NoPrimary, NoResult, AbsentNode

\* Which fields an event leaves alone.
LEMMA ApplyFrame ==
    ASSUME NEW s \in Snapshot, NEW e \in RunEvent, Accepts(s, e), NEW n \in Nat,
           NEW t, t = apply_event(s, e, n)
    PROVE  /\ e.kind \notin {"primary_graph_completed", "terminal"} => t.primary = s.primary
           /\ e.kind # "terminal" => t.terminal = s.terminal
           /\ e.kind \notin {"run_started", "force_stop_requested", "terminal"} => t.phase = s.phase
           /\ e.kind # "prior_execution" => t.seed = s.seed
           /\ e.kind \notin {"node_started", "node_completed", "execution_voided"} =>
                \A x \in ExecutionIds : /\ t.executions[x].state = s.executions[x].state
                                        /\ t.executions[x].outcome = s.executions[x].outcome
                                        /\ t.executions[x].startedAt = s.executions[x].startedAt
                                        /\ t.executions[x].settledAt = s.executions[x].settledAt
           /\ t.cursor = n
  <1> DEFINE k == apply_event_kind(s, e, n)
  <1>1. k \in Snapshot
    BY ApplyType, ApplyKindType
  <1>2. t = [k EXCEPT !.cursor = n]
    BY DEF apply_event
  <1> HIDE DEF k
  <1>3. /\ t.primary = k.primary /\ t.terminal = k.terminal /\ t.phase = k.phase
        /\ t.seed = k.seed /\ t.executions = k.executions /\ t.cursor = n
    BY <1>1, <1>2 DEF Snapshot
  <1>4. CASE e.kind = "safe_log"
    <2>1. k = apply_failure_diagnostic(s, e, n)
      BY <1>4 DEF k, apply_event_kind
    <2>2. e.execution \in OptionalExecution /\ e.diagnostic \in {"none", "failure", "incomplete"}
      BY <1>4 DEF RunEvent
    <2>3. k.primary = s.primary /\ k.terminal = s.terminal /\ k.phase = s.phase /\ k.seed = s.seed
      BY <2>1, <2>2 DEF apply_failure_diagnostic, Snapshot
    <2>4. ASSUME NEW x \in ExecutionIds
          PROVE  /\ k.executions[x].state = s.executions[x].state
                 /\ k.executions[x].outcome = s.executions[x].outcome
                 /\ k.executions[x].startedAt = s.executions[x].startedAt
                 /\ k.executions[x].settledAt = s.executions[x].settledAt
      <3>1. CASE k.executions = s.executions
        BY <3>1
      <3>2. CASE /\ e.execution \in ExecutionIds
                 /\ k.executions = [s.executions EXCEPT ![e.execution].diagnostic = TRUE]
        BY <3>2 DEF Snapshot, NodeSnapshot
      <3>3. k.executions = s.executions
              \/ /\ e.execution \in ExecutionIds
                 /\ k.executions = [s.executions EXCEPT ![e.execution].diagnostic = TRUE]
        BY <2>1, <2>2 DEF apply_failure_diagnostic, Snapshot, OptionalExecution
      <3>4. QED
        BY <3>1, <3>2, <3>3
    <2>5. QED
      BY <1>3, <1>4, <2>3, <2>4
  <1>5. CASE e.kind = "prior_execution"
    BY <1>3, <1>5 DEF k, apply_event_kind, Snapshot
  <1>6. CASE e.kind = "run_started"
    BY <1>3, <1>6 DEF k, apply_event_kind, Snapshot
  <1>7. CASE e.kind = "force_stop_requested"
    BY <1>3, <1>7 DEF k, apply_event_kind, Snapshot
  <1>8. CASE e.kind = "node_started"
    BY <1>3, <1>8 DEF k, apply_event_kind, apply_node_started, Snapshot
  <1>9. CASE e.kind = "node_completed"
    BY <1>3, <1>9 DEF k, apply_event_kind, apply_settlement, Snapshot
  <1>10. CASE e.kind = "execution_voided"
    BY <1>3, <1>10 DEF k, apply_event_kind, apply_settlement, Snapshot
  <1>11. CASE e.kind \in {"token_usage_observed", "run_token_usage_observed"}
    BY <1>3, <1>11 DEF k, apply_event_kind, add_usage, Snapshot
  <1>12. CASE e.kind = "primary_graph_completed"
    BY <1>3, <1>12 DEF k, apply_event_kind, apply_primary_graph_completed, Snapshot
  <1>13. CASE e.kind = "terminal"
    BY <1>3, <1>13 DEF k, apply_event_kind, apply_terminal, Snapshot
  <1>14. QED
    BY <1>4, <1>5, <1>6, <1>7, <1>8, <1>9, <1>10, <1>11, <1>12, <1>13, EventShape

\* How an execution moves: dispatch makes an unused identity active, settlement ends an active one.
LEMMA ExecutionStep ==
    ASSUME NEW s \in Snapshot, NEW e \in RunEvent, Accepts(s, e), NEW n \in Nat,
           NEW t, t = apply_event(s, e, n), NEW x \in ExecutionIds
    PROVE  \/ /\ t.executions[x] = s.executions[x]
              /\ e.kind \in {"node_started", "node_completed", "execution_voided"}
                    => e.reference.execution # x
           \/ /\ t.executions[x].state = s.executions[x].state
              /\ t.executions[x].outcome = s.executions[x].outcome
              /\ t.executions[x].startedAt = s.executions[x].startedAt
              /\ t.executions[x].settledAt = s.executions[x].settledAt
              /\ e.kind \notin {"node_started", "node_completed", "execution_voided"}
           \/ /\ e.kind = "node_started" /\ e.reference.execution = x
              /\ s.executions[x].state = "absent"
              /\ require_running(s) /\ ~s.forceStop /\ x \notin SeedIds(s)
              /\ t.executions[x].state = "active"
              /\ t.executions[x].startedAt = n
           \/ /\ e.kind \in {"node_completed", "execution_voided"} /\ e.reference.execution = x
              /\ s.executions[x].state = "active"
              /\ t.executions[x].state \in {"completed", "voided"}
              /\ t.executions[x].startedAt = s.executions[x].startedAt
              /\ t.executions[x].settledAt = n
  <1>0. apply_event_kind(s, e, n) \in Snapshot /\ t.executions = apply_event_kind(s, e, n).executions
    BY ApplyKindType DEF apply_event, Snapshot
  <1>1. CASE e.kind \notin {"node_started", "node_completed", "execution_voided"}
    BY <1>1, ApplyFrame
  <1>2. CASE e.kind = "node_started"
    <2>1. e.reference \in ExecutionRef
      BY <1>2, EventShape
    <2>2. t.executions = [s.executions EXCEPT ![e.reference.execution] =
                [state |-> "active", instance |-> e.reference.instance, startedAt |-> n,
                 settledAt |-> 0, outcome |-> "none", diagnostic |-> FALSE]]
      BY <1>0, <1>2 DEF apply_event_kind, apply_node_started, Snapshot
    <2>3. require_running(s) /\ require_new_dispatch(s, e.reference)
      BY <1>2 DEF Accepts
    <2>4. QED
      BY <1>2, <2>1, <2>2, <2>3 DEF require_new_dispatch, Snapshot, ExecutionRef
  <1>3. ASSUME NEW st \in {"completed", "voided"}, NEW o,
               e.kind \in {"node_completed", "execution_voided"},
               apply_event_kind(s, e, n) = apply_settlement(s, e.reference, st, o, n),
               active_node(s, e.reference)
        PROVE  \/ t.executions[x] = s.executions[x] /\ e.reference.execution # x
               \/ /\ e.reference.execution = x
                  /\ s.executions[x].state = "active"
                  /\ t.executions[x].state \in {"completed", "voided"}
                  /\ t.executions[x].startedAt = s.executions[x].startedAt
                  /\ t.executions[x].settledAt = n
    <2>1. e.reference \in ExecutionRef
      BY <1>3, EventShape
    <2>2. s.executions[e.reference.execution] \in NodeSnapshot /\ s.executions[e.reference.execution].state = "active"
      BY <1>3, <2>1 DEF active_node, Snapshot, ExecutionRef
    <2>3. t.executions = [s.executions EXCEPT ![e.reference.execution] =
             [s.executions[e.reference.execution] EXCEPT !.state = st, !.outcome = o, !.settledAt = n]]
      BY <1>0, <1>3 DEF apply_settlement, Snapshot
    <2>4. CASE x = e.reference.execution
      <3>1. t.executions[x] = [s.executions[x] EXCEPT !.state = st, !.outcome = o, !.settledAt = n]
        BY <2>3, <2>4 DEF Snapshot
      <3>2. QED
        BY <2>2, <2>4, <3>1 DEF NodeSnapshot
    <2>5. CASE x # e.reference.execution
      BY <2>3, <2>5 DEF Snapshot
    <2>6. QED
      BY <2>4, <2>5
  <1>4. CASE e.kind = "node_completed"
    BY <1>3, <1>4 DEF Accepts, apply_event_kind
  <1>5. CASE e.kind = "execution_voided"
    BY <1>3, <1>5 DEF Accepts, apply_event_kind
  <1>6. QED
    BY <1>1, <1>2, <1>4, <1>5

\* A step that was accepted keeps the primary outcome.
LEMMA PrimaryStep ==
    ASSUME NEW s \in Snapshot, NEW e \in RunEvent, Accepts(s, e), NEW n \in Nat,
           NEW t, t = apply_event(s, e, n)
    PROVE  Keeps(s, t)
  <1>1. CASE e.kind = "primary_graph_completed"
    BY <1>1 DEF Accepts, accepts_primary_graph_completed, Keeps
  <1>2. CASE e.kind = "terminal"
    BY <1>2, ApplyKindType DEF apply_event, apply_event_kind, apply_terminal, Keeps, Snapshot,
                               PrimaryGraphCompletion
  <1>3. CASE e.kind \notin {"primary_graph_completed", "terminal"}
    BY <1>3, ApplyFrame DEF Keeps
  <1>4. QED
    BY <1>1, <1>2, <1>3

\* The projection invariant is preserved by every accepted event.
LEMMA SnapshotInvStep ==
    ASSUME NEW s \in Snapshot, NEW e \in RunEvent, Accepts(s, e), NEW n \in Nat, SnapshotInv(s),
           NEW t, t = apply_event(s, e, n)
    PROVE  SnapshotInv(t)
  <1>0. t \in Snapshot
    BY ApplyType
  <1>1. Quiescent(t)
    <2>1. CASE e.kind = "node_started"
      <3>1. ~HasPrimary(s) /\ ~IsTerminal(s)
        BY <2>1 DEF Accepts, require_running
      <3>2. QED
        BY <2>1, <3>1, ApplyFrame DEF Quiescent, HasPrimary, IsTerminal
    <2>2. CASE e.kind # "node_started"
      <3>1. active_executions(t) \subseteq active_executions(s)
        BY <2>2, ExecutionStep DEF active_executions
      <3>2. CASE e.kind \in {"primary_graph_completed", "terminal"}
        BY <3>1, <3>2 DEF Accepts, accepts_primary_graph_completed, Quiescent
      <3>3. CASE e.kind \notin {"primary_graph_completed", "terminal"}
        BY <3>1, <3>3, ApplyFrame DEF Quiescent, HasPrimary, IsTerminal, SnapshotInv
      <3>4. QED
        BY <3>2, <3>3
    <2>3. QED
      BY <2>1, <2>2
  <1>2. Unstarted(t)
    <2> SUFFICES ASSUME t.phase = "admitted"
                 PROVE  ~HasPrimary(t) /\ \A x \in ExecutionIds : t.executions[x].state = "absent"
      BY DEF Unstarted
    <2>1. t.phase = s.phase /\ e.kind \notin {"run_started", "force_stop_requested", "terminal"}
      <3>1. e.kind = "run_started" => t.phase = "running"
        BY <1>0 DEF apply_event, apply_event_kind, Snapshot
      <3>2. e.kind = "force_stop_requested" => t.phase = "stopping"
        BY <1>0 DEF apply_event, apply_event_kind, Snapshot
      <3>3. e.kind = "terminal" => t.phase = "finished"
        BY <1>0 DEF apply_event, apply_event_kind, apply_terminal, Snapshot
      <3>4. QED
        BY <3>1, <3>2, <3>3, ApplyFrame
    <2>2. ~HasPrimary(s) /\ \A x \in ExecutionIds : s.executions[x].state = "absent"
      BY <2>1 DEF SnapshotInv, Unstarted
    <2>3. e.kind # "primary_graph_completed"
      BY <2>1 DEF Accepts, accepts_primary_graph_completed
    <2>4. ~HasPrimary(t)
      BY <2>1, <2>2, <2>3, ApplyFrame DEF HasPrimary
    <2>5. ASSUME NEW x \in ExecutionIds PROVE t.executions[x].state = "absent"
      BY <2>1, <2>2, ExecutionStep DEF require_running
    <2>6. QED
      BY <2>4, <2>5
  <1>3. OrderedSeed(t)
    <2>1. CASE e.kind = "prior_execution"
      <3>1. t.seed = Append(s.seed, e.prior)
        BY <1>0, <2>1 DEF apply_event, apply_event_kind, Snapshot
      <3>2. accepts_prior_execution(s, e.prior) /\ e.prior \in PriorExecution /\ s.seed \in Seq(PriorExecution)
        BY <2>1, EventShape DEF Accepts, Snapshot
      <3>a. \A x \in ExecutionIds : s.executions[x].state = "absent"
        BY <3>2 DEF accepts_prior_execution, SnapshotInv, Unstarted
      <3>3. ASSUME NEW x \in ExecutionIds PROVE t.executions[x].state = "absent"
        <4>1. t.executions[x].state = s.executions[x].state
          BY <2>1, ApplyFrame
        <4>2. QED
          BY <3>a, <4>1
      <3>4. ASSUME NEW i \in 1..Len(t.seed), NEW j \in 1..Len(t.seed), i < j
            PROVE  t.seed[i].execution < t.seed[j].execution /\ t.seed[i].position < t.seed[j].position
        <4>1. Len(t.seed) = Len(s.seed) + 1 /\ Len(s.seed) \in Nat /\ i \in 1..Len(s.seed)
          BY <3>1, <3>2, <3>4
        <4>2. t.seed[i] = s.seed[i] /\ s.seed[i] \in PriorExecution
          BY <3>1, <3>2, <4>1
        <4>3. CASE j \in 1..Len(s.seed)
          <5>1. t.seed[j] = s.seed[j]
            BY <3>1, <3>2, <4>3
          <5>2. QED
            BY <3>4, <4>1, <4>2, <4>3, <5>1 DEF SnapshotInv, OrderedSeed
        <4>4. CASE j = Len(s.seed) + 1
          <5>1. t.seed[j] = e.prior
            BY <3>1, <3>2, <4>4
          <5> DEFINE last == s.seed[Len(s.seed)]
          <5>2. last.execution < e.prior.execution /\ last.position < e.prior.position
            BY <3>2, <4>1 DEF accepts_prior_execution
          <5>3. i = Len(s.seed) \/ (s.seed[i].execution < last.execution /\ s.seed[i].position < last.position)
            BY <4>1 DEF SnapshotInv, OrderedSeed
          <5>4. last \in PriorExecution
            BY <3>2, <4>1
          <5>5. /\ s.seed[i].execution \in Nat /\ last.execution \in Nat /\ e.prior.execution \in Nat
                /\ s.seed[i].position \in Nat /\ last.position \in Nat /\ e.prior.position \in Nat
            BY <3>2, <4>2, <5>4, SnapshotAssumption DEF PriorExecution
          <5> HIDE DEF last
          <5>6. s.seed[i].execution < e.prior.execution /\ s.seed[i].position < e.prior.position
            <6>1. CASE i = Len(s.seed)
              BY <5>2, <6>1 DEF last
            <6>2. CASE s.seed[i].execution < last.execution /\ s.seed[i].position < last.position
              BY <5>2, <5>5, <6>2
            <6>3. QED
              BY <5>3, <6>1, <6>2
          <5>7. QED
            BY <4>2, <5>1, <5>6
        <4>5. QED
          BY <4>1, <4>3, <4>4
      <3>5. QED
        BY <3>3, <3>4 DEF OrderedSeed
    <2>2. CASE e.kind # "prior_execution"
      <3>1. t.seed = s.seed
        BY <2>2, ApplyFrame
      <3>2. ASSUME NEW x \in ExecutionIds, x \in SeedIds(t) PROVE t.executions[x].state = "absent"
        <4>1. x \in SeedIds(s) /\ s.executions[x].state = "absent"
          BY <3>1, <3>2 DEF SeedIds, SnapshotInv, OrderedSeed
        <4>2. QED
          BY <4>1, ExecutionStep
      <3>3. QED
        BY <3>1, <3>2 DEF OrderedSeed, SnapshotInv
    <2>3. QED
      BY <2>1, <2>2
  <1>4. Evidence(t)
    <2> SUFFICES ASSUME HasPrimary(t), t.primary.delivery # NoExecution
                 PROVE  execution_output(t, t.primary.delivery)
      BY DEF Evidence
    <2>1. CASE e.kind = "primary_graph_completed"
      <3>1. t.primary.delivery = e.delivery /\ t.seed = s.seed
        BY <1>0, <2>1 DEF apply_event, apply_event_kind, apply_primary_graph_completed, Snapshot
      <3>2. execution_output(s, e.delivery)
        BY <2>1, <3>1 DEF Accepts, accepts_primary_graph_completed
      <3>3. QED
        BY <2>1, <3>1, <3>2, ApplyFrame DEF execution_output
    <2>2. CASE e.kind # "primary_graph_completed"
      <3>1. HasPrimary(s) /\ t.primary.delivery = s.primary.delivery
        <4>1. CASE e.kind = "terminal"
          BY <1>0, <4>1 DEF apply_event, apply_event_kind, apply_terminal, HasPrimary, Snapshot,
                            PrimaryGraphCompletion
        <4>2. CASE e.kind # "terminal"
          BY <2>2, <4>2, ApplyFrame DEF HasPrimary
        <4>3. QED
          BY <4>1, <4>2
      <3>2. execution_output(s, s.primary.delivery)
        BY <3>1 DEF SnapshotInv, Evidence
      <3>a. s.phase # "admitted"
        BY <3>1 DEF SnapshotInv, Unstarted
      <3>b. e.kind # "prior_execution"
        BY <3>a DEF Accepts, accepts_prior_execution
      <3>3. t.seed = s.seed
        BY <3>b, ApplyFrame
      <3>4. \A x \in ExecutionIds : s.executions[x].state \in {"absent", "completed", "voided"} =>
                /\ t.executions[x].state = s.executions[x].state
                /\ t.executions[x].outcome = s.executions[x].outcome
        BY <3>1, ExecutionStep DEF require_running
      <3>5. QED
        BY <3>1, <3>2, <3>3, <3>4 DEF execution_output
    <2>3. QED
      BY <2>1, <2>2
  <1>5. QED
    BY <1>1, <1>2, <1>3, <1>4 DEF SnapshotInv

-----------------------------------------------------------------------------
(* The safety theorems *)

\* The inductive invariant: types, the projection invariant of the committed row and of the open
\* transaction, and the tie between the two.
LedgerInv ==
    /\ TypeOK
    /\ SnapshotInv(stored)
    /\ SnapshotInv(pending.stored)
    /\ pending.open => Keeps(stored, pending.stored)

\* One step from the inductive invariant keeps it, and keeps the committed primary outcome.
LEMMA LedgerStep ==
    ASSUME LedgerInv, TypeOK', [Next]_vars
    PROVE  LedgerInv' /\ Keeps(stored, stored')
  <1>1. stored \in Snapshot /\ pending.stored \in Snapshot
    BY DEF LedgerInv, TypeOK
  <1>2. SnapshotInv(NoAppend.stored) /\ ~NoAppend.open
    BY AdmittedInv DEF NoAppend
  <1>3. Keeps(stored, stored)
    BY DEF Keeps
  <1>4. CASE BeginAppend
    <2>1. stored' = stored /\ pending'.stored = stored
      BY <1>4 DEF BeginAppend
    <2>2. QED
      BY <1>3, <2>1 DEF LedgerInv
  <1>5. ASSUME NEW e \in Submitted, one_event(e) PROVE LedgerInv' /\ Keeps(stored, stored')
    <2> DEFINE prepared == prepare_event(pending.stored, e)
               t == apply_event(pending.stored, prepared, next_sequence)
    <2>1. prepared \in RunEvent
      BY <1>1, SubmittedType, PrepareType
    <2>2. Accepts(pending.stored, prepared) /\ next_sequence \in Nat
      BY <1>1, <1>5 DEF one_event, Admissible, next_sequence, Snapshot
    <2>3. SnapshotInv(t)
      BY <1>1, <2>1, <2>2, SnapshotInvStep DEF LedgerInv
    <2>4. Keeps(pending.stored, t)
      BY <1>1, <2>1, <2>2, PrimaryStep
    <2>5. pending'.stored = t /\ pending.open /\ stored' = stored
      BY <1>5 DEF one_event, LedgerInv, TypeOK
    <2> HIDE DEF t
    <2>6. Keeps(stored, t)
      BY <2>4, <2>5 DEF LedgerInv, Keeps, HasPrimary
    <2>7. QED
      BY <1>3, <2>3, <2>5, <2>6 DEF LedgerInv
  <1>6. ASSUME NEW e \in Submitted, RefuseEvent(e) PROVE LedgerInv' /\ Keeps(stored, stored')
    BY <1>2, <1>3, <1>6 DEF RefuseEvent, LedgerInv
  <1>7. CASE Commit
    BY <1>2, <1>7 DEF Commit, LedgerInv
  <1>8. CASE Rollback
    BY <1>2, <1>3, <1>8 DEF Rollback, LedgerInv
  <1>9. CASE request_force_stop
    <2> DEFINE e == [kind |-> "force_stop_requested"]
               t == apply_event(stored, e, stored.cursor + 1)
    <2>1. e \in RunEvent /\ stored.cursor + 1 \in Nat
      BY <1>1 DEF RunEvent, Snapshot
    <2>2. Accepts(stored, e)
      BY <1>9 DEF request_force_stop, Accepts
    <2>3. SnapshotInv(t) /\ Keeps(stored, t)
      BY <1>1, <2>1, <2>2, SnapshotInvStep, PrimaryStep DEF LedgerInv
    <2>4. stored' = t /\ pending' = pending /\ ~pending.open
      BY <1>9 DEF request_force_stop
    <2> HIDE DEF t
    <2>5. QED
      BY <2>3, <2>4 DEF LedgerInv
  <1>10. CASE UNCHANGED vars
    BY <1>3, <1>10 DEF vars, LedgerInv
  <1>11. QED
    BY <1>4, <1>5, <1>6, <1>7, <1>8, <1>9, <1>10 DEF Next

THEOREM LedgerInvariant == Spec => []LedgerInv
  <1>1. Init => LedgerInv
    <2>1. Init => TypeOK
      BY AdmittedType DEF Init, TypeOK, NoAppend
    <2>2. QED
      BY <2>1, AdmittedInv DEF Init, LedgerInv, NoAppend
  <1>2. LedgerInv /\ TypeOK' /\ [Next]_vars => LedgerInv'
    BY LedgerStep
  <1>3. QED
    BY <1>1, <1>2, TypeCorrect, PTL DEF Spec

\* For every set of executions and every behaviour of the callers: once the primary outcome is
\* latched or the run is terminal, no execution is active.
THEOREM RunEndsQuiescent == Spec => []QuiescentEnd
  <1>1. LedgerInv => QuiescentEnd
    BY DEF LedgerInv, SnapshotInv, Quiescent, QuiescentEnd
  <1>2. QED
    BY <1>1, LedgerInvariant, PTL

\* Imported prerequisites and own dispatches never share an identity and the import is ordered.
THEOREM SeedStaysHistory == Spec => []SeedIsHistory
  <1>1. LedgerInv => SeedIsHistory
    <2> SUFFICES ASSUME LedgerInv PROVE SeedIsHistory
      OBVIOUS
    <2>1. stored.seed \in Seq(PriorExecution)
      BY DEF LedgerInv, TypeOK, Snapshot
    <2>a. ASSUME NEW i \in 1..Len(stored.seed) PROVE stored.seed[i].execution \in ExecutionIds
      <3>1. stored.seed[i] \in PriorExecution
        BY <2>1
      <3>2. QED
        BY <3>1 DEF PriorExecution
    <2>b. SeedIds(stored) \subseteq ExecutionIds
      BY <2>a DEF SeedIds
    <2>2. QED
      BY <2>b DEF LedgerInv, SnapshotInv, OrderedSeed, SeedIsHistory
  <1>2. QED
    BY <1>1, LedgerInvariant, PTL

\* The receipt that certified the primary outcome stays readable.
THEOREM EvidenceStaysReadable == Spec => []EvidenceIsReadable
  <1>1. LedgerInv => EvidenceIsReadable
    BY DEF LedgerInv, SnapshotInv, Evidence, EvidenceIsReadable
  <1>2. QED
    BY <1>1, LedgerInvariant, PTL

\* No committed batch changes a latched primary outcome.
THEOREM PrimaryNeverRevoked == Spec => PrimaryIrrevocable
  <1>1. LedgerInv /\ TypeOK' /\ [Next]_vars
            => [HasPrimary(stored) => /\ stored'.primary.result = stored.primary.result
                                      /\ stored'.primary.delivery = stored.primary.delivery]_vars
    BY LedgerStep DEF Keeps
  <1>2. QED
    BY <1>1, LedgerInvariant, TypeCorrect, PTL DEF Spec, PrimaryIrrevocable
-----------------------------------------------------------------------------
(* The log and the projection.  Lifecycle relates a projection to the log  *)
(* it was projected from; it holds of the committed row and the committed  *)
(* log, and of the open transaction and the log it would commit.           *)

StartedIn(log, x) ==
    {i \in 1..Len(log) : log[i].kind = "node_started" /\ log[i].reference.execution = x}

SettledIn(log, x) ==
    {i \in 1..Len(log) : /\ log[i].kind \in {"node_completed", "execution_voided"}
                         /\ log[i].reference.execution = x}

Lived(node, started, settled) ==
    /\ node.state = "absent" <=> started = {}
    /\ node.state # "absent" => started = {node.startedAt}
    /\ node.state \in {"completed", "voided"} => settled = {node.settledAt}
                                                 /\ node.startedAt < node.settledAt
    /\ node.state \in {"absent", "active"} => settled = {}

Lifecycle(s, log) ==
    /\ s.cursor = Len(log)
    /\ \A x \in ExecutionIds : Lived(s.executions[x], StartedIn(log, x), SettledIn(log, x))

\* What one more event adds to the log's account of an execution.
LEMMA LogGrows ==
    ASSUME NEW log \in Seq(RunEvent), NEW e \in RunEvent, NEW x \in ExecutionIds
    PROVE  /\ e.kind = "node_started" /\ e.reference.execution = x =>
                /\ StartedIn(Append(log, e), x) = StartedIn(log, x) \cup {Len(log) + 1}
                /\ SettledIn(Append(log, e), x) = SettledIn(log, x)
           /\ e.kind \in {"node_completed", "execution_voided"} /\ e.reference.execution = x =>
                /\ StartedIn(Append(log, e), x) = StartedIn(log, x)
                /\ SettledIn(Append(log, e), x) = SettledIn(log, x) \cup {Len(log) + 1}
           /\ (e.kind \in {"node_started", "node_completed", "execution_voided"}
                    => e.reference.execution # x) =>
                /\ StartedIn(Append(log, e), x) = StartedIn(log, x)
                /\ SettledIn(Append(log, e), x) = SettledIn(log, x)
  <1> DEFINE next == Append(log, e)
             n == Len(log) + 1
  <1>1. Len(log) \in Nat /\ Len(next) = n /\ next[n] = e
    OBVIOUS
  <1>2. \A i \in 1..Len(log) : next[i] = log[i]
    OBVIOUS
  <1>3. 1..n = (1..Len(log)) \cup {n} /\ n \notin 1..Len(log)
    BY <1>1
  <1> HIDE DEF next, n
  <1>4. \A i : i \in StartedIn(next, x) <=>
            \/ i \in StartedIn(log, x)
            \/ i = n /\ e.kind = "node_started" /\ e.reference.execution = x
    BY <1>1, <1>2, <1>3 DEF StartedIn
  <1>5. \A i : i \in SettledIn(next, x) <=>
            \/ i \in SettledIn(log, x)
            \/ i = n /\ e.kind \in {"node_completed", "execution_voided"} /\ e.reference.execution = x
    BY <1>1, <1>2, <1>3 DEF SettledIn
  <1>6. QED
    BY <1>4, <1>5 DEF next, n

\* Applying the event that is appended keeps projection and log in step.
LEMMA LifecycleStep ==
    ASSUME NEW s \in Snapshot, NEW log \in Seq(RunEvent), Lifecycle(s, log),
           NEW e \in RunEvent, Accepts(s, e), NEW t, t = apply_event(s, e, Len(log) + 1)
    PROVE  Lifecycle(t, Append(log, e))
  <1> DEFINE n == Len(log) + 1
  <1>1. n \in Nat /\ Len(Append(log, e)) = n
    OBVIOUS
  <1>2. t.cursor = n
    BY <1>1, ApplyFrame
  <1>3. ASSUME NEW x \in ExecutionIds
        PROVE  Lived(t.executions[x], StartedIn(Append(log, e), x), SettledIn(Append(log, e), x))
    <2> DEFINE node == s.executions[x]
    <2>1. Lived(node, StartedIn(log, x), SettledIn(log, x))
      BY DEF Lifecycle
    <2>2. node \in NodeSnapshot
      BY DEF Snapshot
    <2>a. node.state \in {"absent", "active", "completed", "voided"} /\ node.startedAt \in Nat
      BY <2>2 DEF NodeSnapshot
    <2>3. CASE /\ t.executions[x].state = node.state
               /\ t.executions[x].startedAt = node.startedAt
               /\ t.executions[x].settledAt = node.settledAt
               /\ e.kind \in {"node_started", "node_completed", "execution_voided"}
                    => e.reference.execution # x
      BY <2>1, <2>3, LogGrows DEF Lived
    <2>4. CASE /\ e.kind = "node_started" /\ e.reference.execution = x
               /\ node.state = "absent"
               /\ t.executions[x].state = "active"
               /\ t.executions[x].startedAt = n
      <3>1. StartedIn(log, x) = {} /\ SettledIn(log, x) = {}
        BY <2>1, <2>4 DEF Lived
      <3>2. StartedIn(Append(log, e), x) = {n} /\ SettledIn(Append(log, e), x) = {}
        BY <2>4, <3>1, LogGrows
      <3> HIDE DEF n
      <3>3. QED
        BY <2>4, <3>2 DEF Lived
    <2>5. CASE /\ e.kind \in {"node_completed", "execution_voided"} /\ e.reference.execution = x
               /\ node.state = "active"
               /\ t.executions[x].state \in {"completed", "voided"}
               /\ t.executions[x].startedAt = node.startedAt
               /\ t.executions[x].settledAt = n
      <3>1. StartedIn(log, x) = {node.startedAt} /\ SettledIn(log, x) = {}
        BY <2>1, <2>5 DEF Lived
      <3>2. StartedIn(Append(log, e), x) = {node.startedAt} /\ SettledIn(Append(log, e), x) = {n}
        BY <2>5, <3>1, LogGrows
      <3>3. node.startedAt < n
        <4>1. node.startedAt \in StartedIn(log, x)
          BY <3>1
        <4>2. node.startedAt \in 1..Len(log)
          BY <4>1 DEF StartedIn
        <4>3. QED
          BY <1>1, <4>2
      <3> HIDE DEF n, node
      <3>4. QED
        BY <2>5, <3>2, <3>3 DEF Lived
    <2>6. QED
      BY <1>1, <2>3, <2>4, <2>5, ExecutionStep
  <1>4. QED
    BY <1>1, <1>2, <1>3 DEF Lifecycle

\* The invariant: the committed log explains the committed row, and the log a transaction would
\* commit explains the copy it works on.
LogInv ==
    /\ Lifecycle(stored, events)
    /\ pending.open => Lifecycle(pending.stored, events \o pending.appended)

\* An event added to a batch is added to the log the batch would make.
LEMMA BatchGrows ==
    ASSUME NEW p \in Seq(RunEvent), NEW q \in Seq(RunEvent), NEW e \in RunEvent
    PROVE  Append(p \o q, e) = p \o Append(q, e)
  OBVIOUS

\* One step keeps log and projection in step.
LEMMA LogStep ==
    ASSUME TypeOK, LogInv, [Next]_vars
    PROVE  LogInv'
  <1>1. /\ stored \in Snapshot /\ pending.stored \in Snapshot
        /\ events \in Seq(RunEvent) /\ pending.appended \in Seq(RunEvent)
    BY DEF TypeOK
  <1>2. ~NoAppend.open
    BY DEF NoAppend
  <1>3. CASE BeginAppend
    <2>1. /\ stored' = stored /\ events' = events
          /\ pending'.stored = stored /\ pending'.appended = <<>>
      BY <1>3 DEF BeginAppend
    <2>2. events \o <<>> = events
      BY <1>1
    <2>3. QED
      BY <2>1, <2>2 DEF LogInv
  <1>4. ASSUME NEW e \in Submitted, one_event(e) PROVE LogInv'
    <2> DEFINE prepared == prepare_event(pending.stored, e)
               log == events \o pending.appended
    <2>1. prepared \in RunEvent
      BY <1>1, SubmittedType, PrepareType
    <2>2. Accepts(pending.stored, prepared) /\ pending.open
      BY <1>4 DEF one_event, Admissible
    <2>3. log \in Seq(RunEvent) /\ Lifecycle(pending.stored, log)
      BY <1>1, <2>2 DEF LogInv
    <2>4. next_sequence = Len(log) + 1
      BY <2>3 DEF next_sequence, Lifecycle
    <2>5. /\ stored' = stored /\ events' = events
          /\ pending'.stored = apply_event(pending.stored, prepared, next_sequence)
          /\ pending'.appended = Append(pending.appended, prepared)
      BY <1>4 DEF one_event, TypeOK
    <2> HIDE DEF prepared
    <2>6. Append(log, prepared) = events \o Append(pending.appended, prepared)
      BY <1>1, <2>1, BatchGrows
    <2> HIDE DEF log
    <2>7. Lifecycle(pending'.stored, Append(log, prepared))
      BY <1>1, <2>1, <2>2, <2>3, <2>4, <2>5, LifecycleStep
    <2>8. QED
      BY <2>5, <2>6, <2>7 DEF LogInv
  <1>5. ASSUME NEW e \in Submitted, RefuseEvent(e) PROVE LogInv'
    BY <1>2, <1>5 DEF RefuseEvent, LogInv
  <1>6. CASE Commit
    BY <1>2, <1>6 DEF Commit, LogInv
  <1>7. CASE Rollback
    BY <1>2, <1>7 DEF Rollback, LogInv
  <1>8. CASE request_force_stop
    <2> DEFINE e == [kind |-> "force_stop_requested"]
    <2>1. e \in RunEvent
      BY DEF RunEvent
    <2>2. Accepts(stored, e)
      BY <1>8 DEF request_force_stop, Accepts
    <2>3. /\ stored' = apply_event(stored, e, stored.cursor + 1)
          /\ events' = Append(events, e)
          /\ pending' = pending /\ ~pending.open
      BY <1>8 DEF request_force_stop
    <2>4. Lifecycle(stored, events) /\ stored.cursor = Len(events)
      BY DEF LogInv, Lifecycle
    <2> HIDE DEF e
    <2>5. Lifecycle(stored', Append(events, e))
      BY <1>1, <2>1, <2>2, <2>3, <2>4, LifecycleStep
    <2>6. QED
      BY <2>3, <2>5 DEF LogInv
  <1>9. CASE UNCHANGED vars
    BY <1>9 DEF vars, LogInv
  <1>10. QED
    BY <1>3, <1>4, <1>5, <1>6, <1>7, <1>8, <1>9 DEF Next

\* Whatever batches callers submit and wherever transactions are dropped, an execution is
\* dispatched at most once and settled at most once, in that order, and the projection agrees with
\* the log about which events did it.
THEOREM ExecutionsLiveOnce == Spec => []ExecutionLifecycle
  <1>1. Init => LogInv
    <2> SUFFICES ASSUME Init PROVE LogInv
      OBVIOUS
    <2>1. stored = admitted /\ events = <<>> /\ ~pending.open
      BY DEF Init, NoAppend
    <2>2. \A x : StartedIn(<<>>, x) = {} /\ SettledIn(<<>>, x) = {}
      BY DEF StartedIn, SettledIn
    <2>3. \A x \in ExecutionIds : admitted.executions[x].state = "absent"
      BY DEF admitted, AbsentNode
    <2>4. admitted.cursor = Len(<<>>)
      BY DEF admitted
    <2>5. QED
      BY <2>1, <2>2, <2>3, <2>4 DEF LogInv, Lifecycle, Lived
  <1>2. TypeOK /\ LogInv /\ [Next]_vars => LogInv'
    BY LogStep
  <1>3. LogInv => ExecutionLifecycle
    <2> SUFFICES ASSUME LogInv, NEW x \in ExecutionIds
                 PROVE  Lived(stored.executions[x], {i \in 1..Len(events) : Starts(i, x)},
                              {i \in 1..Len(events) : Settles(i, x)})
      BY DEF ExecutionLifecycle, Lived
    <2>1. /\ {i \in 1..Len(events) : Starts(i, x)} = StartedIn(events, x)
          /\ {i \in 1..Len(events) : Settles(i, x)} = SettledIn(events, x)
      BY DEF Starts, Settles, Kind, StartedIn, SettledIn
    <2>2. QED
      BY <2>1 DEF LogInv, Lifecycle
  <1>4. QED
    BY <1>1, <1>2, <1>3, TypeCorrect, PTL DEF Spec

-----------------------------------------------------------------------------
(* The log folds into the projection: UsageAccounting and                  *)
(* FailureContextFrozen speak of sums over the log and of the projection   *)
(* before each of its events, both recursive functions.  The invariant     *)
(* carries such a function and lengthens it with every appended event; that *)
(* there is only one is shown at the least number where two would differ.  *)

\* Every set of numbers that has a member has a least one: the form in which induction is used.
LEMMA LeastNumber ==
    ASSUME NEW T, T \subseteq Nat, T # {}
    PROVE  \E x \in T : \A y \in T : x <= y
  <1> DEFINE R == {p \in Nat \X Nat : p[1] < p[2]}
  <1>1. R = OpToRel(<, Nat)
    BY Zenon DEF OpToRel
  <1>2. IsWellFoundedOn(R, Nat)
    BY <1>1, NatLessThanWellFounded, Zenon
  <1> HIDE DEF R
  <1>3. PICK x \in T : \A y \in T : ~ (<<y, x>> \in R)
    BY <1>2, WFMin
  <1>4. ASSUME NEW y \in T PROVE x <= y
    <2>1. x \in Nat /\ y \in Nat
      OBVIOUS
    <2>2. ~ (<<y, x>> \in R)
      BY <1>3
    <2>3. ~ (y < x)
      BY <2>1, <2>2 DEF R
    <2>4. QED
      BY <2>1, <2>3
  <1>5. QED
    BY <1>4

\* f holds the sums of the beginnings of a; t is the last of them.
RunningSum(f, a) == f = [n \in 0..Len(a) |-> IF n = 0 THEN 0 ELSE f[n - 1] + a[n]]
SumsTo(a, t) == \E f : RunningSum(f, a) /\ f[Len(a)] = t

\* f holds the projections after the beginnings of log.
Projections(f, log) ==
    f = [n \in 0..Len(log) |-> IF n = 0 THEN admitted ELSE apply_event(f[n - 1], log[n], n)]

\* A sequence has one running sum, and it is what Total reads.
LEMMA RunningSumUnique ==
    ASSUME NEW a, Len(a) \in Nat, NEW f, NEW g, RunningSum(f, a), RunningSum(g, a)
    PROVE  f = g
  <1> DEFINE T == {n \in 0..Len(a) : f[n] # g[n]}
  <1>1. /\ f = [n \in 0..Len(a) |-> f[n]]
        /\ g = [n \in 0..Len(a) |-> g[n]]
    BY DEF RunningSum
  <1>2. \A n \in 0..Len(a) : /\ f[n] = IF n = 0 THEN 0 ELSE f[n - 1] + a[n]
                             /\ g[n] = IF n = 0 THEN 0 ELSE g[n - 1] + a[n]
    BY DEF RunningSum
  <1>3. ASSUME T # {} PROVE FALSE
    <2>1. T \subseteq Nat
      OBVIOUS
    <2> HIDE DEF T
    <2>2. PICK x \in T : \A y \in T : x <= y
      BY <1>3, <2>1, LeastNumber
    <2>3. x \in 0..Len(a) /\ f[x] # g[x]
      BY DEF T
    <2>4. x # 0
      BY <1>2, <2>3
    <2>5. x - 1 \in 0..Len(a) /\ ~ (x <= x - 1)
      BY <2>3, <2>4
    <2>6. f[x - 1] = g[x - 1]
      BY <2>2, <2>5 DEF T
    <2>7. QED
      BY <1>2, <2>3, <2>4, <2>6
  <1>4. \A n \in 0..Len(a) : f[n] = g[n]
    BY <1>3
  <1> HIDE DEF T
  <1>5. QED
    BY <1>1, <1>4

LEMMA TotalIsSum ==
    ASSUME NEW a, Len(a) \in Nat, NEW t, SumsTo(a, t)
    PROVE  Total(a) = t
  <1>1. PICK f : RunningSum(f, a) /\ f[Len(a)] = t
    BY DEF SumsTo
  <1> DEFINE sum == CHOOSE g : RunningSum(g, a)
  <1>2. RunningSum(sum, a)
    BY <1>1, Zenon
  <1>3. sum[Len(a)] = Total(a)
    BY Zenon DEF Total, RunningSum
  <1> HIDE DEF sum
  <1>4. sum = f
    BY <1>1, <1>2, RunningSumUnique
  <1>5. QED
    BY <1>1, <1>3, <1>4

\* One more member adds to the sum.
LEMMA SumGrows ==
    ASSUME NEW a \in Seq(Int), NEW t, SumsTo(a, t), NEW x \in Int
    PROVE  SumsTo(Append(a, x), t + x)
  <1> DEFINE b == Append(a, x)
  <1>1. PICK f : RunningSum(f, a) /\ f[Len(a)] = t
    BY DEF SumsTo
  <1> DEFINE k == Len(a) + 1
             g == [n \in 0..k |-> IF n = k THEN t + x ELSE f[n]]
  <1>2. /\ Len(a) \in Nat /\ Len(b) = k /\ b[k] = x
        /\ \A i \in 1..Len(a) : b[i] = a[i]
    OBVIOUS
  <1>3. \A n \in 0..Len(a) : f[n] = IF n = 0 THEN 0 ELSE f[n - 1] + a[n]
    BY <1>1 DEF RunningSum
  <1> HIDE DEF b
  <1>4. /\ k \in Nat /\ k = Len(a) + 1
        /\ g[k] = t + x
        /\ \A n \in 0..Len(a) : g[n] = f[n]
        /\ g = [n \in 0..k |-> g[n]]
    BY <1>2
  <1> HIDE DEF g, k
  <1>5. ASSUME NEW n \in 0..k
        PROVE  g[n] = IF n = 0 THEN 0 ELSE g[n - 1] + b[n]
    <2>1. CASE n = k
      <3>1. n # 0 /\ n - 1 = Len(a) /\ n - 1 \in 0..Len(a)
        BY <1>2, <1>4, <2>1
      <3>2. g[n - 1] = t /\ g[n] = t + x
        BY <1>1, <1>4, <2>1, <3>1
      <3>3. QED
        BY <1>2, <2>1, <3>1, <3>2
    <2>2. CASE n # k
      <3>1. n \in 0..Len(a) /\ g[n] = f[n]
        <4>1. k = Len(a) + 1 /\ Len(a) \in Nat
          BY <1>2, <1>4
        <4>2. n \in 0..Len(a)
          BY <2>2, <4>1
        <4>3. QED
          BY <1>4, <4>2
      <3>2. CASE n = 0
        BY <1>3, <3>1, <3>2
      <3>3. CASE n # 0
        <4>1. n - 1 \in 0..Len(a) /\ n \in 1..Len(a)
          BY <1>2, <3>1, <3>3
        <4>2. g[n - 1] = f[n - 1] /\ b[n] = a[n]
          BY <1>2, <1>4, <4>1
        <4>3. QED
          BY <1>3, <3>1, <3>3, <4>2
      <3>4. QED
        BY <3>2, <3>3
    <2>3. QED
      BY <2>1, <2>2
  <1>6. RunningSum(g, b)
    BY <1>2, <1>5, <1>4 DEF RunningSum
  <1>7. QED
    BY <1>2, <1>4, <1>6 DEF SumsTo, b

\* A log has one sequence of projections.
LEMMA ProjectionsUnique ==
    ASSUME NEW log, Len(log) \in Nat, NEW f, NEW g, Projections(f, log), Projections(g, log)
    PROVE  f = g
  <1> DEFINE T == {n \in 0..Len(log) : f[n] # g[n]}
  <1>1. /\ f = [n \in 0..Len(log) |-> f[n]]
        /\ g = [n \in 0..Len(log) |-> g[n]]
    BY DEF Projections
  <1>2. \A n \in 0..Len(log) : /\ f[n] = IF n = 0 THEN admitted ELSE apply_event(f[n - 1], log[n], n)
                               /\ g[n] = IF n = 0 THEN admitted ELSE apply_event(g[n - 1], log[n], n)
    BY DEF Projections
  <1>3. ASSUME T # {} PROVE FALSE
    <2>1. T \subseteq Nat
      OBVIOUS
    <2> HIDE DEF T
    <2>2. PICK x \in T : \A y \in T : x <= y
      BY <1>3, <2>1, LeastNumber
    <2>3. x \in 0..Len(log) /\ f[x] # g[x]
      BY DEF T
    <2>4. x # 0
      BY <1>2, <2>3
    <2>5. x - 1 \in 0..Len(log) /\ ~ (x <= x - 1)
      BY <2>3, <2>4
    <2>6. f[x - 1] = g[x - 1]
      BY <2>2, <2>5 DEF T
    <2>7. QED
      BY <1>2, <2>3, <2>4, <2>6
  <1>4. \A n \in 0..Len(log) : f[n] = g[n]
    BY <1>3
  <1> HIDE DEF T
  <1>5. QED
    BY <1>1, <1>4

\* What FailureContextFrozen asks of event e when s is the projection before it.
Frozen(s, e) ==
    e.kind \in {"primary_graph_completed", "terminal"} /\ e.result.reason = "failed" =>
        \/ e.result.context = s.failure
        \/ /\ e.kind = "terminal"
           /\ HasPrimary(s)
           /\ e.result = s.primary.result

\* The log folds into s, and every failure in it was frozen when it was appended.
Told(s, log) ==
    \E f : /\ Projections(f, log)
           /\ f[Len(log)] = s
           /\ \A i \in 1..Len(log) : Frozen(f[i - 1], log[i])

\* The next event lengthens the sequence of projections.
LEMMA ToldStep ==
    ASSUME NEW s, NEW log \in Seq(RunEvent), Told(s, log),
           NEW e \in RunEvent, Frozen(s, e), NEW t, t = apply_event(s, e, Len(log) + 1)
    PROVE  Told(t, Append(log, e))
  <1> DEFINE next == Append(log, e)
  <1>1. PICK f : /\ Projections(f, log)
                 /\ f[Len(log)] = s
                 /\ \A i \in 1..Len(log) : Frozen(f[i - 1], log[i])
    BY DEF Told
  <1> DEFINE k == Len(log) + 1
             g == [n \in 0..k |-> IF n = k THEN t ELSE f[n]]
  <1>2. /\ Len(log) \in Nat /\ Len(next) = k /\ next[k] = e
        /\ \A i \in 1..Len(log) : next[i] = log[i]
    OBVIOUS
  <1>3. \A n \in 0..Len(log) : f[n] = IF n = 0 THEN admitted ELSE apply_event(f[n - 1], log[n], n)
    BY <1>1 DEF Projections
  <1> HIDE DEF next
  <1>4. /\ k \in Nat /\ k = Len(log) + 1
        /\ g[k] = t
        /\ \A n \in 0..Len(log) : g[n] = f[n]
        /\ g = [n \in 0..k |-> g[n]]
    BY <1>2
  <1> HIDE DEF g, k
  <1>5. ASSUME NEW n \in 0..k
        PROVE  /\ g[n] = IF n = 0 THEN admitted ELSE apply_event(g[n - 1], next[n], n)
               /\ n # 0 => Frozen(g[n - 1], next[n])
    <2>1. CASE n = k
      <3>1. n # 0 /\ n - 1 = Len(log) /\ n - 1 \in 0..Len(log)
        BY <1>2, <1>4, <2>1
      <3>2. g[n - 1] = s /\ g[n] = t
        BY <1>1, <1>4, <2>1, <3>1
      <3>3. QED
        BY <1>2, <2>1, <3>1, <3>2
    <2>2. CASE n # k
      <3>1. n \in 0..Len(log) /\ g[n] = f[n]
        <4>1. k = Len(log) + 1 /\ Len(log) \in Nat
          BY <1>2, <1>4
        <4>2. n \in 0..Len(log)
          BY <2>2, <4>1
        <4>3. QED
          BY <1>4, <4>2
      <3>2. CASE n = 0
        BY <1>3, <3>1, <3>2
      <3>3. CASE n # 0
        <4>1. n - 1 \in 0..Len(log) /\ n \in 1..Len(log)
          BY <1>2, <3>1, <3>3
        <4>2. g[n - 1] = f[n - 1] /\ next[n] = log[n]
          BY <1>2, <1>4, <4>1
        <4>3. Frozen(f[n - 1], log[n])
          BY <1>1, <4>1
        <4>4. QED
          BY <1>3, <3>1, <3>3, <4>2, <4>3
      <3>4. QED
        BY <3>2, <3>3
    <2>3. QED
      BY <2>1, <2>2
  <1>6. \A i \in 1..k : i \in 0..k /\ i # 0
    BY <1>4
  <1>7. Projections(g, next)
    BY <1>2, <1>5, <1>4 DEF Projections
  <1>8. \A i \in 1..Len(next) : Frozen(g[i - 1], next[i])
    BY <1>2, <1>5, <1>6
  <1>9. QED
    BY <1>2, <1>4, <1>7, <1>8 DEF Told, next

\* prepare_event freezes the context the transaction has projected so far: a caller either leaves
\* the context out or forwards the latched result.
LEMMA PreparedIsFrozen ==
    ASSUME TypeOK, NEW e \in Submitted
    PROVE  Frozen(pending.stored, prepare_event(pending.stored, e))
  <1> DEFINE s == pending.stored
             p == prepare_event(s, e)
             ends == /\ e.kind \in {"primary_graph_completed", "terminal"}
                     /\ e.result.reason = "failed"
  <1>1. e \in RunEvent /\ s \in Snapshot
    BY SubmittedType DEF TypeOK
  <1>2. CASE ends /\ ~e.result.context.present
    <2>1. p = [e EXCEPT !.result.context = s.failure]
      BY <1>2 DEF prepare_event
    <2>2. p.result.context = s.failure
      <3>1. CASE e.kind = "terminal"
        <4>1. e \in [kind: {"terminal"}, result: TerminalResult \ {NoResult}]
          BY <1>1, <3>1 DEF RunEvent
        <4>2. QED
          BY <2>1, <4>1 DEF TerminalResult
      <3>2. CASE e.kind = "primary_graph_completed"
        <4>1. e \in [kind: {"primary_graph_completed"}, result: TerminalResult \ {NoResult},
                     auxiliaryPending: BOOLEAN, delivery: OptionalExecution]
          BY <1>1, <3>2 DEF RunEvent
        <4>2. QED
          BY <2>1, <4>1 DEF TerminalResult
      <3>3. QED
        BY <1>2, <3>1, <3>2
    <2> HIDE DEF p
    <2>3. QED
      BY <2>2 DEF Frozen, p
  <1>3. CASE ~ (ends /\ ~e.result.context.present)
    <2>1. p = e
      BY <1>3 DEF prepare_event
    <2>2. CASE e \in ClientEvents
      <3>1. ~ends
        BY <1>3, <2>2, ContextAssumption
      <3>2. QED
        BY <2>1, <3>1 DEF Frozen
    <2>3. CASE e \in LatchedTerminal(s)
      <3>1. HasPrimary(s) /\ e.kind = "terminal" /\ e.result = s.primary.result
        BY <2>3 DEF LatchedTerminal
      <3>2. QED
        BY <2>1, <3>1 DEF Frozen
    <2>4. QED
      BY <2>2, <2>3 DEF Submitted
  <1>4. QED
    BY <1>2, <1>3

-----------------------------------------------------------------------------
(* The usage the log reports *)

ObservedIn(log) ==
    {i \in 1..Len(log) : log[i].kind \in {"token_usage_observed", "run_token_usage_observed"}}
ReportedIn(log) == {i \in ObservedIn(log) : log[i].usage.known}
TokensIn(log) == [i \in 1..Len(log) |-> IF i \in ReportedIn(log) THEN log[i].usage.tokens ELSE 0]
CacheIn(log) == [i \in 1..Len(log) |-> IF i \in ReportedIn(log) THEN log[i].usage.cache ELSE 0]

Observes(e) == e.kind \in {"token_usage_observed", "run_token_usage_observed"}

\* A hidden cache counter says nothing about the sum c, which goes on; before the first
\* observation there is nothing to sum.
Accounts(s, log) ==
    /\ s.usage.known <=> ObservedIn(log) # {}
    /\ SumsTo(TokensIn(log), s.usage.tokens)
    /\ s.usage.complete <=> ObservedIn(log) # {} /\ ReportedIn(log) = ObservedIn(log)
    /\ \E c \in Int : /\ SumsTo(CacheIn(log), c)
                      /\ s.usage.cache # NoTokens => s.usage.cache = c
                      /\ ~s.usage.known => c = 0 /\ s.usage.tokens = 0

\* The usage an observation carries.
LEMMA ObservedUsage ==
    ASSUME NEW e \in RunEvent, Observes(e)
    PROVE  /\ e.usage \in TokenUsageDelta \cup {Unreported}
           /\ e.usage.known \in BOOLEAN /\ e.usage.tokens \in Int /\ e.usage.cache \in Int
  <1>1. e.usage \in TokenUsageDelta \cup {Unreported}
    BY DEF RunEvent, Observes
  <1>2. CASE e.usage \in TokenUsageDelta
    <2>1. e.usage.known = TRUE
      BY <1>2, Zenon DEF TokenUsageDelta
    <2>2. e.usage.tokens \in 0..MaxTokens /\ e.usage.cache \in NoTokens..MaxTokens
      BY <1>2 DEF TokenUsageDelta
    <2>3. e.usage.tokens \in Int /\ e.usage.cache \in Int
      BY <2>2, SnapshotAssumption DEF NoTokens
    <2>4. QED
      BY <1>1, <2>1, <2>3
  <1>3. CASE e.usage = Unreported
    BY <1>3 DEF Unreported, NoTokens
  <1>4. QED
    BY <1>1, <1>2, <1>3

\* What one more event adds to the sets and to the sequences that are summed.
LEMMA UsageGrows ==
    ASSUME NEW log \in Seq(RunEvent), NEW e \in RunEvent
    PROVE  LET n == Len(log) + 1
               next == Append(log, e)
           IN  /\ n \notin ObservedIn(log) /\ n \notin ReportedIn(log)
               /\ ObservedIn(next) = IF Observes(e) THEN ObservedIn(log) \cup {n} ELSE ObservedIn(log)
               /\ ReportedIn(next) = IF Observes(e) /\ e.usage.known
                                     THEN ReportedIn(log) \cup {n} ELSE ReportedIn(log)
               /\ TokensIn(log) \in Seq(Int) /\ CacheIn(log) \in Seq(Int)
               /\ TokensIn(next) = Append(TokensIn(log),
                        IF Observes(e) /\ e.usage.known THEN e.usage.tokens ELSE 0)
               /\ CacheIn(next) = Append(CacheIn(log),
                        IF Observes(e) /\ e.usage.known THEN e.usage.cache ELSE 0)
  <1> DEFINE n == Len(log) + 1
             next == Append(log, e)
             x == IF Observes(e) /\ e.usage.known THEN e.usage.tokens ELSE 0
             y == IF Observes(e) /\ e.usage.known THEN e.usage.cache ELSE 0
  <1>1. Len(log) \in Nat /\ n \in Nat /\ Len(next) = n /\ next[n] = e
    OBVIOUS
  <1>2. \A i \in 1..Len(log) : next[i] = log[i] /\ log[i] \in RunEvent
    OBVIOUS
  <1>3. 1..n = (1..Len(log)) \cup {n} /\ n \notin 1..Len(log)
    BY <1>1
  <1>4. x \in Int /\ y \in Int
    BY ObservedUsage
  <1> HIDE DEF next, n
  <1>5. n \notin ObservedIn(log) /\ n \notin ReportedIn(log) /\ ReportedIn(log) \subseteq ObservedIn(log)
    BY <1>3 DEF ObservedIn, ReportedIn
  <1>6. ObservedIn(next) = IF Observes(e) THEN ObservedIn(log) \cup {n} ELSE ObservedIn(log)
    BY <1>1, <1>2, <1>3 DEF ObservedIn, Observes
  <1>7. ReportedIn(next) = IF Observes(e) /\ e.usage.known
                           THEN ReportedIn(log) \cup {n} ELSE ReportedIn(log)
    <2>1. \A i \in ObservedIn(log) : i \in 1..Len(log)
      BY DEF ObservedIn
    <2>2. \A i : i \in ReportedIn(next) <=>
              \/ i \in ReportedIn(log)
              \/ i = n /\ Observes(e) /\ e.usage.known
      BY <1>1, <1>2, <1>3, <1>6, <2>1 DEF ReportedIn
    <2>3. QED
      BY <2>2
  <1>8. ASSUME NEW i \in ReportedIn(log)
        PROVE  log[i].usage.tokens \in Int /\ log[i].usage.cache \in Int
    <2>1. log[i] \in RunEvent /\ Observes(log[i])
      BY <1>2 DEF ReportedIn, ObservedIn, Observes
    <2>2. QED
      BY <2>1, ObservedUsage
  <1>9. TokensIn(log) \in Seq(Int) /\ Len(TokensIn(log)) = Len(log)
    BY <1>1, <1>8 DEF TokensIn
  <1>10. CacheIn(log) \in Seq(Int) /\ Len(CacheIn(log)) = Len(log)
    BY <1>1, <1>8 DEF CacheIn
  <1>11. \A i \in 1..Len(log) : i # n /\ (i \in ReportedIn(next) <=> i \in ReportedIn(log))
    BY <1>3, <1>7
  <1>12. n \in ReportedIn(next) <=> Observes(e) /\ e.usage.known
    BY <1>5, <1>7
  <1>13. TokensIn(next) = Append(TokensIn(log), x)
    <2>1. Append(TokensIn(log), x) = [i \in 1..n |-> IF i = n THEN x ELSE TokensIn(log)[i]]
      BY <1>4, <1>9 DEF n
    <2>2. \A i \in 1..n : (IF i \in ReportedIn(next) THEN next[i].usage.tokens ELSE 0)
                            = (IF i = n THEN x ELSE TokensIn(log)[i])
      BY <1>1, <1>2, <1>3, <1>11, <1>12 DEF TokensIn
    <2>3. QED
      <3>1. TokensIn(next) = [i \in 1..n |-> IF i \in ReportedIn(next) THEN next[i].usage.tokens ELSE 0]
        BY <1>1 DEF TokensIn
      <3>2. QED
        BY <2>1, <2>2, <3>1, Zenon
  <1>14. CacheIn(next) = Append(CacheIn(log), y)
    <2>1. Append(CacheIn(log), y) = [i \in 1..n |-> IF i = n THEN y ELSE CacheIn(log)[i]]
      BY <1>4, <1>10 DEF n
    <2>2. \A i \in 1..n : (IF i \in ReportedIn(next) THEN next[i].usage.cache ELSE 0)
                            = (IF i = n THEN y ELSE CacheIn(log)[i])
      BY <1>1, <1>2, <1>3, <1>11, <1>12 DEF CacheIn
    <2>3. QED
      <3>1. CacheIn(next) = [i \in 1..n |-> IF i \in ReportedIn(next) THEN next[i].usage.cache ELSE 0]
        BY <1>1 DEF CacheIn
      <3>2. QED
        BY <2>1, <2>2, <3>1, Zenon
  <1>15. QED
    BY <1>5, <1>6, <1>7, <1>9, <1>10, <1>13, <1>14 DEF n, next

\* Only an observation changes the usage of the run.
LEMMA UsageFrame ==
    ASSUME NEW s \in Snapshot, NEW e \in RunEvent, Accepts(s, e), NEW n \in Nat,
           NEW t, t = apply_event(s, e, n)
    PROVE  t.usage = IF Observes(e) THEN add_usage(s, e.usage).usage ELSE s.usage
  <1> DEFINE k == apply_event_kind(s, e, n)
  <1>1. k \in Snapshot
    BY ApplyKindType
  <1>2. t = [k EXCEPT !.cursor = n]
    BY DEF apply_event
  <1> HIDE DEF k
  <1>3. t.usage = k.usage
    BY <1>1, <1>2 DEF Snapshot
  <1>4. CASE e.kind = "safe_log"
    <2>1. k = apply_failure_diagnostic(s, e, n)
      BY <1>4 DEF k, apply_event_kind
    <2>2. e.execution \in OptionalExecution /\ e.diagnostic \in {"none", "failure", "incomplete"}
      BY <1>4 DEF RunEvent
    <2>3. k.usage = s.usage
      BY <2>1, <2>2 DEF apply_failure_diagnostic, Snapshot
    <2>4. QED
      BY <1>3, <1>4, <2>3 DEF Observes
  <1>5. CASE e.kind \in {"prior_execution", "run_started", "force_stop_requested"}
    BY <1>3, <1>5 DEF k, apply_event_kind, Snapshot, Observes
  <1>6. CASE e.kind \in {"node_started", "node_completed", "execution_voided"}
    BY <1>3, <1>6 DEF k, apply_event_kind, apply_node_started, apply_settlement, Snapshot, Observes
  <1>7. CASE Observes(e)
    <2>1. k = add_usage(s, e.usage)
      BY <1>7 DEF k, apply_event_kind, Observes
    <2>2. QED
      BY <1>3, <1>7, <2>1
  <1>8. CASE e.kind \in {"primary_graph_completed", "terminal"}
    BY <1>3, <1>8 DEF k, apply_event_kind, apply_primary_graph_completed, apply_terminal, Snapshot,
         Observes
  <1>9. QED
    BY <1>4, <1>5, <1>6, <1>7, <1>8, EventShape DEF Observes

\* What an observation does to the counters.
LEMMA AddUsage ==
    ASSUME NEW s \in Snapshot, NEW u \in TokenUsageDelta \cup {Unreported}, NEW v,
           v = add_usage(s, u).usage
    PROVE  /\ v.known
           /\ ~s.usage.known /\ u.known => v.tokens = u.tokens /\ v.cache = u.cache /\ v.complete
           /\ ~s.usage.known /\ ~u.known => v.tokens = 0 /\ v.cache = NoTokens /\ ~v.complete
           /\ s.usage.known /\ u.known =>
                 /\ v.tokens = s.usage.tokens + u.tokens
                 /\ v.cache = add_optional_tokens(s.usage.cache, u.cache)
                 /\ v.complete = s.usage.complete
           /\ s.usage.known /\ ~u.known =>
                 v.tokens = s.usage.tokens /\ v.cache = s.usage.cache /\ ~v.complete
  <1>1. /\ s.usage \in [known: BOOLEAN, tokens: 0..MaxTokens, cache: NoTokens..MaxTokens,
                        complete: BOOLEAN]
        /\ s.usage.known \in BOOLEAN
    BY DEF Snapshot, TokenUsage
  <1>2. u.known \in BOOLEAN
    <2>1. u \in TokenUsageDelta => u.known = TRUE
      BY Zenon DEF TokenUsageDelta
    <2>2. u = Unreported => u.known = FALSE
      BY DEF Unreported
    <2>3. QED
      BY <2>1, <2>2
  <1>3. v = CASE ~s.usage.known /\ u.known ->
                    [known |-> TRUE, tokens |-> u.tokens, cache |-> u.cache, complete |-> TRUE]
              [] ~s.usage.known /\ ~u.known -> [NoUsage EXCEPT !.known = TRUE]
              [] s.usage.known /\ u.known ->
                    [s.usage EXCEPT !.tokens = s.usage.tokens + u.tokens,
                                    !.cache = add_optional_tokens(s.usage.cache, u.cache)]
              [] s.usage.known /\ ~u.known -> [s.usage EXCEPT !.complete = FALSE]
    BY DEF add_usage, Snapshot
  <1>4. CASE ~s.usage.known /\ u.known
    <2>1. v = [known |-> TRUE, tokens |-> u.tokens, cache |-> u.cache, complete |-> TRUE]
      BY <1>3, <1>4
    <2>2. v.known = TRUE
      BY <2>1
    <2>3. v.complete = TRUE
      BY <2>1
    <2>4. v.tokens = u.tokens /\ v.cache = u.cache
      BY <2>1
    <2>5. QED
      BY <1>4, <2>2, <2>3, <2>4
  <1>5. CASE ~s.usage.known /\ ~u.known
    BY <1>3, <1>5 DEF NoUsage
  <1>6. CASE s.usage.known /\ u.known
    BY <1>1, <1>3, <1>6
  <1>7. CASE s.usage.known /\ ~u.known
    BY <1>1, <1>3, <1>7
  <1>8. QED
    BY <1>1, <1>2, <1>4, <1>5, <1>6, <1>7

\* The event that is appended keeps the counters the sums over the log.
LEMMA AccountsStep ==
    ASSUME NEW s \in Snapshot, NEW log \in Seq(RunEvent), Accounts(s, log),
           NEW e \in RunEvent, Accepts(s, e), NEW t, t = apply_event(s, e, Len(log) + 1)
    PROVE  Accounts(t, Append(log, e))
  <1> DEFINE n == Len(log) + 1
             next == Append(log, e)
             told == Observes(e) /\ e.usage.known
             x == IF told THEN e.usage.tokens ELSE 0
             y == IF told THEN e.usage.cache ELSE 0
             u == e.usage
             v == t.usage
  <1>1. n \in Nat
    OBVIOUS
  <1>2. v = IF Observes(e) THEN add_usage(s, u).usage ELSE s.usage
    BY <1>1, UsageFrame
  <1>3. /\ n \notin ObservedIn(log) /\ n \notin ReportedIn(log)
        /\ ObservedIn(next) = IF Observes(e) THEN ObservedIn(log) \cup {n} ELSE ObservedIn(log)
        /\ ReportedIn(next) = IF told THEN ReportedIn(log) \cup {n} ELSE ReportedIn(log)
        /\ TokensIn(log) \in Seq(Int) /\ CacheIn(log) \in Seq(Int)
        /\ TokensIn(next) = Append(TokensIn(log), x)
        /\ CacheIn(next) = Append(CacheIn(log), y)
    BY UsageGrows
  <1>4. /\ x \in Int /\ y \in Int
        /\ Observes(e) => u \in TokenUsageDelta \cup {Unreported} /\ u.known \in BOOLEAN
    BY ObservedUsage
  <1>5. PICK c \in Int : /\ SumsTo(CacheIn(log), c)
                         /\ s.usage.cache # NoTokens => s.usage.cache = c
                         /\ ~s.usage.known => c = 0 /\ s.usage.tokens = 0
    BY DEF Accounts
  <1>6. /\ s.usage.known <=> ObservedIn(log) # {}
        /\ SumsTo(TokensIn(log), s.usage.tokens)
        /\ s.usage.complete <=> ObservedIn(log) # {} /\ ReportedIn(log) = ObservedIn(log)
    BY DEF Accounts
  <1>7. /\ s.usage.tokens \in Int /\ s.usage.cache \in Int
        /\ s.usage.known \in BOOLEAN /\ s.usage.complete \in BOOLEAN
    BY SnapshotAssumption DEF Snapshot, TokenUsage, NoTokens
  <1> HIDE DEF n, next, x, y
  <1>8. SumsTo(TokensIn(next), s.usage.tokens + x) /\ SumsTo(CacheIn(next), c + y)
    <2>1. SumsTo(Append(TokensIn(log), x), s.usage.tokens + x)
      BY <1>3, <1>4, <1>6, SumGrows
    <2>2. SumsTo(Append(CacheIn(log), y), c + y)
      BY <1>3, <1>4, <1>5, SumGrows
    <2>3. QED
      BY <1>3, <2>1, <2>2
  <1>9. ReportedIn(log) \subseteq ObservedIn(log)
    BY DEF ReportedIn
  <1>10. CASE ~Observes(e)
    <2>1. /\ v = s.usage /\ ObservedIn(next) = ObservedIn(log) /\ ReportedIn(next) = ReportedIn(log)
          /\ x = 0 /\ y = 0
      BY <1>2, <1>3, <1>10 DEF x, y
    <2>2. s.usage.tokens + x = s.usage.tokens /\ c + y = c
      BY <1>7, <2>1
    <2>3. SumsTo(TokensIn(next), s.usage.tokens) /\ SumsTo(CacheIn(next), c)
      BY <1>8, <2>2
    <2> HIDE DEF v
    <2>4. QED
      BY <1>5, <1>6, <2>1, <2>3 DEF Accounts, v, next
  <1>11. CASE Observes(e)
    <2>1. u \in TokenUsageDelta \cup {Unreported} /\ u.known \in BOOLEAN
      BY <1>4, <1>11
    <2>2. v = add_usage(s, u).usage
      BY <1>2, <1>11
    <2> HIDE DEF v, u
    <2>3. /\ v.known
          /\ ~s.usage.known /\ u.known => v.tokens = u.tokens /\ v.cache = u.cache /\ v.complete
          /\ ~s.usage.known /\ ~u.known => v.tokens = 0 /\ v.cache = NoTokens /\ ~v.complete
          /\ s.usage.known /\ u.known =>
                /\ v.tokens = s.usage.tokens + u.tokens
                /\ v.cache = add_optional_tokens(s.usage.cache, u.cache)
                /\ v.complete = s.usage.complete
          /\ s.usage.known /\ ~u.known =>
                v.tokens = s.usage.tokens /\ v.cache = s.usage.cache /\ ~v.complete
      BY <2>1, <2>2, AddUsage
    <2>4. ObservedIn(next) = ObservedIn(log) \cup {n}
      BY <1>3, <1>11
    <2>5. CASE u.known
      <3>1. x = u.tokens /\ y = u.cache /\ ReportedIn(next) = ReportedIn(log) \cup {n}
        BY <1>3, <1>11, <2>5 DEF x, y, u
      <3>2. v.tokens = s.usage.tokens + x
        BY <1>4, <1>5, <1>7, <2>3, <2>5, <3>1
      <3>3. v.cache # NoTokens => v.cache = c + y
        <4>1. CASE s.usage.known
          BY <1>5, <2>3, <2>5, <3>1, <4>1 DEF add_optional_tokens
        <4>2. CASE ~s.usage.known
          BY <1>4, <1>5, <2>3, <2>5, <3>1, <4>2
        <4>3. QED
          BY <1>7, <4>1, <4>2
      <3>4. v.complete <=> ObservedIn(next) # {} /\ ReportedIn(next) = ObservedIn(next)
        <4>1. ReportedIn(next) = ObservedIn(next) <=> ReportedIn(log) = ObservedIn(log)
          <5>1. ASSUME ReportedIn(next) = ObservedIn(next), NEW i
                PROVE  i \in ReportedIn(log) <=> i \in ObservedIn(log)
            <6>1. i \in ReportedIn(log) <=> i \in ReportedIn(next) /\ i # n
              BY <1>3, <3>1
            <6>2. i \in ObservedIn(log) <=> i \in ObservedIn(next) /\ i # n
              BY <1>3, <2>4
            <6>3. QED
              BY <5>1, <6>1, <6>2
          <5>2. ReportedIn(next) = ObservedIn(next) => ReportedIn(log) = ObservedIn(log)
            BY <5>1
          <5>3. QED
            BY <2>4, <3>1, <5>2
        <4>2. CASE s.usage.known
          BY <1>6, <2>3, <2>4, <2>5, <4>1, <4>2
        <4>3. CASE ~s.usage.known
          BY <1>6, <1>9, <2>3, <2>4, <2>5, <4>1, <4>3
        <4>4. QED
          BY <1>7, <4>2, <4>3
      <3>5. c + y \in Int /\ ObservedIn(next) # {}
        BY <1>4, <2>4
      <3>6. SumsTo(TokensIn(next), v.tokens)
        BY <1>8, <3>2
      <3>7. QED
        BY <1>8, <2>3, <3>3, <3>4, <3>5, <3>6 DEF Accounts, v, next
    <2>6. CASE ~u.known
      <3>1. x = 0 /\ y = 0 /\ ReportedIn(next) = ReportedIn(log)
        BY <1>3, <1>11, <2>6 DEF x, y, u
      <3>2. v.tokens = s.usage.tokens + x
        BY <1>5, <1>7, <2>3, <2>6, <3>1
      <3>3. v.cache # NoTokens => v.cache = c + y
        BY <1>5, <1>7, <2>3, <2>6, <3>1
      <3>4. ~v.complete /\ ReportedIn(next) # ObservedIn(next) /\ ObservedIn(next) # {}
        BY <1>3, <1>7, <2>3, <2>4, <2>6, <3>1
      <3>5. c + y \in Int
        BY <1>4
      <3>6. SumsTo(TokensIn(next), v.tokens)
        BY <1>8, <3>2
      <3>7. QED
        BY <1>8, <2>3, <3>3, <3>4, <3>5, <3>6 DEF Accounts, v, next
    <2>7. QED
      BY <2>1, <2>5, <2>6
  <1>12. QED
    BY <1>10, <1>11

-----------------------------------------------------------------------------
(* The invariant: the committed log tells the committed row, and the log a *)
(* transaction would commit tells the copy it works on.                    *)

History(s, log) == s.cursor = Len(log) /\ Told(s, log) /\ Accounts(s, log)

HistoryInv ==
    /\ History(stored, events)
    /\ pending.open => History(pending.stored, events \o pending.appended)

LEMMA HistoryStarts == History(admitted, <<>>)
  <1>1. Len(<<>>) = 0
    OBVIOUS
  <1>2. admitted.cursor = 0 /\ admitted.usage = NoUsage
    BY DEF admitted
  <1>3. Told(admitted, <<>>)
    <2> DEFINE f == [n \in 0..0 |-> admitted]
    <2>1. f[0] = admitted /\ \A n \in 0..0 : n = 0
      OBVIOUS
    <2>2. f = [n \in 0..0 |-> IF n = 0 THEN admitted ELSE apply_event(f[n - 1], <<>>[n], n)]
      BY <2>1
    <2> HIDE DEF f
    <2>3. Projections(f, <<>>)
      BY <1>1, <2>2 DEF Projections
    <2>4. \A i \in 1..0 : Frozen(f[i - 1], <<>>[i])
      OBVIOUS
    <2>5. QED
      BY <1>1, <2>1, <2>3, <2>4 DEF Told
  <1>4. ASSUME NEW a, Len(a) = 0 PROVE SumsTo(a, 0)
    <2> DEFINE f == [n \in 0..0 |-> 0]
    <2>1. f[0] = 0 /\ \A n \in 0..0 : n = 0
      OBVIOUS
    <2>2. f = [n \in 0..0 |-> IF n = 0 THEN 0 ELSE f[n - 1] + a[n]]
      BY <2>1
    <2> HIDE DEF f
    <2>3. QED
      BY <1>4, <2>1, <2>2 DEF SumsTo, RunningSum
  <1>5. /\ ObservedIn(<<>>) = {}
        /\ Len(TokensIn(<<>>)) = 0 /\ Len(CacheIn(<<>>)) = 0
    BY <1>1 DEF ObservedIn, TokensIn, CacheIn
  <1>6. SumsTo(TokensIn(<<>>), 0) /\ SumsTo(CacheIn(<<>>), 0)
    BY <1>4, <1>5
  <1>7. Accounts(admitted, <<>>)
    <2>1. /\ ~NoUsage.known /\ ~NoUsage.complete /\ NoUsage.tokens = 0 /\ NoUsage.cache = NoTokens
      BY DEF NoUsage
    <2>2. QED
      BY <1>2, <1>5, <1>6, <2>1 DEF Accounts
  <1>8. QED
    BY <1>1, <1>2, <1>3, <1>7 DEF History

LEMMA HistoryGrows ==
    ASSUME NEW s \in Snapshot, NEW log \in Seq(RunEvent), History(s, log),
           NEW e \in RunEvent, Accepts(s, e), Frozen(s, e), NEW t, t = apply_event(s, e, Len(log) + 1)
    PROVE  History(t, Append(log, e))
  <1>1. Len(log) + 1 \in Nat /\ Len(Append(log, e)) = Len(log) + 1
    OBVIOUS
  <1>2. t.cursor = Len(log) + 1
    BY <1>1, ApplyFrame
  <1>3. Told(t, Append(log, e))
    BY ToldStep DEF History
  <1>4. Accounts(t, Append(log, e))
    BY AccountsStep DEF History
  <1>5. QED
    BY <1>1, <1>2, <1>3, <1>4 DEF History

\* One step keeps what the logs tell.
LEMMA HistoryStep ==
    ASSUME TypeOK, HistoryInv, [Next]_vars
    PROVE  HistoryInv'
  <1>1. /\ stored \in Snapshot /\ pending.stored \in Snapshot
        /\ events \in Seq(RunEvent) /\ pending.appended \in Seq(RunEvent)
    BY DEF TypeOK
  <1>2. ~NoAppend.open
    BY DEF NoAppend
  <1>3. CASE BeginAppend
    <2>1. /\ stored' = stored /\ events' = events
          /\ pending'.stored = stored /\ pending'.appended = <<>>
      BY <1>3 DEF BeginAppend
    <2>2. events \o <<>> = events
      BY <1>1
    <2>3. QED
      BY <2>1, <2>2 DEF HistoryInv
  <1>4. ASSUME NEW e \in Submitted, one_event(e) PROVE HistoryInv'
    <2> DEFINE prepared == prepare_event(pending.stored, e)
               log == events \o pending.appended
    <2>1. prepared \in RunEvent /\ Frozen(pending.stored, prepared)
      BY <1>1, SubmittedType, PrepareType, PreparedIsFrozen
    <2>2. Accepts(pending.stored, prepared) /\ pending.open
      BY <1>4 DEF one_event, Admissible
    <2>3. log \in Seq(RunEvent) /\ History(pending.stored, log)
      BY <1>1, <2>2 DEF HistoryInv
    <2>4. next_sequence = Len(log) + 1
      BY <2>3 DEF next_sequence, History
    <2>5. /\ stored' = stored /\ events' = events
          /\ pending'.stored = apply_event(pending.stored, prepared, next_sequence)
          /\ pending'.appended = Append(pending.appended, prepared)
      BY <1>4 DEF one_event, TypeOK
    <2> HIDE DEF prepared
    <2>6. Append(log, prepared) = events \o Append(pending.appended, prepared)
      BY <1>1, <2>1, BatchGrows
    <2> HIDE DEF log
    <2>7. History(pending'.stored, Append(log, prepared))
      BY <1>1, <2>1, <2>2, <2>3, <2>4, <2>5, HistoryGrows
    <2>8. QED
      BY <2>5, <2>6, <2>7 DEF HistoryInv
  <1>5. ASSUME NEW e \in Submitted, RefuseEvent(e) PROVE HistoryInv'
    BY <1>2, <1>5 DEF RefuseEvent, HistoryInv
  <1>6. CASE Commit
    BY <1>2, <1>6 DEF Commit, HistoryInv
  <1>7. CASE Rollback
    BY <1>2, <1>7 DEF Rollback, HistoryInv
  <1>8. CASE request_force_stop
    <2> DEFINE e == [kind |-> "force_stop_requested"]
    <2>1. e \in RunEvent /\ Frozen(stored, e)
      BY DEF RunEvent, Frozen
    <2>2. Accepts(stored, e)
      BY <1>8 DEF request_force_stop, Accepts
    <2>3. /\ stored' = apply_event(stored, e, stored.cursor + 1)
          /\ events' = Append(events, e)
          /\ pending' = pending /\ ~pending.open
      BY <1>8 DEF request_force_stop
    <2>4. History(stored, events) /\ stored.cursor = Len(events)
      BY DEF HistoryInv, History
    <2> HIDE DEF e
    <2>5. History(stored', Append(events, e))
      BY <1>1, <2>1, <2>2, <2>3, <2>4, HistoryGrows
    <2>6. QED
      BY <2>3, <2>5 DEF HistoryInv
  <1>9. CASE UNCHANGED vars
    BY <1>9 DEF vars, HistoryInv
  <1>10. QED
    BY <1>3, <1>4, <1>5, <1>6, <1>7, <1>8, <1>9 DEF Next

\* At every commit, refusal, rollback and force stop the committed row is what the committed log
\* folds to, and so is the copy of an open transaction with the events it has appended.
THEOREM HistoryInvariant == Spec => []HistoryInv
  <1>1. Init => HistoryInv
    <2> SUFFICES ASSUME Init PROVE HistoryInv
      OBVIOUS
    <2>1. stored = admitted /\ events = <<>> /\ ~pending.open
      BY DEF Init, NoAppend
    <2>2. QED
      BY <2>1, HistoryStarts DEF HistoryInv
  <1>2. TypeOK /\ HistoryInv /\ [Next]_vars => HistoryInv'
    BY HistoryStep
  <1>3. QED
    BY <1>1, <1>2, TypeCorrect, PTL DEF Spec

\* The token counters of a run are the sums of what its log reports, complete exactly when no
\* observation was unreported, whatever batches add_usage was applied in.
THEOREM UsageAddsUp == Spec => []UsageAccounting
  <1>1. TypeOK /\ HistoryInv => UsageAccounting
    <2> SUFFICES ASSUME TypeOK, HistoryInv PROVE UsageAccounting
      OBVIOUS
    <2>1. events \in Seq(RunEvent) /\ Accounts(stored, events)
      BY DEF TypeOK, HistoryInv, History
    <2>2. Observed = ObservedIn(events)
      BY DEF Observed, ObservedIn, Kind
    <2>3. Reported = ReportedIn(events)
      BY <2>2 DEF Reported, ReportedIn
    <2>4. Tokens = TokensIn(events) /\ Cache = CacheIn(events)
      BY <2>3 DEF Tokens, Cache, TokensIn, CacheIn
    <2>5. Len(Tokens) \in Nat /\ Len(Cache) \in Nat
      <3>1. [kind |-> "run_started"] \in RunEvent
        BY DEF RunEvent
      <3>2. Tokens \in Seq(Int) /\ Cache \in Seq(Int)
        BY <2>1, <2>4, <3>1, UsageGrows
      <3>3. QED
        BY <3>2
    <2>6. SumsTo(Tokens, stored.usage.tokens)
      BY <2>1, <2>4 DEF Accounts
    <2>7. Total(Tokens) = stored.usage.tokens
      BY <2>5, <2>6, TotalIsSum
    <2>8. PICK c \in Int : SumsTo(Cache, c) /\ (stored.usage.cache # NoTokens => stored.usage.cache = c)
      BY <2>1, <2>4 DEF Accounts
    <2>9. Total(Cache) = c
      BY <2>5, <2>8, TotalIsSum
    <2>10. /\ stored.usage.known <=> Observed # {}
           /\ stored.usage.complete <=> Observed # {} /\ Reported = Observed
      BY <2>1, <2>2, <2>3 DEF Accounts
    <2>11. QED
      BY <2>7, <2>8, <2>9, <2>10 DEF UsageAccounting
  <1>2. QED
    BY <1>1, TypeCorrect, HistoryInvariant, PTL

\* Every failure in the log carries the context prepare_event found when it was appended, also when
\* the diagnostics stand in its own batch, or repeats the latched one.
THEOREM ContextFreezes == Spec => []FailureContextFrozen
  <1>1. TypeOK /\ HistoryInv => FailureContextFrozen
    <2> SUFFICES ASSUME TypeOK, HistoryInv PROVE FailureContextFrozen
      OBVIOUS
    <2>1. events \in Seq(RunEvent) /\ Told(stored, events)
      BY DEF TypeOK, HistoryInv, History
    <2>2. PICK f : /\ Projections(f, events)
                   /\ \A i \in 1..Len(events) : Frozen(f[i - 1], events[i])
      BY <2>1 DEF Told
    <2> DEFINE g == CHOOSE g : Projections(g, events)
    <2>3. Projections(g, events)
      BY <2>2, Zenon
    <2>4. Replay = g
      BY Zenon DEF Replay, Projections
    <2> HIDE DEF g
    <2>5. Replay = f
      <3>1. Len(events) \in Nat
        BY <2>1
      <3>2. QED
        BY <2>2, <2>3, <2>4, <3>1, ProjectionsUnique
    <2>6. \A i \in 1..Len(events) : Frozen(Replay[i - 1], events[i])
      BY <2>2, <2>5
    <2>7. QED
      BY <2>6 DEF FailureContextFrozen, Frozen, Kind
  <1>2. QED
    BY <1>1, TypeCorrect, HistoryInvariant, PTL
=============================================================================
