---------------------------- MODULE MCRunLedger ----------------------------
(* Instances of RunLedger for TLC. *)
EXTENDS RunLedger

Ref(r, e, i) == [run |-> r, execution |-> e, instance |-> i]
Failed == [reason |-> "failed", context |-> NoContext]
Succeeded == [reason |-> "succeeded", context |-> NoContext]

\* Lifecycle: two executions, one of which may also be imported; references that name another run
\* or another node instance; outcomes with and without a verifier output.
LifecycleEvents ==
    {[kind |-> "run_started"]}
    \cup {[kind |-> "prior_execution",
           prior |-> [execution |-> e, position |-> 3 - e, state |-> st, outcome |-> "verifier"]] :
             e \in {1, 2}, st \in {"active", "settled"}}
    \cup {[kind |-> "prior_execution",
           prior |-> [execution |-> 2, position |-> 3, state |-> "voided", outcome |-> "none"]]}
    \cup {[kind |-> "node_started", reference |-> Ref("this", e, "a")] : e \in {1, 2}}
    \cup {[kind |-> "node_started", reference |-> Ref("other", 2, "a")]}
    \cup {[kind |-> "node_completed", reference |-> Ref("this", e, "a"), outcome |-> "verifier"] :
             e \in {1, 2}}
    \cup {[kind |-> "node_completed", reference |-> Ref(r, 1, i), outcome |-> o] :
             r \in {"this", "other"}, i \in {"a", "b"}, o \in {"error", "malformed"}}
    \cup {[kind |-> "execution_voided", reference |-> Ref("this", e, "a")] : e \in {1, 2}}
    \cup {[kind |-> "primary_graph_completed", result |-> r, auxiliaryPending |-> TRUE,
           delivery |-> d] : r \in {Succeeded, Failed}, d \in {NoExecution, 1}}
    \cup {[kind |-> "terminal", result |-> r] : r \in {Failed}}

\* Observations: logs and failure diagnostics, and token usage that is known, that lacks the
\* cache counter, that is unreported, and that overflows.
Delta(t, c) == [known |-> TRUE, tokens |-> t, cache |-> c]
ObservationEvents ==
    {[kind |-> "safe_log", execution |-> 1, stream |-> "error", diagnostic |-> "failure"],
     [kind |-> "safe_log", execution |-> NoExecution, stream |-> "error",
      diagnostic |-> "incomplete"]}
    \cup {[kind |-> "token_usage_observed", execution |-> 1, usage |-> u] :
             u \in {Delta(2, 1), Unreported}}
    \cup {[kind |-> "run_token_usage_observed", usage |-> Delta(1, NoTokens)]}

AllEvents == LifecycleEvents \cup ObservationEvents
=============================================================================
