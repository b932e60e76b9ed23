---------------------------- MODULE MCNodeSessions ----------------------------
(***************************************************************************)
(* NodeSessions for TLC.  Executions 1 and 2 are of one node instance and  *)
(* run; 3 is of the same node in the owner's next run; 4 is execution      *)
(* scoped.  The casts put together what can collide: two executions and a  *)
(* close, or one execution at a time and two closes.                       *)
(***************************************************************************)
EXTENDS NodeSessions

CONSTANTS c1, c2, loop

Run == [e \in Execs |-> IF e = 3 THEN 2 ELSE 1]
Slot == [e \in Execs |-> IF e = 4 THEN ExecutionScope ELSE loop]

Cast(b, es, cs) == [boundary |-> b, execs |-> es, closes |-> cs]
Closing(c, run) == [x \in {c} |-> run]
Both(first, second) == [x \in {c1, c2} |-> IF x = c1 THEN first ELSE second]

ConcurrentCloses ==
    {Cast("Run", {1, 2}, Closing(c1, 1)),
     Cast("Run", {1, 4}, Closing(c1, 1)),
     Cast("Run", {1}, Both(1, 1)),
     Cast("Owner", {1, 3}, Both(1, 1)),
     Cast("Owner", {1, 3}, Both(1, Everything))}

\* force_stop closes the run beside the driving turn.
ForceStopBesideTurn == {Cast("Run", {1}, Both(1, 1))}
===============================================================================
