-------------------------- MODULE MCCapsuleStream --------------------------
(* Model-checking instances of CapsuleStream. *)
EXTENDS CapsuleStream

Cast(says, meets) == [script |-> says, trouble |-> meets]

\* With queues of one event: output that has to wait, metadata that overflows the side
\* queues, the retained errors and the sum of the usage, and calls that cross.
FullQueues ==
    {Cast(<<"output", "output">>, {"interrupt"}),
     Cast(<<"error", "error">>, {"interrupt"}),
     Cast(<<"usage", "error", "usage">>, {"interrupt"}),
     Cast(<<"output", "output">>, {"disconnect"}),
     Cast(<<"output", "usage">>, {"append"}),
     Cast(<<"output", "error">>, {"close", "timeout"}),
     Cast(<<"output">>, {"interrupt", "close"}),
     Cast(<<"output">>, {"close", "disconnect"}),
     Cast(<<"usage">>, {"interrupt", "disconnect", "timeout"})}
=============================================================================
