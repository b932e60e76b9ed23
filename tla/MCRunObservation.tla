--------------------------- MODULE MCRunObservation ---------------------------
(***************************************************************************)
(* RunObservation for TLC.  Observers of different kinds meet only in the  *)
(* runtime entry: the audiences are one follower, two concurrent status    *)
(* calls, or one history reader.                                           *)
(***************************************************************************)
EXTENDS RunObservation

CONSTANTS w1, c1, c2, h1

Separately == {{w1}, {c1, c2}, {h1}}

===============================================================================
