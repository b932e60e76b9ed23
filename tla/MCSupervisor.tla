--------------------------- MODULE MCSupervisor ---------------------------
(* Instances of Supervisor for TLC.                                        *)
EXTENDS Supervisor, TLC

CONSTANTS e1, e2

Pair == {e1, e2}
Single == {e1}
Symmetry == Permutations(Pair)
=============================================================================
