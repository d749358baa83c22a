--------------------------- MODULE MCPeriodControl ---------------------------
(* Instances of PeriodControl for TLC.                                      *)
EXTENDS PeriodControl, TLC

CONSTANTS t1, t2, t3

Symmetry == Permutations(Tx)
=============================================================================
