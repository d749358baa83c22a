----------------------------- MODULE MCNumbering -----------------------------
(* Instances of Numbering for TLC.                                          *)
EXTENDS Numbering, TLC

CONSTANTS k1, k2, t1, t2, t3

Symmetry == Permutations(Tx) \cup Permutations(Key)
=============================================================================
