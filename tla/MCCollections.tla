---------------------------- MODULE MCCollections ----------------------------
(* Instances of Collections for TLC.                                        *)
EXTENDS Collections, TLC

CONSTANTS t1, t2, r1, r2, i1

(* A certificate that can be paid in full, with a retention, and one that   *)
(* recovers an advance and leaves less to collect.                          *)
Plain == [gross |-> 3, retention |-> 1, advance |-> 0]
Recovering == [gross |-> 2, retention |-> 0, advance |-> 1]
Inputs2 == {Plain, Recovering}
Inputs1 == {Plain}

OneOrTwo == 1 .. 2
OnlyOne == {1}

Symmetry == Permutations(Tx) \cup Permutations(Receipt)
=============================================================================
