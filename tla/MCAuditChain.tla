---------------------------- MODULE MCAuditChain ----------------------------
(* Instances of AuditChain for TLC.                                        *)
EXTENDS AuditChain, TLC

CONSTANTS t1, t2

Symmetry == Permutations(Tx)
=============================================================================
