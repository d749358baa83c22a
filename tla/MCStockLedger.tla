---------------------------- MODULE MCStockLedger ----------------------------
(* Instances of StockLedger for TLC.                                        *)
EXTENDS StockLedger, TLC

CONSTANTS t1, t2, pA, pB, b1, b2, i1, j1

In(p, q, v) == [pair |-> p, side |-> "in", qty |-> q, value |-> v]
Out(p, q) == [pair |-> p, side |-> "out", qty |-> q, value |-> 0]

Bills == {<<In(pA, 3, 2)>>, <<In(pA, 1, 3), In(pB, 1, 1)>>}
Issues == {<<Out(pA, 2)>>, <<Out(pB, 1), Out(pA, 1)>>}
Journals == {<<Out(pA, 1)>>, <<Out(pA, 2), In(pB, 2, 0)>>, <<In(pA, 1, 0)>>}

Symmetry == Permutations(Tx)
=============================================================================
