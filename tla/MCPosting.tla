------------------------------ MODULE MCPosting ------------------------------
(* Instances of Posting for TLC.                                            *)
EXTENDS Posting, TLC

CONSTANTS v1, v2, p1, p2, ser1, ser2, t1, t2, t3

(* One voucher type, both periods in one financial year: one series.        *)
OneSeries == [v \in Voucher |-> [p \in Period |-> ser1]]

(* One voucher type, the periods in two financial years: two series.        *)
SeriesPerYear == [v \in Voucher |-> [p \in Period |-> IF p = p1 THEN ser1 ELSE ser2]]

(* Vouchers and transactions are interchangeable in both.                   *)
Symmetry == Permutations(Voucher) \cup Permutations(Tx)
=============================================================================
