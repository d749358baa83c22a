------------------------------ MODULE RowLocks ------------------------------
(* The row locks a transaction takes with SELECT ... FOR UPDATE or with an *)
(* UPDATE, as the code of src/src uses them (PostgreSQL behind TypeORM):   *)
(* a lock is exclusive, it is kept until the transaction commits or rolls  *)
(* back, a transaction that asks for a row another one holds waits, and    *)
(* the database aborts a transaction that waits for itself.                *)
(*                                                                         *)
(* owner[r] is the transaction that holds row r; a value that is no        *)
(* transaction marks a free row.                                           *)
EXTENDS FiniteSets

(* Row r can be locked by t: nobody else holds it (a second lock by the    *)
(* holder is granted at once).                                             *)
Lockable(owner, r, t, free) == owner[r] \in {free, t}

(* The table after t locked the rows R, and after t ended.                 *)
Lock(owner, R, t) == [r \in DOMAIN owner |-> IF r \in R THEN t ELSE owner[r]]
Release(owner, t, free) ==
  [r \in DOMAIN owner |-> IF owner[r] = t THEN free ELSE owner[r]]

(* waitsFor is the set of pairs <<t, u>> where t waits for a row u holds;  *)
(* a transaction waits for one row, so it has at most one successor and a  *)
(* cycle through t is a set of transactions closed under waiting in both   *)
(* directions.                                                             *)
OnWaitCycle(t, waitsFor) ==
  LET Waiting == {e[1] : e \in waitsFor}
  IN  \E S \in SUBSET Waiting :
         /\ t \in S
         /\ \A u \in S : \E w \in S : <<u, w>> \in waitsFor
         /\ \A u \in S : \E w \in S : <<w, u>> \in waitsFor
=============================================================================
