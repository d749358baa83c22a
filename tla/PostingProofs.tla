---------------------------- MODULE PostingProofs ----------------------------
(* Posting implements LedgerBook, and its ledger agrees with its vouchers,  *)
(* for any number of vouchers, periods, series and concurrent transactions. *)
(*                                                                          *)
(* The argument is that of two-phase locking: what a transaction checked    *)
(* and computed stays true until it commits, because every row it depends   *)
(* on is locked by it and only the holder of a row (or a step that needs    *)
(* the row free) changes it.                                                *)
EXTENDS Posting, LedgerBookProofs

IInv == TypeOK /\ BookInv /\ TransactionInv /\ LedgerMatchesVouchers

-----------------------------------------------------------------------------
(* The lock table.                                                          *)
LEMMA LockEffect ==
  ASSUME TypeOK, NEW t \in Tx, NEW r \in Row, Free(r, t), owner' = Lock(owner, {r}, t)
  PROVE  /\ owner' \in [Row -> Tx \cup {NoTx}]
         /\ owner'[r] = t
         /\ \A q \in Row, u \in Tx : owner[q] = u => owner'[q] = u
BY TxValues DEF TypeOK, Free, Lockable, Lock

LEMMA ReleaseEffect ==
  ASSUME TypeOK, NEW t \in Tx, owner' = Release(owner, t, NoTx)
  PROVE  /\ owner' \in [Row -> Tx \cup {NoTx}]
         /\ \A q \in Row, u \in Tx \ {t} : owner[q] = u => owner'[q] = u
BY TxValues DEF TypeOK, Release

(* What a request is made of.                                               *)
LEMMA JobFacts ==
  ASSUME NEW j \in Job
  PROVE  /\ j.voucher \in Voucher
         /\ j.op \in {"post", "cancel", "repost", "delete"}
         /\ j.op = "repost" => j.to \in Period
BY DEF Job

(* The rows a transaction past its first lock depends on.                   *)
LEMMA TxFacts ==
  ASSUME IInv, NEW t \in Tx, PastLock(t)
  PROVE  /\ Vch(t) \in Voucher /\ Vch(t) \in Row
         /\ owner[Vch(t)] = t
         /\ job[t].op \in {"post", "cancel", "repost"}
         /\ PostDate(t) \in Period /\ PostDate(t) \in Row
         /\ SeriesOf[Vch(t)][PostDate(t)] \in Series
         /\ SeriesOf[Vch(t)][PostDate(t)] \in Row
         /\ job[t].op = "post" => status[Vch(t)] = "DRAFT" /\ LiveEntries(Vch(t)) = {}
         /\ Correcting(t) =>
              /\ status[Vch(t)] = "POSTED"
              /\ LiveEntries(Vch(t)) = {entry[Vch(t)]}
              /\ entry[Vch(t)] \in ledger /\ entry[Vch(t)] \in Original
              /\ entry[Vch(t)].voucher = Vch(t)
              /\ entry[Vch(t)].period \in Period /\ entry[Vch(t)].period \in Row
              /\ SeriesOfEntry(entry[Vch(t)]) \in Series
              /\ SeriesOfEntry(entry[Vch(t)]) \in Row
<1> DEFINE v == Vch(t)
<1>1. job[t] \in Job /\ owner[v] = t /\ Eligible(t) /\ job[t].op # "delete"
  BY DEF IInv, TransactionInv, TxInv, VoucherHeld, PastLock, TypeOK, Correcting, PostsEntry, Step
<1>2. v \in Voucher /\ job[t].op \in {"post", "cancel", "repost"}
      /\ (job[t].op = "repost" => job[t].to \in Period)
  BY <1>1, JobFacts DEF Vch
<1>3. PostDate(t) \in Period
  BY <1>2 DEF PostDate, IInv, TypeOK
<1>4. SeriesOf[v][PostDate(t)] \in Series
  BY <1>2, <1>3, SeriesOfType
<1>5. job[t].op = "post" => status[v] = "DRAFT" /\ LiveEntries(v) = {}
  BY <1>1, <1>2 DEF Eligible, IInv, LedgerMatchesVouchers
<1>6. ASSUME Correcting(t)
      PROVE  /\ status[v] = "POSTED" /\ LiveEntries(v) = {entry[v]}
             /\ entry[v] \in ledger /\ entry[v] \in Original /\ entry[v].voucher = v
             /\ entry[v].period \in Period /\ SeriesOfEntry(entry[v]) \in Series
  <2>1. status[v] = "POSTED"
    BY <1>1, <1>6 DEF Eligible, Correcting
  <2>2. LiveEntries(v) = {entry[v]}
    BY <1>2, <2>1 DEF IInv, LedgerMatchesVouchers
  <2>3. entry[v] \in ledger /\ entry[v] \in Original /\ entry[v].voucher = v
    BY <1>2, <2>2, LiveIsOriginal DEF IInv
  <2>4. entry[v].period \in Period /\ SeriesOfEntry(entry[v]) \in Series
    BY <2>3, EntryKinds DEF Entry
  <2> QED
    BY <2>1, <2>2, <2>3, <2>4
<1> QED
  BY <1>1, <1>2, <1>3, <1>4, <1>5, <1>6 DEF Row

-----------------------------------------------------------------------------
(* A step that is not t's leaves TxInv(t) true when it leaves t's own state *)
(* and the rows t has locked alone.                                         *)
Undisturbed(t) ==
  /\ pc'[t] = pc[t] /\ job'[t] = job[t]
  /\ reversal'[t] = reversal[t] /\ posted'[t] = posted[t]
  /\ \A r \in Row : owner[r] = t => owner'[r] = t
  /\ \A p \in Period : owner[p] = t => period'[p] = period[p]
  /\ \A s \in Series : owner[s] = t => last'[s] = last[s]
  /\ PastLock(t) =>
        /\ status'[Vch(t)] = status[Vch(t)]
        /\ entry'[Vch(t)] = entry[Vch(t)]
        /\ date'[Vch(t)] = date[Vch(t)]

LEMMA UndisturbedKeepsTxInv ==
  ASSUME IInv, NEW t \in Tx, Undisturbed(t)
  PROVE  TxInv(t)'
<1> USE DEF Undisturbed
<1>1. TxInv(t)
  BY DEF IInv, TransactionInv
<1>2. CASE ~PastLock(t)
  BY <1>1, <1>2 DEF TxInv, VoucherHeld, PeriodHeld, PendingIsNext, PastLock, ReversePeriodHeld,
                    PostPeriodHeld, HasReversal, HasEntry, Correcting, PostsEntry, Vch
<1>3. CASE PastLock(t)
  <2> DEFINE v == Vch(t)
  <2>1. /\ Vch(t)' = v /\ PostDate(t)' = PostDate(t) /\ entry'[v] = entry[v]
        /\ PastLock(t)' /\ (Correcting(t)' <=> Correcting(t)) /\ (PostsEntry(t)' <=> PostsEntry(t))
    BY <1>3 DEF Vch, PostDate, PastLock, Correcting, PostsEntry
  <2>2. VoucherHeld(t)'
    BY <1>1, <1>3, <2>1, TxFacts DEF TxInv, VoucherHeld, Eligible, Vch
  <2>3. PeriodHeld(t)'
    <3>1. ReversePeriodHeld(t) => Correcting(t)
      BY <1>1 DEF TxInv, VoucherHeld, ReversePeriodHeld
    <3>2. ReversePeriodHeld(t)' <=> ReversePeriodHeld(t)
      BY <2>1 DEF ReversePeriodHeld
    <3>3. PostPeriodHeld(t)' <=> PostPeriodHeld(t)
      BY <2>1 DEF PostPeriodHeld
    <3>4. PeriodHeld(t)
      BY <1>1 DEF TxInv
    <3>5. ReversePeriodHeld(t) =>
             owner'[entry[v].period] = t /\ period'[entry[v].period] = "OPEN"
      BY <1>3, <3>1, <3>4, TxFacts DEF PeriodHeld
    <3>6. PostPeriodHeld(t) => owner'[PostDate(t)] = t /\ period'[PostDate(t)] = "OPEN"
      BY <1>3, <3>4, TxFacts DEF PeriodHeld
    <3> QED
      BY <2>1, <3>2, <3>3, <3>5, <3>6 DEF PeriodHeld
  <2>4. PendingIsNext(t)'
    <3>1. HasReversal(t)' <=> HasReversal(t)
      BY <2>1 DEF HasReversal
    <3>2. HasEntry(t)' <=> HasEntry(t)
      BY <2>1 DEF HasEntry
    <3>3. PendingIsNext(t)
      BY <1>1 DEF TxInv
    <3>4. ASSUME HasReversal(t)
          PROVE  LET s == SeriesOfEntry(entry[v])
                 IN  owner'[s] = t /\ reversal'[t] = ReversalEntry(entry[v], last'[s] + 1)
      <4> DEFINE s == SeriesOfEntry(entry[v])
      <4>1. s \in Series /\ s \in Row
        BY <1>3, <3>4, TxFacts DEF HasReversal
      <4>2. owner[s] = t /\ reversal[t] = ReversalEntry(entry[v], last[s] + 1)
        BY <3>3, <3>4 DEF PendingIsNext
      <4> QED
        BY <4>1, <4>2
    <3>5. ASSUME HasEntry(t)
          PROVE  LET s == SeriesOf[v][PostDate(t)]
                 IN  /\ owner'[s] = t
                     /\ posted'[t] = OriginalEntry(v, PostDate(t), SeenLast(t, s)' + 1)
      <4> DEFINE s == SeriesOf[v][PostDate(t)]
      <4>1. s \in Series /\ s \in Row
        BY <1>3, TxFacts
      <4>2. owner[s] = t /\ posted[t] = OriginalEntry(v, PostDate(t), SeenLast(t, s) + 1)
        BY <3>3, <3>5 DEF PendingIsNext
      <4>3. SeenLast(t, s)' = SeenLast(t, s)
        BY <2>1, <4>1, <4>2 DEF SeenLast, SeriesOfEntry
      <4> QED
        BY <4>1, <4>2, <4>3
    <3> QED
      BY <2>1, <3>1, <3>2, <3>3, <3>4, <3>5 DEF PendingIsNext, SeriesOfEntry, SeenLast
  <2> QED
    BY <2>2, <2>3, <2>4 DEF TxInv
<1> QED
  BY <1>2, <1>3

(* An idle transaction has nothing to keep.                                 *)
LEMMA IdleTxInv ==
  ASSUME TypeOK, NEW t \in Tx, End(t)
  PROVE  TxInv(t)'
BY DEF End, TypeOK, TxInv, VoucherHeld, PeriodHeld, PendingIsNext, PastLock, ReversePeriodHeld,
       PostPeriodHeld, HasReversal, HasEntry, Correcting, PostsEntry

-----------------------------------------------------------------------------
(* A step of t inside its transaction: the committed state does not change. *)
TxTypes ==
  /\ pc \in [Tx -> Step]
  /\ job \in [Tx -> Job \cup {NoJob}]
  /\ reversal \in [Tx -> Reversal \cup {NoEntry}]
  /\ posted \in [Tx -> Original \cup {NoEntry}]
  /\ owner \in [Row -> Tx \cup {NoTx}]

OthersKeep(t) ==
  \A u \in Tx \ {t} :
    /\ pc'[u] = pc[u] /\ job'[u] = job[u]
    /\ reversal'[u] = reversal[u] /\ posted'[u] = posted[u]
    /\ \A r \in Row : owner[r] = u => owner'[r] = u

LEMMA InnerStep ==
  ASSUME IInv, NEW t \in Tx, UNCHANGED <<bookVars, voucherVars>>,
         TxTypes', OthersKeep(t), TxInv(t)'
  PROVE  IInv'
<1>1. TypeOK'
  BY DEF IInv, TypeOK, BookTypeOK, TxTypes, bookVars, voucherVars
<1>2. BookInv'
  BY StepKeepsInv DEF IInv
<1>3. LedgerMatchesVouchers'
  BY DEF IInv, LedgerMatchesVouchers, LiveEntries, IsReversed, bookVars, voucherVars
<1>4. \A u \in Tx \ {t} : TxInv(u)'
  <2> TAKE u \in Tx \ {t}
  <2>1. Undisturbed(u)
    BY DEF Undisturbed, OthersKeep, bookVars, voucherVars
  <2> QED
    BY <2>1, UndisturbedKeepsTxInv
<1> QED
  BY <1>1, <1>2, <1>3, <1>4 DEF IInv, TransactionInv

LEMMA OldTxTypes == TypeOK => TxTypes
BY DEF TypeOK, TxTypes

LEMMA BeginKeepsIInv ==
  ASSUME IInv, NEW t \in Tx, NEW v \in Voucher, NEW p \in Period \cup {NoPeriod},
         \/ \E o \in {"post", "cancel", "repost"} : Begin(t, o, v, p)
         \/ BeginDelete(t, v)
  PROVE  IInv'
<1>1. UNCHANGED <<bookVars, voucherVars, reversal, posted, owner>>
  BY DEF Begin, BeginDelete
<1>2. pc[t] = "idle" /\ reversal[t] = NoEntry /\ posted[t] = NoEntry
  BY DEF Begin, BeginDelete, IInv, TransactionInv, TxInv, PendingIsNext, HasReversal, HasEntry
<1>3. PICK o \in {"post", "cancel", "repost", "delete"}, q \in Period \cup {NoPeriod} :
        /\ job' = [job EXCEPT ![t] = [op |-> o, voucher |-> v, to |-> q]]
        /\ pc' = [pc EXCEPT ![t] = IF o = "delete" THEN "delete" ELSE "lockVoucher"]
        /\ o = "repost" <=> q # NoPeriod
  BY DEF Begin, BeginDelete
<1>4. [op |-> o, voucher |-> v, to |-> q] \in Job
  BY <1>3 DEF Job
<1>5. TxTypes
  BY OldTxTypes DEF IInv
<1>6. TxTypes'
  BY <1>1, <1>3, <1>4, <1>5 DEF TxTypes, Step
<1>7. OthersKeep(t)
  BY <1>1, <1>3, <1>5 DEF OthersKeep, TxTypes
<1>8. job'[t] = [op |-> o, voucher |-> v, to |-> q]
      /\ pc'[t] = IF o = "delete" THEN "delete" ELSE "lockVoucher"
  BY <1>3, <1>5 DEF TxTypes
<1>9. TxInv(t)'
  BY <1>1, <1>2, <1>4, <1>8 DEF TxInv, VoucherHeld, PeriodHeld, PendingIsNext, PastLock,
     ReversePeriodHeld, PostPeriodHeld, HasReversal, HasEntry
<1> QED
  BY <1>1, <1>6, <1>7, <1>9, InnerStep

LEMMA RollbackKeepsIInv ==
  ASSUME IInv, NEW t \in Tx, Rollback(t)
  PROVE  IInv'
<1>1. TxTypes' /\ OthersKeep(t)
  <2>1. TxTypes
    BY OldTxTypes DEF IInv
  <2>2. owner' \in [Row -> Tx \cup {NoTx}] /\ \A q \in Row, u \in Tx \ {t} : owner[q] = u => owner'[q] = u
    BY ReleaseEffect DEF Rollback, End, IInv
  <2> QED
    BY <2>1, <2>2 DEF Rollback, End, TxTypes, OthersKeep, Step
<1>2. TxInv(t)'
  BY IdleTxInv DEF Rollback, IInv
<1> QED
  BY <1>1, <1>2, InnerStep DEF Rollback

LEMMA LockVoucherKeepsIInv ==
  ASSUME IInv, NEW t \in Tx, LockVoucher(t)
  PROVE  IInv'
<1>1. TxInv(t) /\ TxTypes
  BY OldTxTypes DEF IInv, TransactionInv
<1>2. pc[t] = "lockVoucher" /\ job[t] \in Job /\ Vch(t) \in Voucher /\ Vch(t) \in Row
  BY <1>1, JobFacts DEF LockVoucher, TxInv, VoucherHeld, Vch, Row
<1>3. /\ owner' \in [Row -> Tx \cup {NoTx}] /\ owner'[Vch(t)] = t
      /\ \A q \in Row, u \in Tx : owner[q] = u => owner'[q] = u
  BY <1>2, LockEffect DEF LockVoucher, IInv
<1>4. TxTypes' /\ OthersKeep(t)
  BY <1>1, <1>3 DEF LockVoucher, TxTypes, OthersKeep, Step
<1>5. pc'[t] = IF job[t].op = "post" THEN "postPeriod" ELSE "checkReversed"
  BY <1>1 DEF LockVoucher, TxTypes
<1>6. UNCHANGED <<bookVars, voucherVars, job, reversal, posted>>
  BY DEF LockVoucher
<1>7. job[t].op \in {"post", "cancel", "repost"}
  BY <1>1, <1>2, JobFacts DEF TxInv, VoucherHeld
<1>8. VoucherHeld(t)'
  BY <1>2, <1>3, <1>5, <1>6, <1>7 DEF LockVoucher, VoucherHeld, PastLock, Correcting, PostsEntry,
     Eligible, Vch, voucherVars
<1>9. PeriodHeld(t)' /\ PendingIsNext(t)'
  BY <1>1, <1>2, <1>5, <1>6 DEF TxInv, PeriodHeld, PendingIsNext, ReversePeriodHeld, PostPeriodHeld,
     HasReversal, HasEntry, Correcting, PostsEntry
<1> QED
  BY <1>4, <1>6, <1>8, <1>9, InnerStep DEF TxInv

LEMMA CheckReversedKeepsIInv ==
  ASSUME IInv, NEW t \in Tx, CheckReversed(t)
  PROVE  IInv'
<1>1. TxInv(t) /\ TxTypes
  BY OldTxTypes DEF IInv, TransactionInv
<1>2. pc'[t] = "reversePeriod" /\ UNCHANGED <<bookVars, voucherVars, job, reversal, posted, owner>>
  BY <1>1 DEF CheckReversed, TxTypes
<1>3. TxTypes' /\ OthersKeep(t)
  BY <1>1, <1>2 DEF CheckReversed, TxTypes, OthersKeep, Step
<1>4. TxInv(t)'
  BY <1>1, <1>2 DEF CheckReversed, TxInv, VoucherHeld, PeriodHeld, PendingIsNext, PastLock,
     ReversePeriodHeld, PostPeriodHeld, HasReversal, HasEntry, Correcting, PostsEntry, Eligible,
     Vch, voucherVars
<1> QED
  BY <1>2, <1>3, <1>4, InnerStep

LEMMA LockPeriodKeepsIInv ==
  ASSUME IInv, NEW t \in Tx, LockPeriod(t)
  PROVE  IInv'
<1> DEFINE p == WantedRow(t)
<1>1. TxInv(t) /\ TxTypes /\ PastLock(t) /\ VoucherHeld(t)
  BY OldTxTypes DEF IInv, TransactionInv, LockPeriod, PastLock, TxInv
<1>2. /\ pc[t] = "reversePeriod" => Correcting(t) /\ p = entry[Vch(t)].period
      /\ pc[t] = "postPeriod" => PostsEntry(t) /\ p = PostDate(t)
  BY <1>1 DEF VoucherHeld, WantedRow
<1>3. p \in Period /\ p \in Row
  BY <1>1, <1>2, TxFacts DEF LockPeriod
<1>4. /\ owner' \in [Row -> Tx \cup {NoTx}] /\ owner'[p] = t
      /\ \A q \in Row, u \in Tx : owner[q] = u => owner'[q] = u
  BY <1>3, LockEffect DEF LockPeriod, IInv
<1>5. pc'[t] = IF pc[t] = "reversePeriod" THEN "reverseNumber" ELSE "postNumber"
  BY <1>1 DEF LockPeriod, TxTypes
<1>6. UNCHANGED <<bookVars, voucherVars, job, reversal, posted>> /\ period[p] = "OPEN"
      /\ pc[t] \in {"reversePeriod", "postPeriod"}
  BY DEF LockPeriod
<1>7. TxTypes' /\ OthersKeep(t)
  BY <1>1, <1>4 DEF LockPeriod, TxTypes, OthersKeep, Step
<1> HIDE DEF p
<1>8. UNCHANGED <<period, last, status, entry, date>>
  BY <1>6 DEF bookVars, voucherVars
<1>9. VoucherHeld(t)'
  BY <1>1, <1>2, <1>4, <1>5, <1>6, <1>8, TxFacts DEF VoucherHeld, PastLock, Correcting, PostsEntry,
     Eligible, Vch
<1>10. PeriodHeld(t)'
  <2>1. CASE pc[t] = "reversePeriod"
    BY <2>1, <1>2, <1>4, <1>5, <1>6, <1>8 DEF PeriodHeld, ReversePeriodHeld, PostPeriodHeld, Vch
  <2>2. CASE pc[t] = "postPeriod"
    <3>1. ReversePeriodHeld(t)' => ReversePeriodHeld(t)
      BY <2>2, <1>5, <1>6 DEF ReversePeriodHeld, Correcting
    <3>2. ReversePeriodHeld(t)' => owner'[entry[Vch(t)].period] = t /\ period[entry[Vch(t)].period] = "OPEN"
      BY <3>1, <2>2, <1>1, <1>4, TxFacts DEF TxInv, PeriodHeld, ReversePeriodHeld
    <3>3. PostDate(t)' = PostDate(t) /\ Vch(t)' = Vch(t)
      BY <1>6, <1>8 DEF PostDate, Vch
    <3> QED
      BY <2>2, <3>2, <3>3, <1>2, <1>4, <1>6, <1>8 DEF PeriodHeld
  <2> QED
    BY <2>1, <2>2, <1>6
<1>11. PendingIsNext(t)'
  <2>1. HasReversal(t)' <=> HasReversal(t)
    BY <1>2, <1>5, <1>6 DEF HasReversal, Correcting
  <2>2. ~HasEntry(t)' /\ ~HasEntry(t)
    BY <1>5, <1>6 DEF HasEntry
  <2>3. HasReversal(t) => SeriesOfEntry(entry[Vch(t)]) \in Row
    BY <1>1, TxFacts DEF HasReversal
  <2>4. Vch(t)' = Vch(t)
    BY <1>6 DEF Vch
  <2> QED
    BY <2>1, <2>2, <2>3, <2>4, <1>1, <1>4, <1>6, <1>8 DEF TxInv, PendingIsNext, SeriesOfEntry
<1> QED
  BY <1>6, <1>7, <1>9, <1>10, <1>11, InnerStep DEF TxInv

LEMMA WriteReversalKeepsIInv ==
  ASSUME IInv, NEW t \in Tx, WriteReversal(t)
  PROVE  IInv'
<1> DEFINE e == entry[Vch(t)]
           s == SeriesOfEntry(e)
           x == ReversalEntry(e, last[s] + 1)
<1>1. TxInv(t) /\ TxTypes /\ PastLock(t) /\ VoucherHeld(t) /\ Correcting(t) /\ pc[t] = "reverseNumber"
  BY OldTxTypes DEF IInv, TransactionInv, WriteReversal, PastLock, TxInv, VoucherHeld
<1>2. /\ e \in Original /\ e.period \in Row /\ s \in Row /\ s \in Series
      /\ owner[e.period] = t /\ period[e.period] = "OPEN"
  BY <1>1, TxFacts DEF TxInv, PeriodHeld, ReversePeriodHeld
<1>3. reversal[t] = NoEntry /\ posted[t] = NoEntry
  BY <1>1 DEF TxInv, PendingIsNext, HasReversal, HasEntry
<1>4. SeenLast(t, s) = last[s]
  BY <1>3 DEF SeenLast
<1>5. last[s] \in Nat
  BY <1>2 DEF IInv, TypeOK, BookTypeOK
<1>6. x \in Reversal
  BY <1>2, <1>5 DEF ReversalEntry, Reversal, Original, Positive
<1>7. /\ owner' \in [Row -> Tx \cup {NoTx}] /\ owner'[s] = t
      /\ \A q \in Row, u \in Tx : owner[q] = u => owner'[q] = u
  BY <1>2, LockEffect DEF WriteReversal, IInv
<1>8. /\ UNCHANGED <<bookVars, voucherVars, job, posted>>
      /\ reversal' = [reversal EXCEPT ![t] = x]
      /\ pc' = [pc EXCEPT ![t] = IF job[t].op = "repost" THEN "postPeriod" ELSE "stamp"]
  BY <1>4 DEF WriteReversal
<1> HIDE DEF x, s, e
<1>9. TxTypes' /\ OthersKeep(t)
  BY <1>1, <1>6, <1>7, <1>8 DEF TxTypes, OthersKeep, Step
<1>10. reversal'[t] = x /\ pc'[t] = IF job[t].op = "repost" THEN "postPeriod" ELSE "stamp"
  BY <1>1, <1>8 DEF TxTypes
<1>11. UNCHANGED <<period, last, status, entry, date, job, posted>>
  BY <1>8 DEF bookVars, voucherVars
<1>12. owner'[Vch(t)] = t /\ Vch(t)' = Vch(t)
  BY <1>1, <1>7, <1>11, TxFacts DEF Vch
<1>13. VoucherHeld(t)'
  BY <1>1, <1>10, <1>11, <1>12, TxFacts DEF VoucherHeld, PastLock, Correcting, PostsEntry,
     Eligible
<1>14. PeriodHeld(t)'
  BY <1>1, <1>2, <1>7, <1>10, <1>11, <1>12 DEF PeriodHeld, ReversePeriodHeld, PostPeriodHeld,
     Correcting, PostsEntry, e
<1>15. PendingIsNext(t)'
  <2>1. HasReversal(t)' /\ ~HasEntry(t)'
    BY <1>1, <1>10, <1>11 DEF HasReversal, HasEntry, Correcting, PostsEntry
  <2> QED
    BY <2>1, <1>3, <1>7, <1>10, <1>11, <1>12 DEF PendingIsNext, e, s, x, SeriesOfEntry
<1> QED
  BY <1>8, <1>9, <1>13, <1>14, <1>15, InnerStep DEF TxInv

LEMMA WriteEntryKeepsIInv ==
  ASSUME IInv, NEW t \in Tx, WriteEntry(t)
  PROVE  IInv'
<1> DEFINE v == Vch(t)
           p == PostDate(t)
           s == SeriesOf[v][p]
           x == OriginalEntry(v, p, SeenLast(t, s) + 1)
<1>1. TxInv(t) /\ TxTypes /\ PastLock(t) /\ VoucherHeld(t) /\ PostsEntry(t) /\ pc[t] = "postNumber"
  BY OldTxTypes DEF IInv, TransactionInv, WriteEntry, PastLock, TxInv, VoucherHeld
<1>2. /\ v \in Voucher /\ p \in Period /\ s \in Series /\ s \in Row /\ p \in Row
      /\ owner[p] = t /\ period[p] = "OPEN"
  BY <1>1, TxFacts DEF TxInv, PeriodHeld, PostPeriodHeld
<1>3. posted[t] = NoEntry
  BY <1>1 DEF TxInv, PendingIsNext, HasEntry
<1>4. SeenLast(t, s) \in Nat
  <2>1. last[s] \in Nat
    BY <1>2 DEF IInv, TypeOK, BookTypeOK
  <2>2. reversal[t] # NoEntry => reversal[t].seq \in Nat
    BY <1>1 DEF TxTypes, Reversal, Positive
  <2> QED
    BY <2>1, <2>2 DEF SeenLast
<1>5. x \in Original
  BY <1>2, <1>4 DEF OriginalEntry, Original, Positive
<1>6. /\ owner' \in [Row -> Tx \cup {NoTx}] /\ owner'[s] = t
      /\ \A q \in Row, u \in Tx : owner[q] = u => owner'[q] = u
  BY <1>2, LockEffect DEF WriteEntry, IInv
<1>7. /\ UNCHANGED <<bookVars, voucherVars, job, reversal>>
      /\ posted' = [posted EXCEPT ![t] = x]
      /\ pc' = [pc EXCEPT ![t] = "stamp"]
  BY DEF WriteEntry
<1> HIDE DEF x, s, p, v
<1>8. TxTypes' /\ OthersKeep(t)
  BY <1>1, <1>5, <1>6, <1>7 DEF TxTypes, OthersKeep, Step
<1>9. posted'[t] = x /\ pc'[t] = "stamp"
  BY <1>1, <1>7 DEF TxTypes
<1>10. UNCHANGED <<period, last, status, entry, date, job, reversal>>
  BY <1>7 DEF bookVars, voucherVars
<1>11. owner'[v] = t /\ Vch(t)' = v /\ PostDate(t)' = p /\ (Correcting(t)' <=> Correcting(t))
       /\ (PostsEntry(t)' <=> PostsEntry(t))
  BY <1>1, <1>6, <1>10, TxFacts DEF Vch, PostDate, Correcting, PostsEntry, v, p
<1>12. VoucherHeld(t)'
  BY <1>1, <1>9, <1>10, <1>11, TxFacts DEF VoucherHeld, PastLock, Eligible, v
<1>13. PeriodHeld(t)'
  <2>1. ReversePeriodHeld(t)' => ReversePeriodHeld(t)
    BY <1>1, <1>9, <1>11 DEF ReversePeriodHeld
  <2>2. ReversePeriodHeld(t)' => owner'[entry[v].period] = t /\ period[entry[v].period] = "OPEN"
    BY <2>1, <1>1, <1>6, <1>9, <1>11, TxFacts DEF TxInv, PeriodHeld, ReversePeriodHeld, v
  <2> QED
    BY <2>2, <1>2, <1>6, <1>10, <1>11 DEF PeriodHeld
<1>14. PendingIsNext(t)'
  <2>1. HasEntry(t)' /\ (HasReversal(t)' <=> HasReversal(t))
    BY <1>1, <1>9, <1>11 DEF HasEntry, HasReversal
  <2>2. HasReversal(t) => SeriesOfEntry(entry[v]) \in Row
    BY <1>1, TxFacts DEF HasReversal, v
  <2>3. PendingIsNext(t)
    BY <1>1 DEF TxInv
  <2>4. v' = v /\ p' = p /\ s' = s
    BY <1>11 DEF v, p, s
  <2>5. SeenLast(t, s)' = SeenLast(t, s)
    BY <2>4, <1>10 DEF SeenLast, SeriesOfEntry
  <2>6. HasReversal(t)' => LET q == SeriesOfEntry(entry'[v])
                           IN  owner'[q] = t /\ reversal'[t] = ReversalEntry(entry'[v], last'[q] + 1)
    BY <2>1, <2>2, <2>3, <1>6, <1>10 DEF PendingIsNext, v
  <2> QED
    BY <2>1, <2>3, <2>4, <2>5, <2>6, <1>3, <1>6, <1>9, <1>10, <1>11
       DEF PendingIsNext, x, SeriesOfEntry, s, v, p
<1> QED
  BY <1>7, <1>8, <1>12, <1>13, <1>14, InnerStep DEF TxInv

-----------------------------------------------------------------------------
(* The steps that change the committed state.                               *)
LEMMA DraftKeepsIInv ==
  ASSUME IInv, NEW v \in Voucher, NEW p \in Period, CreateDraft(v, p) \/ UpdateDraft(v, p)
  PROVE  IInv'
<1>1. UNCHANGED <<bookVars, txVars, entry>> /\ status[v] \in {"NONE", "DRAFT"}
      /\ date' = [date EXCEPT ![v] = p] /\ status' = [status EXCEPT ![v] = "DRAFT"]
  BY DEF CreateDraft, UpdateDraft, IInv, TypeOK
<1>2. TypeOK'
  BY <1>1 DEF IInv, TypeOK, BookTypeOK, bookVars, txVars
<1>3. BookInv'
  BY <1>1, StepKeepsInv DEF IInv
<1>4. LedgerMatchesVouchers'
  BY <1>1 DEF IInv, TypeOK, LedgerMatchesVouchers, LiveEntries, IsReversed, bookVars
<1>5. ASSUME NEW t \in Tx
      PROVE  TxInv(t)'
  <2>1. ASSUME PastLock(t)
        PROVE  Vch(t) # v
    <3>1. owner[Vch(t)] = t /\ status[Vch(t)] \in {"DRAFT", "POSTED"}
      BY <2>1, TxFacts DEF Correcting
    <3> QED
      BY <3>1, TxValues DEF CreateDraft, UpdateDraft
  <2>2. Undisturbed(t)
    BY <1>1, <2>1, TxFacts DEF Undisturbed, bookVars, txVars, IInv, TypeOK
  <2> QED
    BY <2>2, UndisturbedKeepsTxInv
<1> QED
  BY <1>2, <1>3, <1>4, <1>5 DEF IInv, TransactionInv

LEMMA PeriodKeepsIInv ==
  ASSUME IInv, NEW p \in Period, ClosePeriod(p) \/ ReopenPeriod(p)
  PROVE  IInv' /\ BookNext
<1>1. /\ UNCHANGED <<ledger, last, status, date, entry, txVars>> /\ owner[p] = NoTx
      /\ \E st \in {"OPEN", "CLOSED"} : SetStatus(p, st) /\ period' = [period EXCEPT ![p] = st]
  BY DEF ClosePeriod, ReopenPeriod, SetStatus, voucherVars
<1>2. BookNext
  BY <1>1 DEF BookNext
<1>3. BookInv'
  BY <1>2, StepKeepsInv DEF IInv
<1>4. TypeOK'
  BY <1>1 DEF IInv, TypeOK, BookTypeOK, txVars
<1>5. LedgerMatchesVouchers'
  BY <1>1 DEF IInv, LedgerMatchesVouchers, LiveEntries, IsReversed
<1>6. ASSUME NEW t \in Tx
      PROVE  TxInv(t)'
  <2>1. Undisturbed(t)
    BY <1>1, TxValues DEF Undisturbed, txVars, IInv, TypeOK, BookTypeOK
  <2> QED
    BY <2>1, UndisturbedKeepsTxInv
<1> QED
  BY <1>2, <1>3, <1>4, <1>5, <1>6 DEF IInv, TransactionInv

LEMMA DeleteKeepsIInv ==
  ASSUME IInv, NEW t \in Tx, Delete(t)
  PROVE  IInv'
<1> DEFINE v == Vch(t)
<1>1. v \in Voucher /\ v \in Row
  BY JobFacts DEF Delete, IInv, TransactionInv, TxInv, VoucherHeld, Vch, Row
<1>2. UNCHANGED <<bookVars, date, entry>> /\ End(t) /\ status' = [status EXCEPT ![v] = "DELETED"]
      /\ owner[v] \in {t, NoTx}
  BY DEF Delete, Free, Lockable
<1> HIDE DEF v
<1>3. /\ owner' \in [Row -> Tx \cup {NoTx}]
      /\ \A q \in Row, u \in Tx \ {t} : owner[q] = u => owner'[q] = u
  BY <1>2, ReleaseEffect DEF End, IInv
<1>4. TypeOK'
  BY <1>1, <1>2, <1>3 DEF IInv, TypeOK, BookTypeOK, End, Step, bookVars
<1>5. BookInv'
  BY <1>2, StepKeepsInv DEF IInv
<1>6. LedgerMatchesVouchers'
  BY <1>1, <1>2 DEF IInv, TypeOK, LedgerMatchesVouchers, LiveEntries, IsReversed, bookVars
<1>7. ASSUME NEW u \in Tx \ {t}
      PROVE  TxInv(u)'
  <2>1. PastLock(u) => Vch(u) # v
    BY <1>2, TxFacts, TxValues
  <2>2. Undisturbed(u)
    BY <1>1, <1>2, <1>3, <2>1, TxFacts DEF Undisturbed, bookVars, End, IInv, TypeOK
  <2> QED
    BY <2>2, UndisturbedKeepsTxInv
<1>8. TxInv(t)'
  BY <1>2, IdleTxInv DEF IInv
<1> QED
  BY <1>4, <1>5, <1>6, <1>7, <1>8 DEF IInv, TransactionInv

-----------------------------------------------------------------------------
(* A commit is a step of the books, and what it leaves live.                *)
LEMMA LiveInBook == \A w : LiveEntries(w) = Live(ledger, w)
BY DEF LiveEntries, Live, IsReversed

LEMMA InvBookOK == IInv => BookOK(ledger, last) /\ last \in [Series -> Nat] /\ ledger \subseteq Entry
BY InvIsBookOK DEF IInv, BookInv, BookTypeOK

LEMMA CommitPost ==
  ASSUME IInv, NEW t \in Tx, Commit(t), job[t].op = "post"
  PROVE  /\ PostEntry(Vch(t), PostDate(t))
         /\ posted[t] \in Original
         /\ OnlyLive(ledger, ledger', Vch(t), {posted[t]})
<1> DEFINE v == Vch(t)
           p == PostDate(t)
           s == SeriesOf[v][p]
           x == OriginalEntry(v, p, last[s] + 1)
<1>1. TxInv(t) /\ PastLock(t) /\ pc[t] = "stamp" /\ HasEntry(t) /\ ~HasReversal(t)
  BY DEF Commit, PastLock, IInv, TransactionInv, HasEntry, HasReversal, Correcting, PostsEntry
<1>2. /\ v \in Voucher /\ p \in Period /\ s \in Series /\ LiveEntries(v) = {}
      /\ period[p] = "OPEN"
  BY <1>1, TxFacts DEF TxInv, PeriodHeld, PostPeriodHeld, HasEntry
<1>3. reversal[t] = NoEntry
  BY <1>1 DEF TxInv, PendingIsNext
<1>4. \A q : SeenLast(t, q) = last[q]
  BY <1>3 DEF SeenLast
<1>5. posted[t] = x
  BY <1>1, <1>4 DEF TxInv, PendingIsNext
<1>6. last[s] \in Nat /\ last \in [Series -> Nat]
  BY <1>2, InvBookOK
<1>7. x \in Original /\ x \in Entry /\ x.seq = last[s] + 1 /\ SeriesOfEntry(x) = s
  BY <1>2, <1>6, NewOriginal
<1>8. x # NoEntry
  BY <1>7, NoEntryIsNone
<1> HIDE DEF x, s, p, v
<1>9. ledger' = ledger \cup {x}
  BY <1>3, <1>5, <1>8 DEF Commit, Written
<1>10. last' = [last EXCEPT ![s] = @ + 1]
  <2>1. last' = [q \in Series |-> IF SeriesOfEntry(x) = q THEN x.seq ELSE last[q]]
    BY <1>4, <1>5, <1>8 DEF Commit
  <2> QED
    BY <2>1, <1>2, <1>6, <1>7
<1>11. period' = period
  BY DEF Commit
<1>12. PostEntry(v, p)
  BY <1>2, <1>9, <1>10, <1>11 DEF PostEntry, s, x
<1>13. OnlyLive(ledger, ledger', v, {x})
  <2>1. BookOK(ledger, last) /\ Live(ledger, v) = {}
    BY <1>2, InvBookOK, LiveInBook
  <2>2. OnlyLive(ledger, ledger \cup {x}, v, {x})
    BY <2>1, <1>2, AppendOriginal DEF x, s
  <2> QED
    BY <2>2, <1>9
<1> QED
  BY <1>5, <1>7, <1>12, <1>13 DEF v, p

LEMMA CommitCancel ==
  ASSUME IInv, NEW t \in Tx, Commit(t), job[t].op = "cancel"
  PROVE  /\ ReverseEntry(Vch(t), entry[Vch(t)])
         /\ OnlyLive(ledger, ledger', Vch(t), {})
<1> DEFINE v == Vch(t)
           e == entry[v]
           s == SeriesOfEntry(e)
           x == ReversalEntry(e, last[s] + 1)
<1>1. TxInv(t) /\ PastLock(t) /\ Correcting(t) /\ HasReversal(t) /\ ~HasEntry(t)
  BY DEF Commit, PastLock, IInv, TransactionInv, HasEntry, HasReversal, Correcting, PostsEntry
<1>2. /\ v \in Voucher /\ e \in LiveEntries(v) /\ e \in Original /\ s \in Series
      /\ period[e.period] = "OPEN"
  BY <1>1, TxFacts DEF TxInv, PeriodHeld, ReversePeriodHeld, HasReversal
<1>3. posted[t] = NoEntry /\ reversal[t] = x
  BY <1>1 DEF TxInv, PendingIsNext
<1>4. last[s] \in Nat /\ last \in [Series -> Nat]
  BY <1>2, InvBookOK
<1>5. x \in Entry /\ x.seq = last[s] + 1 /\ SeriesOfEntry(x) = s
  BY <1>2, <1>4, NewReversal
<1>6. x # NoEntry
  BY <1>5, NoEntryIsNone
<1> HIDE DEF x, s, e, v
<1>7. ledger' = ledger \cup {x}
  BY <1>3, <1>6 DEF Commit, Written
<1>8. last' = [last EXCEPT ![s] = @ + 1]
  <2>1. last' = [q \in Series |-> IF SeriesOfEntry(x) = q THEN x.seq ELSE last[q]]
    BY <1>3, <1>6 DEF Commit, SeenLast
  <2> QED
    BY <2>1, <1>2, <1>4, <1>5
<1>9. ReverseEntry(v, e)
  BY <1>2, <1>7, <1>8 DEF ReverseEntry, s, x, Commit
<1>10. OnlyLive(ledger, ledger', v, {})
  <2>1. BookOK(ledger, last) /\ e \in Live(ledger, v)
    BY <1>2, InvBookOK, LiveInBook
  <2>2. OnlyLive(ledger, ledger \cup {x}, v, {})
    BY <2>1, <1>2, AppendReversal DEF x, s
  <2> QED
    BY <2>2, <1>7
<1> QED
  BY <1>9, <1>10 DEF v, e

LEMMA CommitRepost ==
  ASSUME IInv, NEW t \in Tx, Commit(t), job[t].op = "repost"
  PROVE  /\ RepostEntry(Vch(t), entry[Vch(t)], PostDate(t))
         /\ posted[t] \in Original
         /\ OnlyLive(ledger, ledger', Vch(t), {posted[t]})
<1> DEFINE v == Vch(t)
           p == PostDate(t)
           e == entry[v]
           s1 == SeriesOfEntry(e)
           s2 == SeriesOf[v][p]
           r == ReversalEntry(e, last[s1] + 1)
           mid == [last EXCEPT ![s1] = @ + 1]
           x == OriginalEntry(v, p, mid[s2] + 1)
<1>1. TxInv(t) /\ PastLock(t) /\ Correcting(t) /\ HasReversal(t) /\ HasEntry(t)
  BY DEF Commit, PastLock, IInv, TransactionInv, HasEntry, HasReversal, Correcting, PostsEntry
<1>2. /\ v \in Voucher /\ e \in LiveEntries(v) /\ e \in Original /\ s1 \in Series
      /\ p \in Period /\ s2 \in Series
      /\ period[e.period] = "OPEN" /\ period[p] = "OPEN"
  BY <1>1, TxFacts DEF TxInv, PeriodHeld, ReversePeriodHeld, PostPeriodHeld, HasReversal, HasEntry
<1>3. last \in [Series -> Nat] /\ last[s1] \in Nat /\ mid \in [Series -> Nat] /\ mid[s2] \in Nat
  BY <1>2, InvBookOK
<1>4. reversal[t] = r
  BY <1>1 DEF TxInv, PendingIsNext
<1>5. r \in Entry /\ r.seq = last[s1] + 1 /\ SeriesOfEntry(r) = s1
  BY <1>2, <1>3, NewReversal
<1>6. r # NoEntry
  BY <1>5, NoEntryIsNone
<1>7. \A q \in Series : SeenLast(t, q) = mid[q]
  BY <1>2, <1>3, <1>4, <1>5, <1>6 DEF SeenLast
<1>8. posted[t] = x
  BY <1>1, <1>2, <1>7 DEF TxInv, PendingIsNext
<1>9. x \in Original /\ x \in Entry /\ x.seq = mid[s2] + 1 /\ SeriesOfEntry(x) = s2
  BY <1>2, <1>3, NewOriginal
<1>10. x # NoEntry
  BY <1>9, NoEntryIsNone
<1> HIDE DEF x, mid, r, s1, s2, e, p, v
<1>11. ledger' = ledger \cup {r, x}
  BY <1>4, <1>6, <1>8, <1>10 DEF Commit, Written
<1>12. last' = [mid EXCEPT ![s2] = @ + 1]
  <2>1. last' = [q \in Series |-> IF SeriesOfEntry(x) = q THEN x.seq ELSE SeenLast(t, q)]
    BY <1>8, <1>10 DEF Commit
  <2> QED
    BY <2>1, <1>2, <1>3, <1>7, <1>9
<1>13. period' = period
  BY DEF Commit
<1>14. RepostEntry(v, e, p)
  BY <1>2, <1>11, <1>12, <1>13 DEF RepostEntry, s1, s2, r, x, mid
<1>15. OnlyLive(ledger, ledger', v, {x})
  <2> DEFINE L == ledger \cup {r}
  <2>1. BookOK(ledger, last) /\ e \in Live(ledger, v)
    BY <1>2, InvBookOK, LiveInBook
  <2>2. BookOK(L, mid) /\ OnlyLive(ledger, L, v, {})
    BY <2>1, <1>2, AppendReversal DEF r, s1, mid
  <2>3. ledger' = L \cup {x}
    BY <1>11
  <2> HIDE DEF L
  <2>4. OnlyLive(L, L \cup {x}, v, {x})
    <3>1. BookOK(L, mid) /\ Live(L, v) = {}
      BY <2>2 DEF OnlyLive
    <3> QED
      BY <3>1, <1>2, AppendOriginal DEF x, s2
  <2> QED
    BY <2>2, <2>3, <2>4 DEF OnlyLive
<1> QED
  BY <1>8, <1>9, <1>14, <1>15 DEF v, e, p

LEMMA CommitKeepsIInv ==
  ASSUME IInv, NEW t \in Tx, Commit(t)
  PROVE  IInv' /\ BookNext
<1> DEFINE v == Vch(t)
           op == job[t].op
<1>1. TxInv(t) /\ PastLock(t)
  BY DEF Commit, PastLock, IInv, TransactionInv
<1>2. v \in Voucher /\ v \in Row /\ owner[v] = t /\ op \in {"post", "cancel", "repost"}
      /\ PostDate(t) \in Period
      /\ (Correcting(t) => entry[v] \in ledger /\ entry[v] \in Original)
  BY <1>1, TxFacts
<1>3. op = "cancel" => Correcting(t)
  BY DEF Correcting
<1>4. /\ op # "cancel" => posted[t] \in Original /\ OnlyLive(ledger, ledger', v, {posted[t]})
      /\ op = "cancel" => OnlyLive(ledger, ledger', v, {})
  BY <1>2, CommitPost, CommitCancel, CommitRepost
<1>5. BookNext
  <2>1. CASE op = "post"
    BY <2>1, <1>2, CommitPost DEF BookNext
  <2>2. CASE op = "cancel"
    BY <2>2, <1>2, <1>3, CommitCancel DEF BookNext
  <2>3. CASE op = "repost"
    BY <2>3, <1>2, CommitRepost DEF BookNext, Correcting
  <2> QED
    BY <2>1, <2>2, <2>3, <1>2
<1>6. BookInv'
  BY <1>5, StepKeepsInv DEF IInv
<1>7. /\ status' = [status EXCEPT ![v] = IF op = "cancel" THEN "CANCELLED" ELSE "POSTED"]
      /\ entry' = [entry EXCEPT ![v] = IF op = "cancel" THEN @ ELSE posted[t]]
      /\ date' = [date EXCEPT ![v] = IF op = "repost" THEN job[t].to ELSE @]
      /\ End(t) /\ period' = period
      /\ last' = [s \in Series |->
                    IF posted[t] # NoEntry /\ SeriesOfEntry(posted[t]) = s
                    THEN posted[t].seq ELSE SeenLast(t, s)]
  BY DEF Commit, Stamp
<1>8. op = "repost" => job[t].to \in Period
  BY <1>2 DEF PostDate
<1>9. /\ owner' \in [Row -> Tx \cup {NoTx}]
      /\ \A q \in Row, u \in Tx \ {t} : owner[q] = u => owner'[q] = u
  BY <1>7, ReleaseEffect DEF End, IInv
<1>10. TypeOK'
  <2>1. BookTypeOK'
    BY <1>6 DEF BookInv
  <2>2. /\ status' \in [Voucher -> {"NONE", "DRAFT", "POSTED", "CANCELLED", "DELETED"}]
        /\ date' \in [Voucher -> Period]
        /\ entry' \in [Voucher -> Original \cup {NoEntry}]
    BY <1>2, <1>4, <1>7, <1>8 DEF IInv, TypeOK
  <2>3. TxTypes'
    BY <1>7, <1>9 DEF IInv, TypeOK, TxTypes, End, Step
  <2> QED
    BY <2>1, <2>2, <2>3 DEF TypeOK, TxTypes
<1> HIDE DEF op, v
<1>11. LedgerMatchesVouchers'
  <2>1. \A w \in Voucher : status[w] # "DELETED" =>
           Live(ledger, w) = IF status[w] = "POSTED" THEN {entry[w]} ELSE {}
    BY LiveInBook DEF IInv, LedgerMatchesVouchers
  <2>2. ASSUME NEW w \in Voucher \ {v}, status'[w] # "DELETED"
        PROVE  Live(ledger', w) = IF status'[w] = "POSTED" THEN {entry'[w]} ELSE {}
    <3>1. status'[w] = status[w] /\ entry'[w] = entry[w]
      BY <1>7 DEF IInv, TypeOK
    <3>2. Live(ledger', w) = Live(ledger, w)
      BY <1>2, <1>4 DEF OnlyLive
    <3> QED
      BY <2>1, <2>2, <3>1, <3>2
  <2>3. Live(ledger', v) = IF status'[v] = "POSTED" THEN {entry'[v]} ELSE {}
    <3>1. CASE op = "cancel"
      BY <3>1, <1>2, <1>4, <1>7 DEF OnlyLive, IInv, TypeOK
    <3>2. CASE op # "cancel"
      BY <3>2, <1>2, <1>4, <1>7 DEF OnlyLive, IInv, TypeOK
    <3> QED
      BY <3>1, <3>2
  <2>4. \A w \in Voucher : status'[w] # "DELETED" =>
           Live(ledger', w) = IF status'[w] = "POSTED" THEN {entry'[w]} ELSE {}
    BY <2>2, <2>3
  <2> QED
    BY <2>4 DEF LedgerMatchesVouchers, LiveEntries, IsReversed, Live
<1>12. ASSUME NEW u \in Tx \ {t}
       PROVE  TxInv(u)'
  <2>1. PastLock(u) => Vch(u) # v
    BY <1>2, TxFacts
  <2>2. \A s \in Series : owner[s] = u => last'[s] = last[s]
    <3> SUFFICES ASSUME NEW s \in Series, owner[s] = u
                 PROVE  last'[s] = last[s]
      OBVIOUS
    <3>1. reversal[t] # NoEntry => SeriesOfEntry(reversal[t]) # s
      <4> SUFFICES ASSUME reversal[t] # NoEntry
                   PROVE  SeriesOfEntry(reversal[t]) # s
        OBVIOUS
      <4> DEFINE q == SeriesOfEntry(entry[Vch(t)])
      <4>1. HasReversal(t) /\ owner[q] = t /\ reversal[t] = ReversalEntry(entry[Vch(t)], last[q] + 1)
        BY <1>1 DEF TxInv, PendingIsNext
      <4>2. SeriesOfEntry(reversal[t]) = q
        BY <4>1 DEF SeriesOfEntry, ReversalEntry
      <4> QED
        BY <4>1, <4>2
    <3>2. posted[t] # NoEntry => SeriesOfEntry(posted[t]) # s
      <4> SUFFICES ASSUME posted[t] # NoEntry
                   PROVE  SeriesOfEntry(posted[t]) # s
        OBVIOUS
      <4> DEFINE q == SeriesOf[Vch(t)][PostDate(t)]
      <4>1. owner[q] = t /\ posted[t] = OriginalEntry(Vch(t), PostDate(t), SeenLast(t, q) + 1)
        BY <1>1 DEF TxInv, PendingIsNext
      <4>2. SeriesOfEntry(posted[t]) = q
        BY <4>1 DEF SeriesOfEntry, OriginalEntry
      <4> QED
        BY <4>1, <4>2
    <3> QED
      BY <1>7, <3>1, <3>2 DEF SeenLast
  <2>3. Undisturbed(u)
    BY <1>2, <1>7, <1>9, <2>1, <2>2, TxFacts DEF Undisturbed, End, IInv, TypeOK
  <2> QED
    BY <2>3, UndisturbedKeepsTxInv
<1>13. TxInv(t)'
  BY <1>7, IdleTxInv DEF IInv
<1> QED
  BY <1>5, <1>6, <1>10, <1>11, <1>12, <1>13 DEF IInv, TransactionInv

-----------------------------------------------------------------------------
LEMMA InitIInv == Init => IInv
<1> SUFFICES ASSUME Init
             PROVE  IInv
  OBVIOUS
<1>1. BookInv
  BY DEF Init, BookInit, BookInv, BookTypeOK, NumbersUnique, NumbersGapless, ReversedOnce,
         OneLiveEntry, LiveEntries
<1>2. TypeOK
  <2>1. ASSUME NEW v \in Voucher
        PROVE  date[v] \in Period
    <3>1. date[v] = CHOOSE p \in Period : TRUE
      BY <2>1 DEF Init
    <3>2. \E p \in Period : TRUE
      BY PeriodsExist
    <3> QED
      BY <3>1, <3>2
  <2>2. date \in [Voucher -> Period]
    BY <2>1 DEF Init
  <2> QED
    BY <1>1, <2>2 DEF Init, TypeOK, BookInv, Step
<1>3. TransactionInv
  BY DEF Init, TransactionInv, TxInv, VoucherHeld, PeriodHeld, PendingIsNext, PastLock,
     ReversePeriodHeld, PostPeriodHeld, HasReversal, HasEntry
<1>4. LedgerMatchesVouchers
  BY DEF Init, BookInit, LedgerMatchesVouchers, LiveEntries
<1> QED
  BY <1>1, <1>2, <1>3, <1>4 DEF IInv

(* One step: the invariant is kept, and the committed books move by one     *)
(* step of LedgerBook or not at all.                                        *)
LEMMA NextKeepsIInv == IInv /\ [Next]_vars => IInv' /\ [BookNext]_bookVars
<1> SUFFICES ASSUME IInv, [Next]_vars
             PROVE  IInv' /\ [BookNext]_bookVars
  OBVIOUS
<1>1. ASSUME NEW v \in Voucher, NEW p \in Period, CreateDraft(v, p) \/ UpdateDraft(v, p)
      PROVE  IInv' /\ [BookNext]_bookVars
  BY <1>1, DraftKeepsIInv DEF CreateDraft, UpdateDraft
<1>2. ASSUME NEW p \in Period, ClosePeriod(p) \/ ReopenPeriod(p)
      PROVE  IInv' /\ [BookNext]_bookVars
  BY <1>2, PeriodKeepsIInv
<1>3. ASSUME NEW t \in Tx, NEW v \in Voucher, NEW p \in Period \cup {NoPeriod},
             (\E o \in {"post", "cancel", "repost"} : Begin(t, o, v, p)) \/ BeginDelete(t, v)
      PROVE  IInv' /\ [BookNext]_bookVars
  BY <1>3, BeginKeepsIInv DEF Begin, BeginDelete
<1>4. ASSUME NEW t \in Tx, LockVoucher(t)
      PROVE  IInv' /\ [BookNext]_bookVars
  BY <1>4, LockVoucherKeepsIInv DEF LockVoucher
<1>5. ASSUME NEW t \in Tx, CheckReversed(t)
      PROVE  IInv' /\ [BookNext]_bookVars
  BY <1>5, CheckReversedKeepsIInv DEF CheckReversed
<1>6. ASSUME NEW t \in Tx, LockPeriod(t)
      PROVE  IInv' /\ [BookNext]_bookVars
  BY <1>6, LockPeriodKeepsIInv DEF LockPeriod
<1>7. ASSUME NEW t \in Tx, WriteReversal(t)
      PROVE  IInv' /\ [BookNext]_bookVars
  BY <1>7, WriteReversalKeepsIInv DEF WriteReversal
<1>8. ASSUME NEW t \in Tx, WriteEntry(t)
      PROVE  IInv' /\ [BookNext]_bookVars
  BY <1>8, WriteEntryKeepsIInv DEF WriteEntry
<1>9. ASSUME NEW t \in Tx, Commit(t)
      PROVE  IInv' /\ [BookNext]_bookVars
  BY <1>9, CommitKeepsIInv
<1>10. ASSUME NEW t \in Tx, Delete(t)
       PROVE  IInv' /\ [BookNext]_bookVars
  BY <1>10, DeleteKeepsIInv DEF Delete
<1>11. ASSUME NEW t \in Tx, Reject(t) \/ Fail(t) \/ DeadlockAbort(t)
       PROVE  IInv' /\ [BookNext]_bookVars
  BY <1>11, RollbackKeepsIInv DEF Reject, Fail, DeadlockAbort, Rollback
<1>12. CASE UNCHANGED vars
  <2>1. UNCHANGED <<bookVars, txVars, voucherVars>>
    BY <1>12 DEF vars, bookVars, txVars, voucherVars
  <2>2. TypeOK' /\ LedgerMatchesVouchers'
    BY <2>1 DEF IInv, TypeOK, BookTypeOK, LedgerMatchesVouchers, LiveEntries, IsReversed,
       bookVars, txVars, voucherVars
  <2>3. BookInv'
    BY <2>1, StepKeepsInv DEF IInv
  <2>4. ASSUME NEW t \in Tx PROVE TxInv(t)'
    <3>1. Undisturbed(t)
      BY <2>1 DEF Undisturbed, bookVars, txVars, voucherVars
    <3> QED
      BY <3>1, UndisturbedKeepsTxInv
  <2> QED
    BY <2>1, <2>2, <2>3, <2>4 DEF IInv, TransactionInv
<1>13. ASSUME Next
       PROVE  IInv' /\ [BookNext]_bookVars
  <2>1. CASE \E v \in Voucher, p \in Period : CreateDraft(v, p) \/ UpdateDraft(v, p)
    BY <2>1, <1>1
  <2>2. CASE \E p \in Period : ClosePeriod(p) \/ ReopenPeriod(p)
    BY <2>2, <1>2
  <2>3. CASE \E t \in Tx, v \in Voucher :
                \/ \E o \in Ops \cap {"post", "cancel"} : Begin(t, o, v, NoPeriod)
                \/ "repost" \in Ops /\ \E p \in Period : Begin(t, "repost", v, p)
                \/ "delete" \in Ops /\ BeginDelete(t, v)
    BY <2>3, <1>3
  <2>4. CASE \E t \in Tx : TxStep(t) \/ Fail(t) \/ DeadlockAbort(t)
    BY <2>4, <1>4, <1>5, <1>6, <1>7, <1>8, <1>9, <1>10, <1>11 DEF TxStep
  <2> QED
    BY <1>13, <2>1, <2>2, <2>3, <2>4 DEF Next
<1> QED
  BY <1>12, <1>13

(* Every reachable state is well typed and consistent: the inductive        *)
(* invariant.                                                               *)
THEOREM PostingInvariant == Spec => []IInv
<1>1. Init => IInv
  BY InitIInv
<1>2. IInv /\ [Next]_vars => IInv'
  BY NextKeepsIInv
<1> QED
  BY <1>1, <1>2, PTL DEF Spec

(* Types.                                                                   *)
THEOREM PostingTypes == Spec => []TypeOK
<1>1. IInv => TypeOK
  BY DEF IInv
<1> QED
  BY <1>1, PostingInvariant, PTL

(* The transactions of Posting implement the atomic books of LedgerBook.    *)
THEOREM PostingImplementsBook == Spec => BookSpec
<1>1. Init => BookInit
  BY DEF Init
<1>2. IInv /\ [Next]_vars => [BookNext]_bookVars
  BY NextKeepsIInv
<1> QED
  BY <1>1, <1>2, PostingInvariant, PTL DEF Spec, BookSpec

(* A posted voucher points at its one live entry, no other (undeleted)      *)
(* voucher has one: whatever posts, cancels, reposts, deletes, failures and *)
(* period closings interleave.                                              *)
THEOREM PostingLedgerMatches == Spec => []LedgerMatchesVouchers
<1>1. IInv => LedgerMatchesVouchers
  BY DEF IInv
<1> QED
  BY <1>1, PostingInvariant, PTL

(* Numbering survives concurrency and rollback: no number twice, no hole.   *)
THEOREM PostingNumbers == Spec => [](NumbersUnique /\ NumbersGapless /\ ReversedOnce)
<1>1. IInv => NumbersUnique /\ NumbersGapless /\ ReversedOnce
  BY DEF IInv, BookInv
<1> QED
  BY <1>1, PostingInvariant, PTL
=============================================================================
