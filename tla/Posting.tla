------------------------------- MODULE Posting -------------------------------
(* Posting, cancelling and reposting vouchers: the voucher use cases (the   *)
(* receipts', in full; contra, journal, payment and IPC have the same       *)
(* shape) around PostingService, the accounting-period guard and the        *)
(* numbering series.  Every use case is one database transaction (READ      *)
(* COMMITTED) of several steps; steps of different transactions interleave. *)
(*                                                                          *)
(* What a transaction has written and not committed is in reversal[t] and   *)
(* posted[t]; every other variable but owner, pc and job is the committed   *)
(* database.  A read without FOR UPDATE sees the committed state.           *)
EXTENDS LedgerBook, RowLocks

CONSTANTS
  Tx,           \* the transactions that may be open at the same time
  NoTx,         \* the owner of a free row
  NoJob,        \* the job of an idle transaction
  Ops,          \* the kinds of request the clients make
  NoPeriod,     \* the corrected date of a request that corrects nothing
  MaxOriginals  \* bound: reposts start while the ledger has fewer originals

Row == Voucher \cup Period \cup Series

ASSUME TxValues == NoTx \notin Tx
ASSUME NoPeriodValue == NoPeriod \notin Period
ASSUME OpsAreRequests == Ops \subseteq {"post", "cancel", "repost", "delete"}
ASSUME MaxOriginalsNat == MaxOriginals \in Nat
ASSUME RowsDisjoint ==
  /\ Voucher \cap Period = {}
  /\ Voucher \cap Series = {}
  /\ Period \cap Series = {}

VARIABLES
  status,     \* [Voucher -> ...]: status column; NONE before the insert,
              \* DELETED once no query finds the row
  date,       \* [Voucher -> Period]: the period that owns the voucher date
  entry,      \* [Voucher -> Entry]: the entry journal_entry_id points at
  pc,         \* [Tx -> Step]: what the transaction does next
  job,        \* [Tx -> Job]: its request
  reversal,   \* [Tx -> Entry]: the reversal it inserted, not committed
  posted,     \* [Tx -> Entry]: the entry it inserted, not committed
  owner       \* [Row -> Tx]: the holder of each row lock

txVars == <<pc, job, reversal, posted, owner>>
voucherVars == <<status, date, entry>>
vars == <<ledger, last, period, status, date, entry, pc, job, reversal, posted, owner>>

Step == {"idle", "lockVoucher", "checkReversed", "reversePeriod", "reverseNumber",
         "postPeriod", "postNumber", "stamp", "delete"}
Job ==
  [op : {"post", "cancel", "delete"}, voucher : Voucher, to : {NoPeriod}]
    \cup [op : {"repost"}, voucher : Voucher, to : Period]

TypeOK ==
  /\ BookTypeOK
  /\ status \in [Voucher -> {"NONE", "DRAFT", "POSTED", "CANCELLED", "DELETED"}]
  /\ date \in [Voucher -> Period]
  /\ entry \in [Voucher -> Original \cup {NoEntry}]
  /\ pc \in [Tx -> Step]
  /\ job \in [Tx -> Job \cup {NoJob}]
  /\ reversal \in [Tx -> Reversal \cup {NoEntry}]
  /\ posted \in [Tx -> Original \cup {NoEntry}]
  /\ owner \in [Row -> Tx \cup {NoTx}]

-----------------------------------------------------------------------------
Free(r, t) == Lockable(owner, r, t, NoTx)
Vch(t) == job[t].voucher

(* The voucher date of the entry to post: the corrected date of a repost.   *)
PostDate(t) == IF job[t].op = "repost" THEN job[t].to ELSE date[Vch(t)]

(* Mutant: the second number of a repost is drawn from the committed row.   *)
SeenLastStale(t, s) == last[s]

(* last_sequence as t sees it: its own uncommitted increment included.      *)
SeenLast(t, s) ==
  IF reversal[t] # NoEntry /\ SeriesOfEntry(reversal[t]) = s
  THEN reversal[t].seq ELSE last[s]

Written(t) == {reversal[t], posted[t]} \ {NoEntry}

(* The row the next step of t locks.                                        *)
WantedRow(t) ==
  CASE pc[t] \in {"lockVoucher", "delete"} -> Vch(t)
    [] pc[t] = "reversePeriod" -> entry[Vch(t)].period
    [] pc[t] = "reverseNumber" -> SeriesOfEntry(entry[Vch(t)])
    [] pc[t] = "postPeriod" -> PostDate(t)
    [] pc[t] = "postNumber" -> SeriesOf[Vch(t)][PostDate(t)]

Locking(t) == pc[t] \notin {"idle", "checkReversed", "stamp"}

WaitsFor ==
  {e \in Tx \X Tx : e[1] # e[2] /\ Locking(e[1]) /\ owner[WantedRow(e[1])] = e[2]}

-----------------------------------------------------------------------------
Init ==
  /\ BookInit
  /\ status = [v \in Voucher |-> "NONE"]
  /\ date = [v \in Voucher |-> CHOOSE p \in Period : TRUE]   \* no row yet
  /\ entry = [v \in Voucher |-> NoEntry]
  /\ pc = [t \in Tx |-> "idle"]
  /\ job = [t \in Tx |-> NoJob]
  /\ reversal = [t \in Tx |-> NoEntry]
  /\ posted = [t \in Tx |-> NoEntry]
  /\ owner = [r \in Row |-> NoTx]

(* A draft is inserted with a date in some period; nothing checks that the  *)
(* period is open yet.                                                      *)
CreateDraft(v, p) ==
  /\ status[v] = "NONE"
  /\ status' = [status EXCEPT ![v] = "DRAFT"]
  /\ date' = [date EXCEPT ![v] = p]
  /\ UNCHANGED <<bookVars, entry, txVars>>

(* An edit moves the draft's date.  Its UPDATE is guarded by the version it *)
(* read and waits for the row lock, so it takes effect only on a draft no   *)
(* transaction holds, in one step.                                          *)
UpdateDraft(v, p) ==
  /\ status[v] = "DRAFT"
  /\ owner[v] = NoTx
  /\ date' = [date EXCEPT ![v] = p]
  /\ UNCHANGED <<bookVars, status, entry, txVars>>

(* Closing and reopening: one guarded UPDATE, which waits until no post     *)
(* holds the period's row (module PeriodControl has the steps in between).  *)
ClosePeriod(p) ==
  /\ owner[p] = NoTx
  /\ period[p] = "OPEN"
  /\ period' = [period EXCEPT ![p] = "CLOSED"]
  /\ UNCHANGED <<ledger, last, voucherVars, txVars>>

ReopenPeriod(p) ==
  /\ owner[p] = NoTx
  /\ period[p] = "CLOSED"
  /\ period' = [period EXCEPT ![p] = "OPEN"]
  /\ UNCHANGED <<ledger, last, voucherVars, txVars>>

-----------------------------------------------------------------------------
(* A client's request opens a transaction.                                  *)
Begin(t, o, v, p) ==
  /\ pc[t] = "idle"
  /\ o = "repost" <=> p # NoPeriod
  /\ o = "repost" => Cardinality({e \in ledger : e.of = NoEntry}) < MaxOriginals
  /\ pc' = [pc EXCEPT ![t] = "lockVoucher"]
  /\ job' = [job EXCEPT ![t] = [op |-> o, voucher |-> v, to |-> p]]
  /\ UNCHANGED <<bookVars, voucherVars, reversal, posted, owner>>

(* findByIdForUpdate, then assertPostable / assertCancellable.              *)
Eligible(t) == status[Vch(t)] = IF job[t].op = "post" THEN "DRAFT" ELSE "POSTED"

(* Mutant: findById instead of findByIdForUpdate.                           *)
LockVoucherPlainRead(t) ==
  /\ pc[t] = "lockVoucher"
  /\ Eligible(t)
  /\ pc' = [pc EXCEPT ![t] = IF job[t].op = "post" THEN "postPeriod" ELSE "checkReversed"]
  /\ UNCHANGED <<bookVars, voucherVars, job, reversal, posted, owner>>

LockVoucher(t) ==
  /\ pc[t] = "lockVoucher"
  /\ Free(Vch(t), t)
  /\ Eligible(t)
  /\ owner' = Lock(owner, {Vch(t)}, t)
  /\ pc' = [pc EXCEPT ![t] = IF job[t].op = "post" THEN "postPeriod" ELSE "checkReversed"]
  /\ UNCHANGED <<bookVars, voucherVars, job, reversal, posted>>

(* Mutant: the reversal draws its number, and locks the series, before the  *)
(* period.                                                                  *)
CheckReversedNumberFirst(t) ==
  LET s == SeriesOfEntry(entry[Vch(t)]) IN
  /\ pc[t] = "checkReversed"
  /\ ~IsReversed(entry[Vch(t)])
  /\ Free(s, t)
  /\ owner' = Lock(owner, {s}, t)
  /\ pc' = [pc EXCEPT ![t] = "reversePeriod"]
  /\ UNCHANGED <<bookVars, voucherVars, job, reversal, posted>>

(* PostingService.reverse: existsReversalOf, a plain COUNT, before the      *)
(* period is locked.                                                        *)
CheckReversed(t) ==
  /\ pc[t] = "checkReversed"
  /\ ~IsReversed(entry[Vch(t)])
  /\ pc' = [pc EXCEPT ![t] = "reversePeriod"]
  /\ UNCHANGED <<bookVars, voucherVars, job, reversal, posted, owner>>

(* Mutant: assertOpen reads the period without FOR UPDATE.                  *)
LockPeriodPlainRead(t) ==
  /\ pc[t] \in {"reversePeriod", "postPeriod"}
  /\ period[WantedRow(t)] = "OPEN"
  /\ pc' = [pc EXCEPT ![t] = IF @ = "reversePeriod" THEN "reverseNumber" ELSE "postNumber"]
  /\ UNCHANGED <<bookVars, voucherVars, job, reversal, posted, owner>>

(* PeriodService.assertOpen: lock the period row, refuse unless OPEN.       *)
LockPeriod(t) ==
  /\ pc[t] \in {"reversePeriod", "postPeriod"}
  /\ Free(WantedRow(t), t)
  /\ period[WantedRow(t)] = "OPEN"
  /\ owner' = Lock(owner, {WantedRow(t)}, t)
  /\ pc' = [pc EXCEPT ![t] = IF @ = "reversePeriod" THEN "reverseNumber" ELSE "postNumber"]
  /\ UNCHANGED <<bookVars, voucherVars, job, reversal, posted>>

(* Mutant: the reversal draws its number from the corrected date's series.  *)
WriteReversalNewYear(t) ==
  LET e == entry[Vch(t)]
      s == SeriesOf[Vch(t)][PostDate(t)]
  IN
  /\ pc[t] = "reverseNumber"
  /\ Free(s, t)
  /\ owner' = Lock(owner, {s}, t)
  /\ reversal' = [reversal EXCEPT ![t] = ReversalEntry(e, last[s] + 1)]
  /\ pc' = [pc EXCEPT ![t] = IF job[t].op = "repost" THEN "postPeriod" ELSE "stamp"]
  /\ UNCHANGED <<bookVars, voucherVars, job, posted>>

(* NumberingService.next under the series' row lock, then the insert of the *)
(* reversal (of the locked voucher's entry, with its dates).                *)
WriteReversal(t) ==
  LET e == entry[Vch(t)]
      s == SeriesOfEntry(e)
  IN
  /\ pc[t] = "reverseNumber"
  /\ Free(s, t)
  /\ owner' = Lock(owner, {s}, t)
  /\ reversal' = [reversal EXCEPT ![t] = ReversalEntry(e, SeenLast(t, s) + 1)]
  /\ pc' = [pc EXCEPT ![t] = IF job[t].op = "repost" THEN "postPeriod" ELSE "stamp"]
  /\ UNCHANGED <<bookVars, voucherVars, job, posted>>

(* Mutant: the series row is read without FOR UPDATE.                       *)
WriteEntryPlainRead(t) ==
  LET s == SeriesOf[Vch(t)][PostDate(t)] IN
  /\ pc[t] = "postNumber"
  /\ posted' = [posted EXCEPT ![t] = OriginalEntry(Vch(t), PostDate(t), SeenLast(t, s) + 1)]
  /\ pc' = [pc EXCEPT ![t] = "stamp"]
  /\ UNCHANGED <<bookVars, voucherVars, job, reversal, owner>>

(* The same for a new entry.                                                *)
WriteEntry(t) ==
  LET s == SeriesOf[Vch(t)][PostDate(t)] IN
  /\ pc[t] = "postNumber"
  /\ Free(s, t)
  /\ owner' = Lock(owner, {s}, t)
  /\ posted' = [posted EXCEPT ![t] = OriginalEntry(Vch(t), PostDate(t), SeenLast(t, s) + 1)]
  /\ pc' = [pc EXCEPT ![t] = "stamp"]
  /\ UNCHANGED <<bookVars, voucherVars, job, reversal>>

-----------------------------------------------------------------------------
(* Mutant: a transaction that ends keeps its row locks (a connection goes   *)
(* back to the pool inside its transaction).                                *)
EndKeepsLocks(t) ==
  /\ pc' = [pc EXCEPT ![t] = "idle"]
  /\ job' = [job EXCEPT ![t] = NoJob]
  /\ reversal' = [reversal EXCEPT ![t] = NoEntry]
  /\ posted' = [posted EXCEPT ![t] = NoEntry]
  /\ UNCHANGED owner

(* The end of a transaction: idle, nothing pending, every row released.     *)
End(t) ==
  /\ pc' = [pc EXCEPT ![t] = "idle"]
  /\ job' = [job EXCEPT ![t] = NoJob]
  /\ reversal' = [reversal EXCEPT ![t] = NoEntry]
  /\ posted' = [posted EXCEPT ![t] = NoEntry]
  /\ owner' = Release(owner, t, NoTx)

(* Mutant: a repost leaves the voucher pointing at the reversed entry.      *)
StampOldEntry(t) ==
  LET v == Vch(t) IN
  /\ status' = [status EXCEPT ![v] = IF job[t].op = "cancel" THEN "CANCELLED" ELSE "POSTED"]
  /\ entry' = [entry EXCEPT ![v] = IF job[t].op = "post" THEN posted[t] ELSE @]
  /\ date' = [date EXCEPT ![v] = IF job[t].op = "repost" THEN job[t].to ELSE @]

(* Mutant: a cancel points the voucher at the reversal.                     *)
StampReversal(t) ==
  LET v == Vch(t) IN
  /\ status' = [status EXCEPT ![v] = IF job[t].op = "cancel" THEN "CANCELLED" ELSE "POSTED"]
  /\ entry' = [entry EXCEPT ![v] = IF job[t].op = "cancel" THEN reversal[t] ELSE posted[t]]
  /\ date' = [date EXCEPT ![v] = IF job[t].op = "repost" THEN job[t].to ELSE @]

(* The voucher is stamped (markPosted / markCancelled, save) and the        *)
(* transaction commits: its entries, counters and the stamp appear at once. *)
(* The version guard of save cannot fail, the row is locked since it was    *)
(* read.                                                                    *)
Stamp(t) ==
  LET v == Vch(t) IN
  /\ status' = [status EXCEPT ![v] = IF job[t].op = "cancel" THEN "CANCELLED" ELSE "POSTED"]
  /\ entry' = [entry EXCEPT ![v] = IF job[t].op = "cancel" THEN @ ELSE posted[t]]
  /\ date' = [date EXCEPT ![v] = IF job[t].op = "repost" THEN job[t].to ELSE @]

Commit(t) ==
  /\ pc[t] = "stamp"
  /\ Stamp(t)
  /\ ledger' = ledger \cup Written(t)
  /\ last' = [s \in Series |->
                IF posted[t] # NoEntry /\ SeriesOfEntry(posted[t]) = s
                THEN posted[t].seq ELSE SeenLast(t, s)]
  /\ End(t)
  /\ UNCHANGED period

(* A check failed: the voucher is not in the state the request needs, its   *)
(* entry is already reversed, or the period is closed.  The error rolls the *)
(* transaction back.                                                        *)
Refused(t) ==
  \/ pc[t] = "lockVoucher" /\ Free(Vch(t), t) /\ ~Eligible(t)
  \/ pc[t] = "checkReversed" /\ IsReversed(entry[Vch(t)])
  \/ /\ pc[t] \in {"reversePeriod", "postPeriod"}
     /\ Free(WantedRow(t), t)
     /\ period[WantedRow(t)] = "CLOSED"

Rollback(t) == End(t) /\ UNCHANGED <<bookVars, voucherVars>>

Reject(t) == Refused(t) /\ Rollback(t)

(* Anything else that ends a transaction: a validation of tags, references  *)
(* or balance, an error of the database, a lost connection, a crash.        *)
Fail(t) == pc[t] # "idle" /\ Rollback(t)

(* The database aborts a transaction that waits on a cycle.                 *)
DeadlockAbort(t) == OnWaitCycle(t, WaitsFor) /\ Rollback(t)

(* Deleting a draft reads the status without a lock ...                     *)
BeginDelete(t, v) ==
  /\ pc[t] = "idle"
  /\ status[v] = "DRAFT"
  /\ pc' = [pc EXCEPT ![t] = "delete"]
  /\ job' = [job EXCEPT ![t] = [op |-> "delete", voucher |-> v, to |-> NoPeriod]]
  /\ UNCHANGED <<bookVars, voucherVars, reversal, posted, owner>>

(* ... and then deletes by id alone, waiting for the row if it is locked.   *)
Delete(t) ==
  /\ pc[t] = "delete"
  /\ Free(Vch(t), t)
  /\ status' = [status EXCEPT ![Vch(t)] = "DELETED"]
  /\ End(t)
  /\ UNCHANGED <<bookVars, date, entry>>

TxStep(t) ==
  \/ LockVoucher(t) \/ CheckReversed(t) \/ LockPeriod(t)
  \/ WriteReversal(t) \/ WriteEntry(t) \/ Commit(t) \/ Delete(t) \/ Reject(t)

Next ==
  \/ \E v \in Voucher, p \in Period : CreateDraft(v, p) \/ UpdateDraft(v, p)
  \/ \E p \in Period : ClosePeriod(p) \/ ReopenPeriod(p)
  \/ \E t \in Tx, v \in Voucher :
        \/ \E o \in Ops \cap {"post", "cancel"} : Begin(t, o, v, NoPeriod)
        \/ "repost" \in Ops /\ \E p \in Period : Begin(t, "repost", v, p)
        \/ "delete" \in Ops /\ BeginDelete(t, v)
  \/ \E t \in Tx : TxStep(t) \/ Fail(t) \/ DeadlockAbort(t)

Spec == Init /\ [][Next]_vars

(* An open transaction runs on.  PostgreSQL grants a row to its waiters in  *)
(* turn, so a step that is enabled again and again is taken (SF); requests, *)
(* closings and failures are never forced.                                  *)
Fairness == \A t \in Tx : SF_vars(TxStep(t)) /\ WF_vars(DeadlockAbort(t))
FairSpec == Spec /\ Fairness

-----------------------------------------------------------------------------
(* Ledger and voucher rows agree: a posted voucher points at its one live   *)
(* entry, and no other voucher has a live entry (deleted rows apart, see    *)
(* DeletedHasNoLiveEntry).  Needs the row lock over the whole transaction   *)
(* and the stamp in the transaction of the entry.                           *)
LedgerMatchesVouchers ==
  \A v \in Voucher :
     status[v] # "DELETED" =>
        LiveEntries(v) = IF status[v] = "POSTED" THEN {entry[v]} ELSE {}

(* A draft only can be deleted, so a deleted voucher has no entry that      *)
(* counts (update-receipt-draft.usecase.ts:2, "a posted/cancelled receipt   *)
(* is immutable"; contra, payment, IPC and bill say the same).              *)
DeletedHasNoLiveEntry ==
  \A v \in Voucher : status[v] = "DELETED" => LiveEntries(v) = {}

(* Number last: while a transaction holds a series it waits for nothing     *)
(* unless it reposts, so posts and cancels alone never deadlock.            *)
OnlyRepostsDeadlock ==
  \A t \in Tx : OnWaitCycle(t, WaitsFor) =>
     \E u \in Tx : pc[u] = "postPeriod" /\ job[u].op = "repost"

(* What the proofs add to the invariants above: a transaction past its      *)
(* first lock holds its voucher in the state it checked, ...                *)
Correcting(t) == job[t].op \in {"cancel", "repost"}
PostsEntry(t) == job[t].op \in {"post", "repost"}
PastLock(t) == pc[t] \notin {"idle", "lockVoucher", "delete"}

VoucherHeld(t) ==
  /\ pc[t] # "idle" => job[t] \in Job
  /\ pc[t] = "delete" => job[t].op = "delete"
  /\ pc[t] \in {"checkReversed", "reversePeriod", "reverseNumber"} => Correcting(t)
  /\ pc[t] \in {"postPeriod", "postNumber"} => PostsEntry(t)
  /\ pc[t] \in {"lockVoucher", "stamp"} => job[t].op # "delete"
  /\ PastLock(t) => owner[Vch(t)] = t /\ Eligible(t)

(* ... past assertOpen it holds an open period for each entry it writes ... *)
ReversePeriodHeld(t) ==
  \/ pc[t] = "reverseNumber"
  \/ pc[t] \in {"postPeriod", "postNumber", "stamp"} /\ Correcting(t)
PostPeriodHeld(t) == pc[t] = "postNumber" \/ (pc[t] = "stamp" /\ PostsEntry(t))

PeriodHeld(t) ==
  /\ ReversePeriodHeld(t) =>
        owner[entry[Vch(t)].period] = t /\ period[entry[Vch(t)].period] = "OPEN"
  /\ PostPeriodHeld(t) => owner[PostDate(t)] = t /\ period[PostDate(t)] = "OPEN"

(* ... and the entries it wrote carry the next numbers of the series it     *)
(* holds.                                                                   *)
HasReversal(t) == pc[t] \in {"postPeriod", "postNumber", "stamp"} /\ Correcting(t)
HasEntry(t) == pc[t] = "stamp" /\ PostsEntry(t)

PendingIsNext(t) ==
  /\ HasReversal(t) =>
        LET s == SeriesOfEntry(entry[Vch(t)])
        IN  owner[s] = t /\ reversal[t] = ReversalEntry(entry[Vch(t)], last[s] + 1)
  /\ ~HasReversal(t) => reversal[t] = NoEntry
  /\ HasEntry(t) =>
        LET s == SeriesOf[Vch(t)][PostDate(t)]
        IN  owner[s] = t /\ posted[t] = OriginalEntry(Vch(t), PostDate(t), SeenLast(t, s) + 1)
  /\ ~HasEntry(t) => posted[t] = NoEntry

TxInv(t) == VoucherHeld(t) /\ PeriodHeld(t) /\ PendingIsNext(t)
TransactionInv == \A t \in Tx : TxInv(t)

(* Every request ends, committed or rolled back.                            *)
RequestsEnd == \A t \in Tx : (pc[t] # "idle") ~> (pc[t] = "idle")
=============================================================================
