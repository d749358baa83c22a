# Verification of the construction ERP backend

TLA+ models of the NestJS backend under `src/src`, the TLC runs that check
them and the TLAPS proofs about them. Paths below are relative to `src/src`
unless they start with `src/`.

Contents: [the system](#1-the-system) · [the models](#2-the-models) ·
[the runs](#3-the-runs) · [fairness](#4-fairness) · [the proofs](#5-the-proofs) ·
[what the checks found](#6-what-the-checks-found) · [limits](#7-limits) ·
[plan](#8-plan)

## 1. The system

A multi-tenant accounting backend for a construction company on PostgreSQL.
Requests run concurrently in one or more Node processes. Every use case that
writes runs in one database transaction (`TypeOrmUnitOfWork.run`, isolation
READ COMMITTED): it locks some rows with `SELECT ... FOR UPDATE`, reads others
without a lock, and guards some of its UPDATEs by a `version` column. All
coordination between components is by these rows; there are no messages between
them except the notifications published after a commit.

| component | state | operations | hard parts | what makes it correct |
|---|---|---|---|---|
| `core/posting` | `journal_entry`, append-only | `post`, `reverse`, `repost`, called by every voucher module in its transaction | several rows locked in turn, a repost is two entries in one transaction | ledger and vouchers agree, an entry is reversed once, all or nothing |
| `core/numbering` | `numbering_series` | `next` (with provisioning under a savepoint), admin create and update | first-ever posts racing, rollback, two numbers in one transaction | numbers 1..n without gap or duplicate |
| `core/period` | `accounting_period` | generate, close, close the year, reopen, `assertOpen` | unlocked reads with version-guarded writes, posts holding rows | nothing is posted into a closed period, one winner per change, a locked year stays locked |
| `core/audit` | `audit_log`, append-only, hash-chained | `record` in the caller's transaction, `verifyChain` | concurrent records, rollback, jsonb round trip | changes and rows appear together, an untouched chain verifies |
| `modules/receipt` | receipts, status DRAFT/POSTED/CANCELLED | create, update, delete, post, cancel, repost | the cap against the IPC's outstanding is summed without a lock | never collects more than is due |
| `modules/sales` | IPCs, retention releases | the same life cycle, `release-retention` | advance and retention caps read without locks | never recovers or releases more than was advanced or retained |
| `modules/payment` | payments, allocations | the same life cycle | payables of three kinds settled from several payments | a payable is settled at most once in full |
| `modules/contra-journal` | contras, journals, the opening journal | the same life cycle | one opening per company | one live opening |
| `modules/requisition` | requisitions, approvals, issues | create, submit, approve, reject, issue, reverse issue, close | balances per line, stock and ledger written together | issued = requested - balance, closed stays closed |
| `modules/inventory` | `stock_movement`, `stock_balance` | receive, issue, transfer, adjust, reverse | balances locked line by line, average cost | balance = sum of movements, never negative |
| `modules/purchase` | orders, GRNs, bills | the same life cycle, three-way match | quantities billed and received against orders | never bills more than ordered |
| `modules/hr` | attendance, labour accruals, salary sheets, devices | confirm, accrue, reverse, generate, post | periods generated twice, settlement racing reversal | a day is paid once |
| `core/auth` | users, roles, refresh tokens | login, refresh, logout, change password | a password change that must end every session | no live session after a change |
| `core/notifications` | notifications, push subscriptions | notify after commit | duplicate events, push best effort | one notification per event and recipient |
| `core/cost-control`, `reports`, `dashboard` | none | read-only SQL | | |
| `modules/master-data`, `core/tenancy` | accounts, parties, projects, ... | CRUD with a version guard | | |
| `common`, `config`, `health`, `infrastructure`, `database` | none, or the schema | | | |

The hazards of the code, each at its line and with the properties that would
catch it, are in `PROJECT.json`.

## 2. The models

Modules and what they extend:

```
RowLocks                 row locks, waiting, deadlock        (external: PostgreSQL)
LedgerBook               the books, every operation atomic   (abstract)
  Posting                the transactions behind them        refines LedgerBook
    MCPosting            instances
  LedgerBookProofs, PostingProofs
PeriodControl            the periods of a year               MCPeriodControl
Numbering                the series rows                     MCNumbering
AuditChain               the sealed audit log                MCAuditChain
Collections              IPCs, receipts, releases, advances  MCCollections
StockLedger              balances, movements, documents      MCStockLedger
```

How a transaction is modelled, the same in all modules: `pc[t]` is what
transaction `t` does next, `owner[r]` who holds row `r`, and what `t` wrote and
did not commit is in variables of its own (`reversal`, `posted`, `mine`,
`pending`, `written`), so that every other variable is the committed database.
One action is one SQL statement with the code around it. A read without
`FOR UPDATE` sees the committed state and `t`'s own writes; a locking read or an
UPDATE waits while another transaction owns the row and then sees the newest
committed version, which is what READ COMMITTED does. `Commit` publishes
everything at once, `Fail` is any error or crash, `DeadlockAbort` the database
breaking a cycle. Steps that lock nothing and read nothing that changes are
merged into the next step.

**LedgerBook** is what the posting service promises, every operation one step.
`ledger` is the set of committed entries, each with its voucher, period, number
and the entry it reverses; `last` the counters; `period` the statuses. `PostEntry`,
`ReverseEntry` and `RepostEntry` are `PostingService.post`, `reverse` and `repost`.
Amounts, tags and lines are left out: they decide only whether a post fails.

**Posting** is how the code does it. The voucher part follows the receipts'
use cases in full; contra, journal, payment and IPC lock, check, post, stamp and
save in the same order.

| action | code |
|---|---|
| `CreateDraft`, `UpdateDraft` | `create-receipt`, `update-receipt-draft` |
| `Begin`, `LockVoucher`, `Eligible` | the controller, `findByIdForUpdate`, `assertPostable` / `assertCancellable` |
| `CheckReversed` | `existsReversalOf` in `PostingService.reverse` |
| `LockPeriod` | `PeriodService.assertOpen` |
| `WriteReversal`, `WriteEntry` | `NumberingService.next` and the insert |
| `Commit` (`Stamp`, `End`) | `markPosted` / `markCancelled`, `save`, commit |
| `BeginDelete`, `Delete` | `DeleteReceiptUseCase`: unlocked read, delete by id |
| `ClosePeriod`, `ReopenPeriod` | the period use cases, as one step |

**PeriodControl** opens up the two period steps of Posting. Periods are
`1 .. N` by start date. The use cases read (`ReadFor...`), then `Save` row by
row under the version guard; `ReopenPeriod` reads twice, the period and then its
siblings; `assertOpen` is `AssertOpen`, once for a post and twice for a repost.
`audited` counts the audit rows of each period.

**Numbering** opens up the counters of Posting: `LockSeries` finds the row or
not, `Provision` inserts it under a savepoint, `RelockSeries` finds it after all.
Admins create a series or change its prefix. The unique key of an uncommitted
insert is a held row: a second insert waits for it.

**AuditChain** is the log of one company. A seal is the list of contents it was
computed over (hashes do not collide); `Stored` is the jsonb column, which gives
an object back with its keys in another order. The time is taken before the last
seal is read and the row inserted after, as in `record`.

**Collections** is what a customer owes on one project: IPCs (`ipc`), receipts
against an IPC or into the advance account (`receipt`) and the retention released
(`released`). Amounts are small naturals; `Figures` is `Ipc.computeFigures` with
tax inside `gross`. The three caps are read step by step as the code reads them,
`ReadIpc`, `ReadDue`, `ReadApplied` for a receipt, `ReadIpc`, `ReadReleased` for a
release, `ReadAdvance` for an IPC; `seen` is the figure read last. `PostEntry`
stands for the posting service and keeps only the period's lock; `CommitIpc`,
`CommitReceipt`, `CommitRelease` save and commit, waiting where a foreign key
needs the IPC's row (`NewReference`). The sums over receipts and over the advance
account are computed from the vouchers, which `LedgerMatchesVouchers` of Posting
justifies.

**StockLedger** is the stock of one company: a running balance for each pair of
godown and item, the movements behind it (`moved` is the sum of their values) and
the documents that make them. A request locks its document (`LockDocument`) and
gets a plan, the movements it will make in the order the code makes them; then
`MakeMove` locks the next pair, values the movement (`Worth`), refuses it
(`Refusable`) or rolls the balance (`Rolled`).

| way | code |
|---|---|
| `in` | `receiveIn`, `reverseIssueOut`, the mirror of a journal's out side: at a known value |
| `carry` | the in side of a journal: at the value that left |
| `out` | `issueOut`, the out side of a journal: at the average, refused if it overdraws without leave |
| `undo` | `reverseReceipt`: at the average, never refused for quantity |
| `mirror` | the mirror of a journal's in side: off the balance at the average, recorded at the old value |

Quantities are whole and values are whole ten-thousandths, the scale
`valueIssue` rounds to, so rounding is exact in the model: a bill of 3 units for 2
ten-thousandths already has a rate that does not divide. `short` is a history
variable, set when a pair is overdrawn. The order of the lines of an issue is
free on its reversal (`AnyOrder`), because they are read without an order.

## 3. The runs

| run | bounds | what it shows |
|---|---|---|
| `posting` | 2 vouchers, 2 periods, 1 series, 2 transactions, 2 originals before a repost | ledger, numbers and vouchers agree in every interleaving, and the transactions refine `LedgerBook` |
| `posting_ends` | a series per period (two financial years); post, repost, delete; no symmetry | reposts across a year end draw each number from the right series, and every request ends |
| `posting_delete` | as `posting` | violation: see 6 |
| `period` | 2 periods, 3 transactions, 4 versions | one winner per change, every change audited once, an admitted post keeps its period open, only reposts deadlock |
| `period_year_lock` | 2 periods, 2 transactions | violation: see 6 |
| `numbering` | 2 series, 2 prefixes, 2 transactions, 2 numbers, 3 versions | no number lost or drawn twice while the series are provisioned and changed, draws of two series in opposite orders included |
| `audit` | 2 transactions, 3 rows, 3 milliseconds, ties, objects jsonb reorders | committed seals rest on committed rows; changes and rows together; the chain verifies as long as nothing of what `Undisturbed` excludes happens |
| `collections` | 1 IPC, 2 receipts, 2 transactions, amounts 1 and 2, a certificate with a retention and one that recovers an advance | the caps fail only by a correction or a stale read; only a foreign key can close a deadlock; nothing is settled against an IPC that was never posted |
| `collections_race` | as `collections`, no corrections | violation: see 6 |
| `audit_fork` | 2 transactions | violation: see 6 |
| `stock` | 1 bill, 1 issue, 1 journal of every mode, 2 pairs, 2 transactions, 1 repost | quantities follow the posted documents; sound until overdrawn; movements add up; what may part stock and inventory account, and what may deadlock |
| `stock_drift` | 2 bills, post and cancel | violation: see 6 |

Why the bounds are enough. Conflicts here are between pairs of transactions over
one row; two transactions show every pair, and a third (periods) shows
one overtaking two others. Two vouchers share one series, so a number depends on
another voucher's history; two receipts are the fewest that share a cap, and the
two certificates make a repost lower what is due, the retention and the recovery;
two periods are the fewest for a repost that moves and
for locks taken in two orders. Two pairs and two-line
documents are the fewest for balances locked in opposite orders, and bills of 3 for 2
and of 1 for 3 the smallest whose average is rounded up once and down once.
`MaxOriginals`, `MaxVersion`, `MaxSeq`, `MaxReposts`, `MaxRows`
and `MaxTime` stop requests from starting or rows from being written; nothing
else reads them. Vouchers and transactions are interchangeable, so the safety runs
use symmetry; the liveness run does not. No run disables the deadlock check.

Each module keeps the mutants of its definitions next to them, marked `Mutant:`.
A mutant is a mistake one could make at that line (a plain read instead of a
locking one, a missing version guard, a counter read from the wrong row), and
each property of a passing run is violated under one of them.

## 4. Fairness

The liveness run, `posting_ends`, assumes that an open transaction goes on (`SF` of its steps:
the code never waits for anything but the database, and PostgreSQL queues the
waiters of a row, so one that could be served again and again is served) and that
the database aborts a transaction on a waiting cycle (`WF` of `DeadlockAbort`,
`deadlock_timeout`). Requests, closings, failures and the passing of time are
never forced.

## 5. The proofs

All for any number of vouchers, periods, series and transactions, under the named
assumptions on the constants (a free row's owner is no transaction, the three
kinds of rows are disjoint, every voucher and period has a series).

`LedgerBookProofs`: **BookCorrect**, the book keeps `BookInv`: types, unique and
gapless numbers, one reversal per entry, at most one live entry per voucher. The
invariant is inductive as it stands; the lemmas say that appending an entry with
the next number of its series keeps the numbers (`AppendKeepsNumbers`) and that
appending an original, a reversal or both keeps the rest.

`PostingProofs`: the inductive invariant `IInv` is `TypeOK`, `BookInv`,
`LedgerMatchesVouchers` and `TransactionInv`. `TransactionInv` is the
strengthening: a transaction past its first lock still holds its voucher in the
state it checked (`VoucherHeld`), holds an open period for each entry it has
written or is about to number (`PeriodHeld`), and what it has written carries the
next numbers of the series it holds (`PendingIsNext`). It is what makes `Commit`
a step of the book: without the locks the number, the period or the voucher may
have changed since they were read. **PostingInvariant** is `Spec => []IInv`, with
one lemma per action; **PostingTypes**, **PostingLedgerMatches** and
**PostingNumbers** follow; **PostingImplementsBook** is `Spec => BookSpec`: a
commit is `PostEntry`, `ReverseEntry` or `RepostEntry` of the committed variables,
closing and reopening are `SetStatus`, everything else stutters.

Only model-checked: liveness, `OnlyRepostsDeadlock` (it rests on the cycles of
the waiting graph), and everything about periods, series and the audit chain in
their own modules.

## 6. What the checks found

- `posting_delete`: `DeleteReceiptUseCase` checks DRAFT without locking the row
  and deletes by id; a post that commits in between is deleted with its entry left
  in the ledger, against "edit or hard-delete a receipt DRAFT ONLY". Contra, IPC,
  payment and bill delete the same way; the stock journal locks.
- `period_year_lock`: a reopen reads an open sibling, `closeFy` closes it and
  commits, the reopen commits: the "locked" year has an open period.
- `audit_fork`: two transactions open at the same time seal over the same last
  seal; `verifyChain` calls the untouched log broken.
- `collections_race`: two receipts of one IPC each sum the outstanding before
  the other commits, and both post: the cap "re-checked inside the post
  transaction" holds for one receipt at a time only. Releases and advance
  recoveries have the same shape (`OnlyStaleOverReleases`,
  `OnlyStaleOverRecovers` say how far it goes).
- `stock_drift`: cancelling a bill takes its goods off the stock at the average of
  today and its amount off the inventory account, so that the two differ whenever
  the average has moved, against "the reconciliation invariant".
  `OnlyUndoneReceiptsDrift` says that nothing but an undone receipt (a
  journal that adjusts stock in brings it at no value) parts them.

Seen while modelling, without a run of its own: a row whose object has keys that
jsonb reorders (the `after` of every period close, `{status, event}`) never
verifies, even alone, which is why `Undisturbed` excludes it; an issue whose value
rounds to zero can never post, because the ledger refuses a line of zero; undoing a
receipt is refused while its pair is overdrawn and worth nothing or more, because the
movement would be valued below zero; the mirror of a journal's in side is recorded at another value than it
takes off (`MovementsAddUp`); two documents that move the same pairs in opposite
orders can deadlock. Cancelling or reposting an IPC looks at no receipt and no release booked against it; a repost
of an IPC cuts its recovery to what remains before its own is given back, so
changing only the narration can lower it; a repost of a receipt counts the
receipt's own settlement against the cap; a release and a correction of its IPC
can deadlock (period, then IPC by foreign key, against IPC, then period), which
the database resolves by failing one of them.

## 7. Limits

Left out of the models: amounts (Collections and StockLedger have them), tags,
lines, references and permissions (they only make a post fail), the formatting of numbers and dates, companies other than
one, and the queries. The database's own guarantees (row locks, unique indexes,
rollback, deadlock detection) are assumed, in `RowLocks` and the actions that use
them. A statement is atomic; `CreateDraft` and `UpdateDraft` in Posting are one
step because nothing they read decides a property there.

## 8. Plan

1. `Settlement`: payments against payables; labour accruals settled and reversed.
2. `Requisition`: approvals, issues, reversals, closing, with stock and ledger.
3. `Procurement`: orders, GRNs and bills.
4. `Salary`, `Attendance`: generation, posting, reversal, devices.
5. `VoucherLinkage`, `Opening`, `Sessions`, `Notifications`.
6. Pure algorithms: IPC figures, period generation, fractional days, allocation.

Theorems next: `SeriesGapless` of Numbering, `StatusAudited` and
`AdmittedPostsStayOpen` of PeriodControl, `SealsRestOnTheLog` of AuditChain, then
`SoundUntilShort` of StockLedger.
