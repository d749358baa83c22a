---------------------------- MODULE PeriodControl ----------------------------
(* The accounting periods of one financial year: generating, closing,      *)
(* closing the whole year, reopening, and the posts that hold a period      *)
(* open.  The use cases read without locks and write with an UPDATE guarded *)
(* by the version they read; posts lock the row (PeriodService.assertOpen). *)
(* Module Posting takes closing and reopening as one step; this module has  *)
(* the steps in between.                                                    *)
EXTENDS Naturals, FiniteSets, RowLocks

CONSTANTS
  N,           \* the number of periods of the year
  Tx,          \* the transactions that may be open at the same time
  NoTx,        \* the owner of a free row, the closer of an open period
  Ops,         \* the kinds of request the clients make
  MaxVersion   \* bound: how often a period is written

Period == 1 .. N   \* in the order of their start dates

ASSUME NPositive == N \in Nat \ {0}
ASSUME TxValues == NoTx \notin Tx
ASSUME OpsAreRequests ==
  Ops \subseteq {"generate", "close", "closeFy", "reopen", "post", "repost"}
ASSUME MaxVersionNat == MaxVersion \in Nat

VARIABLES
  row,      \* [Period -> Row]: the committed rows
  audited,  \* [Period -> [closes, reopens]]: the committed audit rows
  pc,       \* [Tx -> step]
  job,      \* [Tx -> [op, p, q]]: the request, on periods p and q
  seen,     \* [Tx -> [Period -> Row]]: what the transaction read
  plan,     \* [Tx -> set of periods]: rows it has still to write or lock
  written,  \* [Tx -> set of periods]: rows it wrote, not committed
  owner     \* [Period -> Tx]: the holder of each row (or unique key)

vars == <<row, audited, pc, job, seen, plan, written, owner>>

Row == [status : {"ABSENT", "OPEN", "CLOSED"}, version : Nat, closedBy : Tx \cup {NoTx}]
Absent == [status |-> "ABSENT", version |-> 0, closedBy |-> NoTx]
NoJob == [op |-> "none", p |-> 1, q |-> 1]

TypeOK ==
  /\ row \in [Period -> Row]
  /\ audited \in [Period -> [closes : Nat, reopens : Nat]]
  /\ pc \in [Tx -> {"idle", "read", "siblings", "write", "lock"}]
  /\ job \in [Tx -> [op : Ops \cup {"none"}, p : Period, q : Period]]
  /\ seen \in [Tx -> [Period -> Row]]
  /\ plan \in [Tx -> SUBSET Period]
  /\ written \in [Tx -> SUBSET Period]
  /\ owner \in [Period -> Tx \cup {NoTx}]
  /\ \A t \in Tx, p \in Period : p \in written[t] => owner[p] = t

-----------------------------------------------------------------------------
Exists(p) == row[p].status # "ABSENT"
IsOpen(r) == r.status = "OPEN"
Free(p, t) == Lockable(owner, p, t, NoTx)

Generated == [status |-> "OPEN", version |-> 1, closedBy |-> NoTx]

Closed(r, t) == [status |-> "CLOSED", version |-> r.version + 1, closedBy |-> t]

(* Mutant: reopen leaves the stamp of the close.                            *)
ReopenedKeepsStamp(r) == [r EXCEPT !.status = "OPEN", !.version = @ + 1]

Reopened(r) == [status |-> "OPEN", version |-> r.version + 1, closedBy |-> NoTx]

(* The row t writes for period p.                                           *)
NewRow(t, p) ==
  CASE job[t].op = "generate" -> Generated
    [] job[t].op \in {"close", "closeFy"} -> Closed(seen[t][p], t)
    [] job[t].op = "reopen" -> Reopened(seen[t][p])

(* Mutant: listByFy without ORDER BY: the rows written last come first.     *)
NextPeriodUnordered(t) ==
  IF job[t].op = "repost" /\ job[t].p \in plan[t] THEN job[t].p
  ELSE CHOOSE p \in plan[t] : \A q \in plan[t] \ {p} :
          \/ seen[t][p].version > seen[t][q].version
          \/ seen[t][p].version = seen[t][q].version /\ p < q

(* saveMany goes by start date; a repost locks the original's period first. *)
NextPeriod(t) ==
  IF job[t].op = "repost" /\ job[t].p \in plan[t] THEN job[t].p
  ELSE CHOOSE p \in plan[t] : \A q \in plan[t] : p <= q

Waiting(t) == pc[t] \in {"write", "lock"} /\ plan[t] # {}
WaitsFor ==
  {e \in Tx \X Tx : e[1] # e[2] /\ Waiting(e[1]) /\ owner[NextPeriod(e[1])] = e[2]}

-----------------------------------------------------------------------------
Init ==
  /\ row = [p \in Period |-> Absent]
  /\ audited = [p \in Period |-> [closes |-> 0, reopens |-> 0]]
  /\ pc = [t \in Tx |-> "idle"]
  /\ job = [t \in Tx |-> NoJob]
  /\ seen = [t \in Tx |-> [p \in Period |-> Absent]]
  /\ plan = [t \in Tx |-> {}]
  /\ written = [t \in Tx |-> {}]
  /\ owner = [p \in Period |-> NoTx]

Begin(t, o, p, q) ==
  /\ pc[t] = "idle"
  /\ o # "repost" => p = q
  /\ o \in {"generate", "closeFy"} => p = 1
  /\ o \in {"close", "closeFy", "reopen"} =>
        \A r \in Period : row[r].version < MaxVersion
  /\ job' = [job EXCEPT ![t] = [op |-> o, p |-> p, q |-> q]]
  /\ pc' = [pc EXCEPT ![t] = IF o \in {"post", "repost"} THEN "lock" ELSE "read"]
  /\ plan' = [plan EXCEPT ![t] = IF o \in {"post", "repost"} THEN {p, q} ELSE {}]
  /\ UNCHANGED <<row, audited, seen, written, owner>>

Reads(t, step, ps) ==
  /\ pc' = [pc EXCEPT ![t] = step]
  /\ plan' = [plan EXCEPT ![t] = ps]
  /\ UNCHANGED <<row, audited, job, written, owner>>

(* GeneratePeriods: existsAnyForFy.                                         *)
ReadForGenerate(t) ==
  /\ pc[t] = "read" /\ job[t].op = "generate"
  /\ \A p \in Period : ~Exists(p)
  /\ Reads(t, "write", Period)
  /\ UNCHANGED seen

(* ClosePeriod: findById, then close() on what was read.                    *)
ReadForClose(t) ==
  /\ pc[t] = "read" /\ job[t].op = "close"
  /\ IsOpen(row[job[t].p])
  /\ seen' = [seen EXCEPT ![t] = row]
  /\ Reads(t, "write", {job[t].p})

(* CloseFy: listByFy; the periods that are open are to be closed.           *)
ReadForCloseFy(t) ==
  /\ pc[t] = "read" /\ job[t].op = "closeFy"
  /\ \E p \in Period : Exists(p)
  /\ seen' = [seen EXCEPT ![t] = row]
  /\ Reads(t, "write", {p \in Period : IsOpen(row[p])})

(* ReopenPeriod: findById, ...                                              *)
ReadForReopen(t) ==
  /\ pc[t] = "read" /\ job[t].op = "reopen"
  /\ Exists(job[t].p)
  /\ seen' = [seen EXCEPT ![t] = row]
  /\ Reads(t, "siblings", {})

(* ... then, in a second statement, the siblings for the year lock, then    *)
(* reopen() on what was read first.                                         *)
ReadSiblings(t) ==
  /\ pc[t] = "siblings"
  /\ \E p \in Period : IsOpen(row[p])
  /\ seen[t][job[t].p].status = "CLOSED"
  /\ Reads(t, "write", {job[t].p})
  /\ UNCHANGED seen

(* Mutant: the UPDATE is not guarded by the version.                        *)
SaveUnguarded(t) ==
  LET p == NextPeriod(t) IN
  /\ pc[t] = "write" /\ plan[t] # {}
  /\ Free(p, t)
  /\ owner' = Lock(owner, {p}, t)
  /\ written' = [written EXCEPT ![t] = @ \cup {p}]
  /\ plan' = [plan EXCEPT ![t] = @ \ {p}]
  /\ UNCHANGED <<row, audited, pc, job, seen>>

(* save: an INSERT that the unique key admits, or an UPDATE of the version  *)
(* that was read.  Both wait while another transaction holds the row.       *)
Save(t) ==
  LET p == NextPeriod(t) IN
  /\ pc[t] = "write" /\ plan[t] # {}
  /\ Free(p, t)
  /\ row[p].version = seen[t][p].version
  /\ owner' = Lock(owner, {p}, t)
  /\ written' = [written EXCEPT ![t] = @ \cup {p}]
  /\ plan' = [plan EXCEPT ![t] = @ \ {p}]
  /\ UNCHANGED <<row, audited, pc, job, seen>>

(* Mutant: assertOpen reads without FOR UPDATE.                             *)
AssertOpenPlainRead(t) ==
  LET p == NextPeriod(t) IN
  /\ pc[t] = "lock" /\ plan[t] # {}
  /\ IsOpen(row[p])
  /\ plan' = [plan EXCEPT ![t] = @ \ {p}]
  /\ UNCHANGED <<row, audited, pc, job, seen, written, owner>>

(* assertOpen: FOR UPDATE, then the status.                                 *)
AssertOpen(t) ==
  LET p == NextPeriod(t) IN
  /\ pc[t] = "lock" /\ plan[t] # {}
  /\ Free(p, t)
  /\ IsOpen(row[p])
  /\ owner' = Lock(owner, {p}, t)
  /\ plan' = [plan EXCEPT ![t] = @ \ {p}]
  /\ UNCHANGED <<row, audited, pc, job, seen, written>>

-----------------------------------------------------------------------------
(* Mutant: a transaction that ends leaves its writes to the next one.       *)
EndKeepsWritten(t) ==
  /\ pc' = [pc EXCEPT ![t] = "idle"]
  /\ job' = [job EXCEPT ![t] = NoJob]
  /\ seen' = [seen EXCEPT ![t] = [p \in Period |-> Absent]]
  /\ plan' = [plan EXCEPT ![t] = {}]
  /\ owner' = Release(owner, t, NoTx)
  /\ UNCHANGED written

End(t) ==
  /\ pc' = [pc EXCEPT ![t] = "idle"]
  /\ job' = [job EXCEPT ![t] = NoJob]
  /\ seen' = [seen EXCEPT ![t] = [p \in Period |-> Absent]]
  /\ plan' = [plan EXCEPT ![t] = {}]
  /\ written' = [written EXCEPT ![t] = {}]
  /\ owner' = Release(owner, t, NoTx)

(* One audit row for each period closed or reopened, in the transaction.    *)
Audit(t, p) ==
  CASE p \notin written[t] -> audited[p]
    [] job[t].op = "generate" -> audited[p]
    [] job[t].op = "reopen" -> [audited[p] EXCEPT !.reopens = @ + 1]
    [] OTHER -> [audited[p] EXCEPT !.closes = @ + 1]

Commit(t) ==
  /\ pc[t] \in {"write", "lock"} /\ plan[t] = {}
  /\ row' = [p \in Period |-> IF p \in written[t] THEN NewRow(t, p) ELSE row[p]]
  /\ audited' = [p \in Period |-> Audit(t, p)]
  /\ End(t)

(* A refusal: periods exist already, no period of that id, wrong state,     *)
(* year locked, unique key taken, version moved, or period closed.          *)
Refused(t) ==
  \/ /\ pc[t] = "read"
     /\ CASE job[t].op = "generate" -> \E p \in Period : Exists(p)
          [] job[t].op = "close" -> ~IsOpen(row[job[t].p])
          [] job[t].op = "closeFy" -> \A p \in Period : ~Exists(p)
          [] job[t].op = "reopen" -> ~Exists(job[t].p)
  \/ /\ pc[t] = "siblings"
     /\ (\A p \in Period : ~IsOpen(row[p])) \/ seen[t][job[t].p].status # "CLOSED"
  \/ /\ pc[t] = "write" /\ plan[t] # {} /\ Free(NextPeriod(t), t)
     /\ row[NextPeriod(t)].version # seen[t][NextPeriod(t)].version
  \/ /\ pc[t] = "lock" /\ plan[t] # {} /\ Free(NextPeriod(t), t)
     /\ ~IsOpen(row[NextPeriod(t)])

Rollback(t) == End(t) /\ UNCHANGED <<row, audited>>
Reject(t) == Refused(t) /\ Rollback(t)

(* An error of the database, a lost connection, a crash, or a post that     *)
(* fails further on.                                                        *)
Fail(t) == pc[t] # "idle" /\ Rollback(t)

DeadlockAbort(t) == OnWaitCycle(t, WaitsFor) /\ Rollback(t)

TxStep(t) ==
  \/ ReadForGenerate(t) \/ ReadForClose(t) \/ ReadForCloseFy(t)
  \/ ReadForReopen(t) \/ ReadSiblings(t) \/ Save(t) \/ AssertOpen(t)
  \/ Commit(t) \/ Reject(t)

Next ==
  \E t \in Tx :
     \/ \E o \in Ops, p, q \in Period : Begin(t, o, p, q)
     \/ TxStep(t) \/ Fail(t) \/ DeadlockAbort(t)

Spec == Init /\ [][Next]_vars

-----------------------------------------------------------------------------
(* Every change of status is stamped and audited exactly once: two closes   *)
(* of one period, or a close racing the close of the year, have one winner. *)
StatusAudited ==
  \A p \in Period :
     /\ row[p].status = "CLOSED" <=> row[p].closedBy # NoTx
     /\ audited[p].closes = audited[p].reopens + (IF row[p].closedBy # NoTx THEN 1 ELSE 0)
     /\ Exists(p) => row[p].version = 1 + audited[p].closes + audited[p].reopens

(* The set of periods is created once and whole (two concurrent generates   *)
(* included), and from then on a period alternates between open and closed, *)
(* one version each.                                                        *)
PeriodsAlternate ==
  [][ \/ (\A p \in Period : ~Exists(p)) /\ (\A p \in Period : row'[p] = Generated)
      \/ \A p \in Period : row'[p] # row[p] =>
            /\ Exists(p)
            /\ row'[p].version = row[p].version + 1
            /\ {row[p].status, row'[p].status} = {"OPEN", "CLOSED"}
    ]_row

(* A post that assertOpen admitted finds its periods open when it commits   *)
(* (test/period-control.int-spec.ts:157).                                   *)
AdmittedPostsStayOpen ==
  \A t \in Tx : pc[t] = "lock" =>
     \A p \in {job[t].p, job[t].q} \ plan[t] : IsOpen(row[p])

(* The year is closed in one order, so only a repost, which locks the       *)
(* original's period first, can be part of a deadlock.                      *)
OnlyRepostsDeadlock ==
  \A t \in Tx : OnWaitCycle(t, WaitsFor) =>
     \E u \in Tx : job[u].op = "repost" /\ Waiting(u)

(* Once every period of the year is closed the year is locked: none is      *)
(* reopened (reopen-period.use-case.ts:5, FR-PER-010).                      *)
YearLocked ==
  [][(\A p \in Period : row[p].status = "CLOSED") => row' = row]_row
=============================================================================
