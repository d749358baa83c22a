----------------------------- MODULE Collections -----------------------------
(* Collecting what a customer owes on one project: interim certificates     *)
(* (IPCs) bill it, receipts settle it or pay an advance, an IPC recovers a  *)
(* part of the advance and withholds a retention, which is released later.  *)
(* Three caps must hold together:                                           *)
(*   receipts applied to an IPC    <=  what the IPC says is due,            *)
(*   retention released            <=  the retention it withheld,           *)
(*   advance recovered by IPCs     <=  the advance received.                *)
(* Each use case locks its own voucher, reads the cap by plain SELECTs over *)
(* other rows, posts (modules Posting and LedgerBook), which locks the      *)
(* period, saves its rows, where a foreign key may have to wait for the     *)
(* IPC, and commits.                                                        *)
(*                                                                          *)
(* Amounts are whole units; VAT and tax are part of gross.  The advance     *)
(* account's balance is the posted receipts' less the posted IPCs', because *)
(* the ledger agrees with the vouchers (LedgerMatchesVouchers of Posting).  *)
EXTENDS Integers, FiniteSetsExt, RowLocks

CONSTANTS
  Ipc, Receipt,
  Month,       \* the accounting period the entries fall into
  Advance,     \* the target of a receipt into the advance account
  IpcInput,    \* the figures a client sends (or the rates give) for an IPC
  Amount,      \* the amounts of receipts and releases
  Tx,          \* the transactions that may be open at the same time
  NoTx,        \* the owner of a free row
  Ops          \* the kinds of request the clients make

Target == Ipc \cup {Advance}
LockedRow == Ipc \cup Receipt \cup {Month}
AllOps == {"postIpc", "cancelIpc", "repostIpc", "postReceipt", "cancelReceipt",
           "repostReceipt", "release"}

ASSUME TxValues == NoTx \notin Tx
ASSUME AdvanceValue == Advance \notin Ipc
ASSUME RowsDisjoint == Ipc \cap Receipt = {} /\ Month \notin Ipc \cup Receipt
ASSUME Inputs == IpcInput \subseteq [gross : Nat, retention : Nat, advance : Nat]
ASSUME Amounts == Amount \subseteq Nat \ {0}
ASSUME OpsAreRequests == Ops \subseteq AllOps

VARIABLES
  ipc,       \* [Ipc -> row]
  receipt,   \* [Receipt -> row]
  released,  \* [Ipc -> Nat]: the sum of the IPC's posted releases
  pc,        \* [Tx -> step]
  job,       \* [Tx -> request]
  seen,      \* [Tx -> Nat]: the figure t read last, at the end the cap
  owner      \* [LockedRow -> Tx]: the holder of the row lock

vars == <<ipc, receipt, released, pc, job, seen, owner>>
rows == <<ipc, receipt, released>>

Status == {"NONE", "DRAFT", "POSTED", "CANCELLED"}
NoIpc == [status |-> "NONE", gross |-> 0, retention |-> 0, advance |-> 0, due |-> 0]
NoReceipt == [status |-> "NONE", target |-> Advance, amount |-> 0]
NoInput == [gross |-> 0, retention |-> 0, advance |-> 0]
NoJob == [op |-> "none", doc |-> Advance, target |-> Advance, amount |-> 0, input |-> NoInput]

TypeOK ==
  /\ ipc \in [Ipc -> [status : Status, gross : Nat, retention : Nat, advance : Nat, due : Nat]]
  /\ receipt \in [Receipt -> [status : Status, target : Target, amount : Nat]]
  /\ released \in [Ipc -> Nat]
  /\ pc \in [Tx -> {"idle", "lock", "readIpc", "readDue", "readApplied",
                    "readReleased", "readAdvance", "post", "commit"}]
  /\ job \in [Tx -> [op : AllOps \cup {"none"}, doc : Target \cup Receipt,
                     target : Target, amount : Nat, input : IpcInput \cup {NoInput}]]
  /\ seen \in [Tx -> Nat]
  /\ owner \in [LockedRow -> Tx \cup {NoTx}]

-----------------------------------------------------------------------------
(* The sums and figures of the code.                                        *)
AtLeastZero(n) == IF n < 0 THEN 0 ELSE n
Lesser(a, b) == IF a < b THEN a ELSE b

PostedTo(x) == {r \in Receipt : receipt[r].status = "POSTED" /\ receipt[r].target = x}
Applied(x) == MapThenSumSet(LAMBDA r : receipt[r].amount, PostedTo(x))

Recovered ==
  MapThenSumSet(LAMBDA i : ipc[i].advance, {i \in Ipc : ipc[i].status = "POSTED"})

OutstandingOf(due, i) == AtLeastZero(due - Applied(i))
Outstanding(i) == OutstandingOf(ipc[i].due, i)

(* Mutant: the releases so far are not subtracted.                          *)
HeldOfRetention(retention, i) == retention

HeldOf(retention, i) == AtLeastZero(retention - released[i])

(* Mutant: the balance is not floored.                                      *)
RemainingUnfloored == Applied(Advance) - Recovered

RemainingAdvance == AtLeastZero(Applied(Advance) - Recovered)

(* The figures of an IPC: the advance is cut to what remains, the rest is   *)
(* due; a negative rest is refused.                                         *)
AdvanceOf(input, remaining) == Lesser(input.advance, remaining)
DueOf(input, remaining) == input.gross - input.retention - AdvanceOf(input, remaining)
Figures(input, remaining, s) ==
  [status |-> s, gross |-> input.gross, retention |-> input.retention,
   advance |-> AdvanceOf(input, remaining), due |-> DueOf(input, remaining)]

-----------------------------------------------------------------------------
Init ==
  /\ ipc = [i \in Ipc |-> NoIpc]
  /\ receipt = [r \in Receipt |-> NoReceipt]
  /\ released = [i \in Ipc |-> 0]
  /\ pc = [t \in Tx |-> "idle"]
  /\ job = [t \in Tx |-> NoJob]
  /\ seen = [t \in Tx |-> 0]
  /\ owner = [x \in LockedRow |-> NoTx]

(* A draft IPC is inserted or edited: its figures are computed over what    *)
(* remains of the advance now.  Posting checks the advance again, so one    *)
(* step is enough; the edit's guarded UPDATE needs the row free.            *)
SaveIpcDraft(i, input) ==
  /\ ipc[i].status \in {"NONE", "DRAFT"}
  /\ owner[i] = NoTx
  /\ DueOf(input, RemainingAdvance) >= 0
  /\ ipc' = [ipc EXCEPT ![i] = Figures(input, RemainingAdvance, "DRAFT")]
  /\ UNCHANGED <<receipt, released, pc, job, seen, owner>>

(* A draft receipt: the IPC must be posted and its outstanding cover the    *)
(* amount.  A new foreign key waits for a transaction that holds the IPC.   *)
SaveReceiptDraft(r, x, a) ==
  /\ receipt[r].status \in {"NONE", "DRAFT"}
  /\ owner[r] = NoTx
  /\ x \in Ipc => /\ ipc[x].status = "POSTED" /\ a <= Outstanding(x)
                  /\ x # receipt[r].target => owner[x] = NoTx
  /\ receipt' = [receipt EXCEPT ![r] = [status |-> "DRAFT", target |-> x, amount |-> a]]
  /\ UNCHANGED <<ipc, released, pc, job, seen, owner>>

-----------------------------------------------------------------------------
(* A client's request.  A release reads its IPC without a lock, every other *)
(* request locks its document.                                              *)
Begin(t, request) ==
  /\ request.op \in Ops
  /\ pc[t] = "idle"
  /\ pc' = [pc EXCEPT ![t] = IF request.op = "release" THEN "readIpc" ELSE "lock"]
  /\ job' = [job EXCEPT ![t] = request]
  /\ UNCHANGED <<rows, seen, owner>>

Requests ==
  LET On(o, d) == [NoJob EXCEPT !.op = o, !.doc = d] IN
  {On(o, i) : o \in {"postIpc", "cancelIpc"}, i \in Ipc}
    \cup {[On("repostIpc", i) EXCEPT !.input = f] : i \in Ipc, f \in IpcInput}
    \cup {On(o, r) : o \in {"postReceipt", "cancelReceipt"}, r \in Receipt}
    \cup {[On("repostReceipt", r) EXCEPT !.target = x, !.amount = a] :
              r \in Receipt, x \in Target, a \in Amount}
    \* amount 0: everything that is held
    \cup {[On("release", i) EXCEPT !.target = i, !.amount = a] :
              i \in Ipc, a \in Amount \cup {0}}

StatusOf(d) == IF d \in Ipc THEN ipc[d].status ELSE receipt[d].status
Posts(t) == job[t].op \in {"postIpc", "postReceipt"}
Eligible(t) == StatusOf(job[t].doc) = IF Posts(t) THEN "DRAFT" ELSE "POSTED"

(* What the request is about once its row is locked: a draft receipt keeps  *)
(* its own target and amount, a repost brings them.                         *)
Resolved(t) ==
  IF job[t].op = "postReceipt"
  THEN [job[t] EXCEPT !.target = receipt[job[t].doc].target,
                      !.amount = receipt[job[t].doc].amount]
  ELSE job[t]

AfterLock(t) ==
  IF job[t].op \in {"postIpc", "repostIpc"} THEN "readAdvance"
  ELSE IF job[t].op \in {"postReceipt", "repostReceipt"} /\ Resolved(t).target \in Ipc
  THEN "readIpc"
  ELSE "post"

(* findByIdForUpdate and the status check.                                  *)
LockDocument(t) ==
  LET d == job[t].doc IN
  /\ pc[t] = "lock"
  /\ Lockable(owner, d, t, NoTx)
  /\ Eligible(t)
  /\ owner' = Lock(owner, {d}, t)
  /\ job' = [job EXCEPT ![t] = Resolved(t)]
  /\ pc' = [pc EXCEPT ![t] = AfterLock(t)]
  /\ UNCHANGED <<rows, seen>>

-----------------------------------------------------------------------------
(* The caps, read by plain SELECTs: each sees what is committed then.       *)
Read(t, figure, next) ==
  /\ seen' = [seen EXCEPT ![t] = figure]
  /\ pc' = [pc EXCEPT ![t] = next]
  /\ UNCHANGED <<rows, owner>>

(* Mutant: the status of the IPC is not looked at.                          *)
ReadIpcAnyStatus(t) ==
  LET i == job[t].target IN
  /\ pc[t] = "readIpc"
  /\ IF job[t].op = "release"
     THEN Read(t, ipc[i].retention, "readReleased")
     ELSE Read(t, 0, "readDue")
  /\ UNCHANGED job

(* findPostedIpc, or findById of a release, which also gives the retention. *)
ReadIpc(t) ==
  LET i == job[t].target IN
  /\ pc[t] = "readIpc"
  /\ ipc[i].status = "POSTED"
  /\ IF job[t].op = "release"
     THEN Read(t, ipc[i].retention, "readReleased")
     ELSE Read(t, 0, "readDue")
  /\ UNCHANGED job

(* outstandingForIpc: the IPC once more, then the sum over its receipts (a  *)
(* repost's own receipt is among them), then assertWithinOutstanding.       *)
ReadDue(t) ==
  /\ pc[t] = "readDue"
  /\ Read(t, ipc[job[t].target].due, "readApplied")
  /\ UNCHANGED job

(* Mutant: the cap of the draft is trusted.                                 *)
ReadAppliedUnchecked(t) ==
  /\ pc[t] = "readApplied"
  /\ Read(t, OutstandingOf(seen[t], job[t].target), "post")
  /\ UNCHANGED job

ReadApplied(t) ==
  LET cap == OutstandingOf(seen[t], job[t].target) IN
  /\ pc[t] = "readApplied"
  /\ job[t].amount <= cap
  /\ Read(t, cap, "post")
  /\ UNCHANGED job

(* sumPostedReleasedForIpc; an omitted amount is everything that is held.   *)
ReleaseAmount(t, held) == IF job[t].amount = 0 THEN held ELSE job[t].amount

ReadReleased(t) ==
  LET held == HeldOf(seen[t], job[t].target)
      a == ReleaseAmount(t, held)
  IN
  /\ pc[t] = "readReleased"
  /\ 0 < a /\ a <= held
  /\ job' = [job EXCEPT ![t].amount = a]
  /\ Read(t, held, "post")

(* Mutant: the recovery of the draft is trusted.                            *)
AdvanceFitsDraft(t) ==
  job[t].op = "postIpc" \/ DueOf(job[t].input, RemainingAdvance) >= 0

(* remainingAdvance: a post refuses to recover more, a repost computes its  *)
(* figures over it (the advance its own IPC recovered is not given back     *)
(* first).                                                                  *)
AdvanceFits(t) ==
  IF job[t].op = "postIpc" THEN ipc[job[t].doc].advance <= RemainingAdvance
  ELSE DueOf(job[t].input, RemainingAdvance) >= 0

ReadAdvance(t) ==
  /\ pc[t] = "readAdvance"
  /\ AdvanceFits(t)
  /\ Read(t, RemainingAdvance, "post")
  /\ UNCHANGED job

-----------------------------------------------------------------------------
(* The posting service locks the period and writes the entry.               *)
PostEntry(t) ==
  /\ pc[t] = "post"
  /\ Lockable(owner, Month, t, NoTx)
  /\ owner' = Lock(owner, {Month}, t)
  /\ pc' = [pc EXCEPT ![t] = "commit"]
  /\ UNCHANGED <<rows, job, seen>>


(* The document is saved (markPosted, markCancelled) or the release         *)
(* inserted, and the transaction commits.  A foreign key that is written    *)
(* or changed waits for a transaction that holds the IPC, and reads nothing *)
(* of it.                                                                   *)
NewReference(t) ==
  IF job[t].op = "release" THEN {job[t].target}
  ELSE IF job[t].op = "repostReceipt" THEN {job[t].target} \ {receipt[job[t].doc].target, Advance}
  ELSE {}

ReferencesFree(t) == \A i \in NewReference(t) : owner[i] \in {t, NoTx}

(* The rows a transaction has to wait for.                                  *)
NextRows(t) ==
  IF pc[t] = "lock" THEN {job[t].doc}
  ELSE IF pc[t] = "post" THEN {Month}
  ELSE IF pc[t] = "commit" THEN NewReference(t)
  ELSE {}

WaitsFor == {e \in Tx \X Tx : e[1] # e[2] /\ \E x \in NextRows(e[1]) : owner[x] = e[2]}

End(t) ==
  /\ pc' = [pc EXCEPT ![t] = "idle"]
  /\ job' = [job EXCEPT ![t] = NoJob]
  /\ seen' = [seen EXCEPT ![t] = 0]
  /\ owner' = Release(owner, t, NoTx)

CommitIpc(t) ==
  LET i == job[t].doc IN
  /\ pc[t] = "commit"
  /\ \/ /\ job[t].op = "postIpc"
        /\ ipc' = [ipc EXCEPT ![i].status = "POSTED"]
     \/ /\ job[t].op = "cancelIpc"
        /\ ipc' = [ipc EXCEPT ![i].status = "CANCELLED"]
     \/ /\ job[t].op = "repostIpc"
        /\ ipc' = [ipc EXCEPT ![i] = Figures(job[t].input, seen[t], "POSTED")]
  /\ End(t)
  /\ UNCHANGED <<receipt, released>>

CommitReceipt(t) ==
  LET r == job[t].doc IN
  /\ pc[t] = "commit"
  /\ ReferencesFree(t)
  /\ \/ /\ job[t].op \in {"postReceipt", "repostReceipt"}
        /\ receipt' = [receipt EXCEPT ![r] =
                         [status |-> "POSTED", target |-> job[t].target, amount |-> job[t].amount]]
     \/ /\ job[t].op = "cancelReceipt"
        /\ receipt' = [receipt EXCEPT ![r].status = "CANCELLED"]
  /\ End(t)
  /\ UNCHANGED <<ipc, released>>

CommitRelease(t) ==
  LET i == job[t].doc IN
  /\ pc[t] = "commit"
  /\ job[t].op = "release"
  /\ ReferencesFree(t)
  /\ released' = [released EXCEPT ![i] = @ + job[t].amount]
  /\ End(t)
  /\ UNCHANGED <<ipc, receipt>>

Refused(t) ==
  \/ pc[t] = "lock" /\ Lockable(owner, job[t].doc, t, NoTx) /\ ~Eligible(t)
  \/ pc[t] = "readIpc" /\ ipc[job[t].target].status # "POSTED"
  \/ pc[t] = "readApplied" /\ job[t].amount > OutstandingOf(seen[t], job[t].target)
  \/ /\ pc[t] = "readReleased"
     /\ LET held == HeldOf(seen[t], job[t].target)
        IN  ReleaseAmount(t, held) \notin 1 .. held
  \/ pc[t] = "readAdvance" /\ ~AdvanceFits(t)

Reject(t) == Refused(t) /\ End(t) /\ UNCHANGED rows

(* A closed period, a tag, an error of the database, a crash.               *)
Fail(t) == pc[t] # "idle" /\ End(t) /\ UNCHANGED rows

DeadlockAbort(t) == OnWaitCycle(t, WaitsFor) /\ End(t) /\ UNCHANGED rows

Next ==
  \/ \E i \in Ipc, f \in IpcInput : SaveIpcDraft(i, f)
  \/ \E r \in Receipt, x \in Target, a \in Amount : SaveReceiptDraft(r, x, a)
  \/ \E t \in Tx :
        \/ \E q \in Requests : Begin(t, q)
        \/ LockDocument(t) \/ ReadIpc(t) \/ ReadDue(t) \/ ReadApplied(t)
        \/ ReadReleased(t) \/ ReadAdvance(t) \/ PostEntry(t)
        \/ CommitIpc(t) \/ CommitReceipt(t) \/ CommitRelease(t)
        \/ Reject(t) \/ Fail(t) \/ DeadlockAbort(t)

Spec == Init /\ [][Next]_vars

-----------------------------------------------------------------------------
(* The step commits transaction t, with one of the given requests.          *)
Commits(t, ops) == pc[t] = "commit" /\ job[t].op \in ops

(* Whatever a receipt or a release was booked against had been certified:   *)
(* an IPC that takes a settlement is posted, or was and got cancelled later *)
(* (the IPC corrections look at no receipt and no release; the receipts     *)
(* read the IPC's status without a lock).                                   *)
SettledIpcWasPosted ==
  \A i \in Ipc :
     PostedTo(i) # {} \/ released[i] > 0 => ipc[i].status \in {"POSTED", "CANCELLED"}

(* An IPC gets over-collected only when a correction lowers what is due, or *)
(* by a receipt whose cap was out of date when it committed: the sum of     *)
(* outstandingForIpc, rebuilt at every post, never drifts by itself.        *)
OverCollected(i) == Applied(i) > ipc[i].due

OnlyStaleOverCollects ==
  [][\A i \in Ipc : ~OverCollected(i) /\ OverCollected(i)' =>
       \/ ipc'[i].due < ipc[i].due
       \/ \E t \in Tx : /\ Commits(t, {"postReceipt", "repostReceipt"})
                        /\ job[t].target = i
                        /\ seen[t] # Outstanding(i)
    ]_vars

(* More retention is released than was withheld only when a correction      *)
(* lowers the retention, or by a release whose held figure was out of date. *)
OverReleased(i) == released[i] > ipc[i].retention

OnlyStaleOverReleases ==
  [][\A i \in Ipc : ~OverReleased(i) /\ OverReleased(i)' =>
       \/ ipc'[i].retention < ipc[i].retention
       \/ \E t \in Tx : /\ Commits(t, {"release"})
                        /\ job[t].target = i
                        /\ seen[t] # HeldOf(ipc[i].retention, i)
    ]_vars

(* The advance account goes negative only when an advance receipt is        *)
(* withdrawn after its money was recovered, or by an IPC that read another  *)
(* balance than the one it commits into.                                    *)
OverRecovered == Recovered > Applied(Advance)

OnlyStaleOverRecovers ==
  [][~OverRecovered /\ OverRecovered' =>
       \/ Applied(Advance)' < Applied(Advance)
       \/ \E t \in Tx : /\ Commits(t, {"postIpc", "repostIpc"})
                        /\ seen[t] # RemainingAdvance
    ]_vars


(* Receipts alone, no IPC corrected meanwhile: the cap is re-checked inside *)
(* the post transaction, for the case of two receipts racing one IPC        *)
(* (post-receipt.usecase.ts:57-58).                                         *)
NeverOverCollected == \A i \in Ipc : ~OverCollected(i)
=============================================================================
