---------------------------- MODULE StockLedger ----------------------------
(* Stock on hand, by pair of godown and item, and the documents that move   *)
(* it: purchase bills receive, requisition issues consume, stock journals   *)
(* issue, transfer or adjust, and each of them can be taken back.  A pair   *)
(* carries a quantity and a total value; the average rate is their ratio,   *)
(* and an issue is valued at it when it is posted.  Three books must agree: *)
(* the running balance of each pair (stock_balance), the movements behind   *)
(* it (stock_movement) and the inventory account of the ledger.             *)
(*                                                                          *)
(* A request locks its document, then one pair after another in the order   *)
(* of the lines, rolls each balance, posts (module Posting) and commits.    *)
(*                                                                          *)
(* Quantities are whole units, values whole ten-thousandths, the scale the  *)
(* code rounds to.  The inventory account is what the posted documents say, *)
(* because the ledger agrees with them (LedgerMatchesVouchers of Posting).  *)
(* Purchase orders and requisitions are other modules' matter: a bill and   *)
(* an issue stand here with their lines only.                               *)
EXTENDS Integers, Sequences, FiniteSetsExt, Functions, RowLocks

CONSTANTS
  Pair, Bill, Issue, Journal,
  BillInput,     \* the lines a client sends for a bill, with their amounts
  IssueInput,    \* the lines of an issue
  JournalInput,  \* the sides of a journal, the out side first
  Month,         \* the accounting period the entries fall into
  MaxReposts,    \* the bound on the reposts of a bill, for model checking
  Tx,            \* the transactions that may be open at the same time
  NoTx,          \* the owner of a free row
  Ops            \* the kinds of request the clients make

Doc == Bill \cup Issue \cup Journal
LockedRow == Doc \cup Pair \cup {Month}
AllOps == {"postBill", "cancelBill", "repostBill", "postIssue", "reverseIssue",
           "postJournal", "reverseJournal"}

Line == [pair : Pair, side : {"in", "out"}, qty : Nat \ {0}, value : Nat]

ASSUME TxValues == NoTx \notin Tx
ASSUME RowsDisjoint ==
  /\ Bill \cap Issue = {} /\ (Bill \cup Issue) \cap Journal = {}
  /\ Doc \cap Pair = {} /\ Month \notin Doc \cup Pair
ASSUME BillLines ==
  \A f \in BillInput : f \in Seq(Line) /\ f # <<>> /\ \A k \in DOMAIN f : f[k].side = "in"
ASSUME IssueLines ==
  \A f \in IssueInput : f \in Seq(Line) /\ f # <<>> /\ \A k \in DOMAIN f : f[k].side = "out"
ASSUME JournalLines ==
  \A f \in JournalInput :
     /\ f \in Seq(Line)
     /\ \/ Len(f) = 1
        \/ Len(f) = 2 /\ f[1].side = "out" /\ f[2].side = "in" /\ f[1].qty = f[2].qty
ASSUME MaxRepostsNat == MaxReposts \in Nat
ASSUME OpsAreRequests == Ops \subseteq AllOps

VARIABLES
  balance,  \* [Pair -> the running balance]
  moved,    \* [Pair -> the signed sum of the values of its movements]
  doc,      \* [Doc -> the document]
  pc,       \* [Tx -> step]
  job,      \* [Tx -> request]
  plan,     \* [Tx -> the movements the request makes, in their order]
  sent,     \* [Tx -> the values of the movements made so far]
  mine,     \* [Tx -> the balances t has locked, as t rolled them]
  owner     \* [LockedRow -> Tx]: the holder of the row lock

vars == <<balance, moved, doc, pc, job, plan, sent, mine, owner>>
books == <<balance, moved, doc>>

(* short is history: the balance has been below zero, some issue or         *)
(* withdrawal having been allowed to overdraw it.                           *)
Balance == [qty : Int, value : Int, short : BOOLEAN]
Empty == [qty |-> 0, value |-> 0, short |-> FALSE]

(* The ways a movement is valued: a receipt or a restored issue comes in at *)
(* a known value, a transfer at the value that left, an issue leaves at the *)
(* average, so does a receipt that is undone; the mirror of a journal's in  *)
(* side leaves at the average too and is recorded at its old value.         *)
Way == {"in", "carry", "out", "undo", "mirror"}
Move == [pair : Pair, way : Way, qty : Nat \ {0}, value : Nat]

NoDoc == [status |-> "NONE", lines |-> <<>>, reposts |-> 0]
NoJob == [op |-> "none", doc |-> Month, lines |-> <<>>, short |-> FALSE]

TypeOK ==
  /\ balance \in [Pair -> Balance]
  /\ moved \in [Pair -> Int]
  /\ doc \in [Doc -> [status : {"NONE", "DRAFT", "APPROVED", "POSTED", "CANCELLED"},
                      lines : Seq(Line), reposts : 0 .. MaxReposts]]
  /\ pc \in [Tx -> {"idle", "lock", "move", "post", "commit"}]
  /\ job \in [Tx -> [op : AllOps \cup {"none"}, doc : Doc \cup {Month},
                     lines : Seq(Line), short : BOOLEAN]]
  /\ plan \in [Tx -> Seq(Move)]
  /\ sent \in [Tx -> Seq(Nat)]
  /\ \A t \in Tx : DOMAIN mine[t] \subseteq Pair /\ \A p \in DOMAIN mine[t] : mine[t][p] \in Balance
  /\ owner \in [LockedRow -> Tx \cup {NoTx}]

-----------------------------------------------------------------------------
(* Valuation.                                                               *)

(* n / d to the nearest whole, halves up.                                   *)
RoundedDiv(n, d) == (2 * n + d) \div (2 * d)
Magnitude(n) == IF n < 0 THEN -n ELSE n

(* Mutant: the rate is rounded before it is multiplied.                     *)
ValueOfRounded(b, q) ==
  IF q = b.qty THEN b.value
  ELSE IF b.qty = 0 THEN 0
  ELSE LET share == q * RoundedDiv(Magnitude(b.value), Magnitude(b.qty))
       IN  IF (b.value < 0) # (b.qty < 0) THEN -share ELSE share

(* valueIssue: the share q of the balance's value; the whole balance leaves *)
(* with the whole value, an empty one gives nothing.                        *)
ValueOf(b, q) ==
  IF q = b.qty THEN b.value
  ELSE IF b.qty = 0 THEN 0
  ELSE LET share == RoundedDiv(q * Magnitude(b.value), Magnitude(b.qty))
       IN  IF (b.value < 0) # (b.qty < 0) THEN -share ELSE share

(* A movement's value may not be negative, and decimal.js calls the zero it *)
(* gets from a zero value over a negative quantity negative.                *)
ValuedBelowZero(b) ==
  \/ b.value < 0 /\ b.qty > 0
  \/ b.value >= 0 /\ b.qty < 0

Received(b, q, v) == [b EXCEPT !.qty = @ + q, !.value = @ + v]
Issued(b, q) ==
  [qty |-> b.qty - q, value |-> b.value - ValueOf(b, q), short |-> b.short \/ b.qty < q]

-----------------------------------------------------------------------------
(* The movements of a request.                                              *)
By(way, l) == [pair |-> l.pair, way |-> way, qty |-> l.qty, value |-> l.value]
All(way, lines) == [k \in DOMAIN lines |-> By(way, lines[k])]

Posted(lines) ==
  [k \in DOMAIN lines |-> By(IF lines[k].side = "out" THEN "out" ELSE "carry", lines[k])]
Mirrored(lines) ==
  [k \in DOMAIN lines |-> By(IF lines[k].side = "out" THEN "in" ELSE "mirror", lines[k])]

(* Bills and journals are loaded in the order of their lines, an issue in   *)
(* any order.                                                               *)
AnyOrder(lines) ==
  {[k \in DOMAIN lines |-> lines[p[k]]] : p \in Bijection(DOMAIN lines, DOMAIN lines)}

Plans(j) ==
  LET lines == doc[j.doc].lines IN
  IF j.op = "postBill" THEN {All("in", lines)}
  ELSE IF j.op = "cancelBill" THEN {All("undo", lines)}
  ELSE IF j.op = "repostBill" THEN {All("undo", lines) \o All("in", j.lines)}
  ELSE IF j.op = "postIssue" THEN {All("out", j.lines)}
  ELSE IF j.op = "reverseIssue" THEN {All("in", l) : l \in AnyOrder(lines)}
  ELSE IF j.op = "postJournal" THEN {Posted(lines)}
  ELSE {Mirrored(lines)}

(* The status the document must have.                                       *)
Needed(op) ==
  IF op = "postIssue" THEN "NONE"
  ELSE IF op = "postBill" THEN "DRAFT"
  ELSE IF op = "postJournal" THEN "APPROVED"
  ELSE "POSTED"

(* Only a journal that takes stock out and puts it nowhere has an entry.    *)
HasEntry(d) ==
  d \in Journal => Len(doc[d].lines) = 1 /\ doc[d].lines[1].side = "out"

-----------------------------------------------------------------------------
Init ==
  /\ balance = [p \in Pair |-> Empty]
  /\ moved = [p \in Pair |-> 0]
  /\ doc = [d \in Doc |-> NoDoc]
  /\ pc = [t \in Tx |-> "idle"]
  /\ job = [t \in Tx |-> NoJob]
  /\ plan = [t \in Tx |-> <<>>]
  /\ sent = [t \in Tx |-> <<>>]
  /\ mine = [t \in Tx |-> <<>>]
  /\ owner = [r \in LockedRow |-> NoTx]

(* A bill is created or a draft of it edited.                               *)
SaveBillDraft(b, lines) ==
  /\ doc[b].status \in {"NONE", "DRAFT"}
  /\ owner[b] = NoTx
  /\ doc' = [doc EXCEPT ![b] = [NoDoc EXCEPT !.status = "DRAFT", !.lines = lines]]
  /\ UNCHANGED <<balance, moved, pc, job, plan, sent, mine, owner>>

SaveJournalDraft(j, lines) ==
  /\ doc[j].status \in {"NONE", "DRAFT"}
  /\ owner[j] = NoTx
  /\ doc' = [doc EXCEPT ![j] = [NoDoc EXCEPT !.status = "DRAFT", !.lines = lines]]
  /\ UNCHANGED <<balance, moved, pc, job, plan, sent, mine, owner>>

ApproveJournal(d) ==
  /\ doc[d].status = "DRAFT"
  /\ owner[d] = NoTx
  /\ doc' = [doc EXCEPT ![d].status = "APPROVED"]
  /\ UNCHANGED <<balance, moved, pc, job, plan, sent, mine, owner>>

DeleteJournal(d) ==
  /\ doc[d].status = "DRAFT"
  /\ owner[d] = NoTx
  /\ doc' = [doc EXCEPT ![d] = NoDoc]
  /\ UNCHANGED <<balance, moved, pc, job, plan, sent, mine, owner>>

-----------------------------------------------------------------------------
Requests ==
  LET On(op, d) == [NoJob EXCEPT !.op = op, !.doc = d] IN
  {On(op, b) : op \in {"postBill", "cancelBill"}, b \in Bill}
    \cup {[On("repostBill", b) EXCEPT !.lines = f] : b \in Bill, f \in BillInput}
    \cup {[On("postIssue", i) EXCEPT !.lines = f, !.short = s] :
              i \in Issue, f \in IssueInput, s \in BOOLEAN}
    \cup {On("reverseIssue", i) : i \in Issue}
    \cup {[On("postJournal", j) EXCEPT !.short = s] : j \in Journal, s \in BOOLEAN}
    \cup {On("reverseJournal", j) : j \in Journal}

Begin(t, request) ==
  /\ request.op \in Ops
  /\ pc[t] = "idle"
  /\ pc' = [pc EXCEPT ![t] = "lock"]
  /\ job' = [job EXCEPT ![t] = request]
  /\ UNCHANGED <<books, plan, sent, mine, owner>>

Eligible(t) == doc[job[t].doc].status = Needed(job[t].op)


(* findByIdForUpdate and the status check.  A bill is reposted at most      *)
(* MaxReposts times.                                                        *)
LockDocument(t) ==
  /\ pc[t] = "lock"
  /\ job[t].op = "repostBill" => doc[job[t].doc].reposts < MaxReposts
  /\ Lockable(owner, job[t].doc, t, NoTx)
  /\ Eligible(t)
  /\ owner' = Lock(owner, {job[t].doc}, t)
  /\ \E p \in Plans(job[t]) : plan' = [plan EXCEPT ![t] = p]
  /\ pc' = [pc EXCEPT ![t] = "move"]
  /\ UNCHANGED <<books, job, sent, mine>>

(* The movement that is due, the balance t sees, and what it is worth.      *)
Due(t) == plan[t][Len(sent[t]) + 1]
View(t, p) == IF p \in DOMAIN mine[t] THEN mine[t][p] ELSE balance[p]

(* Mutant: an issue is restored at the average of the day.                  *)
WorthAtAverage(t) ==
  LET m == Due(t)
      b == View(t, m.pair)
  IN  IF m.way = "in" /\ job[t].op # "reverseIssue" THEN m.value
      ELSE IF m.way = "carry" THEN IF sent[t] = <<>> THEN 0 ELSE sent[t][Len(sent[t])]
      ELSE ValueOf(b, m.qty)

Worth(t) ==
  LET m == Due(t)
      b == View(t, m.pair)
  IN  IF m.way = "in" THEN m.value
      ELSE IF m.way = "carry" THEN IF sent[t] = <<>> THEN 0 ELSE sent[t][Len(sent[t])]
      ELSE ValueOf(b, m.qty)

(* Mutant: the value of the movement is not looked at.                      *)
RefusableShortOnly(t) ==
  /\ Due(t).way = "out"
  /\ Due(t).qty > View(t, Due(t).pair).qty
  /\ ~job[t].short

(* valueIssue and the movement refuse to overdraw without an authorisation, *)
(* and to record a value below zero.                                        *)
Refusable(t) ==
  LET m == Due(t)
      b == View(t, m.pair)
  IN  \/ m.way = "out" /\ m.qty > b.qty /\ ~job[t].short
      \/ m.way \in {"out", "undo"} /\ ValuedBelowZero(b)

(* One more movement is made: the balance of its pair is rolled.            *)
Rolled(t) ==
  LET m == Due(t)
      b == View(t, m.pair)
  IN  IF m.way \in {"in", "carry"} THEN Received(b, m.qty, Worth(t)) ELSE Issued(b, m.qty)

(* The balances t holds then.                                               *)
Held(t) ==
  [p \in DOMAIN mine[t] \cup {Due(t).pair} |->
     IF p = Due(t).pair THEN Rolled(t) ELSE mine[t][p]]

(* Mutant: an undone receipt is recorded at the amount billed.              *)
RecordedAsBilled(t) == IF Due(t).way \in {"undo", "mirror"} THEN Due(t).value ELSE Worth(t)

(* What the movement records.                                               *)
Recorded(t) == IF Due(t).way = "mirror" THEN Due(t).value ELSE Worth(t)

AfterMove(t) ==
  IF Len(sent[t]) + 1 < Len(plan[t]) THEN "move"
  ELSE IF HasEntry(job[t].doc) THEN "post"
  ELSE "commit"

(* Mutant: the balance is read without a lock.                              *)
MovePlainRead(t) ==
  /\ pc[t] = "move"
  /\ ~Refusable(t)
  /\ mine' = [mine EXCEPT ![t] = Held(t)]
  /\ sent' = [sent EXCEPT ![t] = Append(@, Recorded(t))]
  /\ pc' = [pc EXCEPT ![t] = AfterMove(t)]
  /\ UNCHANGED <<books, job, plan, owner>>

(* currentBalanceForUpdate, the valuation and append.                       *)
MakeMove(t) ==
  /\ pc[t] = "move"
  /\ Lockable(owner, Due(t).pair, t, NoTx)
  /\ ~Refusable(t)
  /\ owner' = Lock(owner, {Due(t).pair}, t)
  /\ mine' = [mine EXCEPT ![t] = Held(t)]
  /\ sent' = [sent EXCEPT ![t] = Append(@, Recorded(t))]
  /\ pc' = [pc EXCEPT ![t] = AfterMove(t)]
  /\ UNCHANGED <<books, job, plan>>

-----------------------------------------------------------------------------
(* The posting service refuses a line of zero; a reversal mirrors an entry  *)
(* that exists.                                                             *)
Postable(t) ==
  \/ job[t].op \in {"cancelBill", "reverseIssue", "reverseJournal"}
  \/ \A k \in DOMAIN plan[t] : plan[t][k].way # "undo" => sent[t][k] > 0

(* The posting service locks the period and writes the entry.               *)
PostEntry(t) ==
  /\ pc[t] = "post"
  /\ Lockable(owner, Month, t, NoTx)
  /\ Postable(t)
  /\ owner' = Lock(owner, {Month}, t)
  /\ pc' = [pc EXCEPT ![t] = "commit"]
  /\ UNCHANGED <<books, job, plan, sent, mine>>

(* The lines of the document as they are saved: an issue and a journal keep *)
(* the values their stock left at.                                          *)
Valued(t, lines) == [k \in DOMAIN lines |-> [lines[k] EXCEPT !.value = sent[t][k]]]

Saved(t) ==
  LET d == doc[job[t].doc] IN
  IF job[t].op = "postBill" THEN [d EXCEPT !.status = "POSTED"]
  ELSE IF job[t].op = "repostBill" THEN [d EXCEPT !.lines = job[t].lines, !.reposts = @ + 1]
  ELSE IF job[t].op = "postIssue" THEN [d EXCEPT !.status = "POSTED", !.lines = Valued(t, job[t].lines)]
  ELSE IF job[t].op = "postJournal" THEN [d EXCEPT !.status = "POSTED", !.lines = Valued(t, d.lines)]
  ELSE [d EXCEPT !.status = "CANCELLED"]

(* The movements t made at pair p, signed.                                  *)
MovesAt(t, p) == {k \in DOMAIN plan[t] : plan[t][k].pair = p}
Movement(t, k) == IF plan[t][k].way \in {"in", "carry"} THEN sent[t][k] ELSE -sent[t][k]

End(t) ==
  /\ pc' = [pc EXCEPT ![t] = "idle"]
  /\ job' = [job EXCEPT ![t] = NoJob]
  /\ plan' = [plan EXCEPT ![t] = <<>>]
  /\ sent' = [sent EXCEPT ![t] = <<>>]
  /\ mine' = [mine EXCEPT ![t] = <<>>]
  /\ owner' = Release(owner, t, NoTx)

Commit(t) ==
  /\ pc[t] = "commit"
  /\ balance' = [p \in Pair |-> View(t, p)]
  /\ moved' = [p \in Pair |-> moved[p] + MapThenSumSet(LAMBDA k : Movement(t, k), MovesAt(t, p))]
  /\ doc' = [doc EXCEPT ![job[t].doc] = Saved(t)]
  /\ End(t)

Refused(t) ==
  \/ pc[t] = "lock" /\ Lockable(owner, job[t].doc, t, NoTx) /\ ~Eligible(t)
  \/ pc[t] = "move" /\ Lockable(owner, Due(t).pair, t, NoTx) /\ Refusable(t)
  \/ pc[t] = "post" /\ Lockable(owner, Month, t, NoTx) /\ ~Postable(t)

Reject(t) == Refused(t) /\ End(t) /\ UNCHANGED books

(* A closed period, a tag, an error of the database, a crash.               *)
Fail(t) == pc[t] # "idle" /\ End(t) /\ UNCHANGED books

(* The row a transaction has to wait for.                                   *)
NextRow(t) ==
  IF pc[t] = "lock" THEN {job[t].doc}
  ELSE IF pc[t] = "move" THEN {Due(t).pair}
  ELSE IF pc[t] = "post" THEN {Month}
  ELSE {}

WaitsFor == {e \in Tx \X Tx : e[1] # e[2] /\ \E r \in NextRow(e[1]) : owner[r] = e[2]}

DeadlockAbort(t) == OnWaitCycle(t, WaitsFor) /\ End(t) /\ UNCHANGED books

Next ==
  \/ \E b \in Bill, f \in BillInput : SaveBillDraft(b, f)
  \/ \E j \in Journal, f \in JournalInput : SaveJournalDraft(j, f)
  \/ \E j \in Journal : ApproveJournal(j) \/ DeleteJournal(j)
  \/ \E t \in Tx :
        \/ \E q \in Requests : Begin(t, q)
        \/ LockDocument(t) \/ MakeMove(t) \/ PostEntry(t) \/ Commit(t)
        \/ Reject(t) \/ Fail(t) \/ DeadlockAbort(t)

Spec == Init /\ [][Next]_vars

-----------------------------------------------------------------------------
(* The posted documents' lines.                                             *)
PostedLines == {<<d, k>> \in Doc \X (1 .. 2) :
                  doc[d].status = "POSTED" /\ k \in DOMAIN doc[d].lines}
LineAt(e) == doc[e[1]].lines[e[2]]
Signed(l, n) == IF l.side = "in" THEN n ELSE -n

(* The inventory account of the ledger.                                     *)
InventoryAccount == MapThenSumSet(LAMBDA e : Signed(LineAt(e), LineAt(e).value), PostedLines)
StockValue == MapThenSumSet(LAMBDA p : balance[p].value, Pair)

(* The quantity on hand of a pair is what the posted documents brought less *)
(* what they took: no concurrent post is lost, whatever was reversed.       *)
StockMatchesDocuments ==
  \A p \in Pair :
     balance[p].qty = MapThenSumSet(LAMBDA e : Signed(LineAt(e), LineAt(e).qty),
                                    {e \in PostedLines : LineAt(e).pair = p})

(* As long as nothing overdrew a pair, its quantity and its value are not   *)
(* negative, and an empty pair is worth nothing: no rounding dust, no       *)
(* receipt undone, no issue restored makes them part.                       *)
SoundUntilShort ==
  \A p \in Pair : ~balance[p].short =>
     /\ balance[p].qty >= 0 /\ balance[p].value >= 0
     /\ (balance[p].qty = 0 => balance[p].value = 0)

(* The movements of a pair add up to its running value, unless a journal    *)
(* that brought stock into it was reversed: that mirror is recorded at the  *)
(* value it came in at and taken off at the average.                        *)
MovementsAddUp ==
  \A p \in Pair :
     \/ moved[p] = balance[p].value
     \/ \E j \in Journal : /\ doc[j].status = "CANCELLED"
                           /\ \E k \in DOMAIN doc[j].lines :
                                 doc[j].lines[k].pair = p /\ doc[j].lines[k].side = "in"

(* Stock and inventory account part only when received stock is taken back: *)
(* a bill cancelled or reposted, or a journal reversed that had an in side. *)
OnlyUndoneReceiptsDrift ==
  [][(StockValue - InventoryAccount)' # StockValue - InventoryAccount =>
       \E t \in Tx : pc[t] = "commit" /\ \E k \in DOMAIN plan[t] : plan[t][k].way \in {"undo", "mirror"}
    ]_vars


(* The stock ledger's total value is the inventory account's balance        *)
(* (test/inventory-stock-journal.int-spec.ts:17-18).                        *)
Reconciled == StockValue = InventoryAccount
=============================================================================
