------------------------------ MODULE Numbering ------------------------------
(* The numbering series rows: one per voucher type and financial year.     *)
(* NumberingService.next locks the row inside the post's transaction and    *)
(* increments it, and provisions the row first when it is missing, under a  *)
(* savepoint because another transaction may be doing the same.  Admins     *)
(* create a series or change its prefix meanwhile.                          *)
(*                                                                          *)
(* Modules LedgerBook and Posting take a series as a counter that exists    *)
(* from the start; this module shows why they may.                          *)
EXTENDS Naturals, Sequences, FiniteSets, RowLocks

CONSTANTS
  Key,         \* the (voucher type, financial year) pairs
  Prefix,      \* the prefixes a series can have
  DefaultPrefix,
  Tx,          \* the transactions that may be open at the same time
  NoTx,        \* the owner of a free row
  MaxSeq,      \* bound: draws start below it
  MaxVersion   \* bound: so do changes of a prefix

ASSUME TxValues == NoTx \notin Tx
ASSUME DefaultIsPrefix == DefaultPrefix \in Prefix
ASSUME Bounds == MaxSeq \in Nat /\ MaxVersion \in Nat

VARIABLES
  row,      \* [Key -> Row]: the committed series, version 0 when missing
  issued,   \* the committed numbers
  applied,  \* [Key -> set of versions]: the versions admins changed
  pc,       \* [Tx -> step]
  job,      \* [Tx -> Job]: the request
  mine,     \* [Tx -> [Key -> Row]]: the rows t wrote, version 0 otherwise
  drawn,    \* [Tx -> sequence of numbers]: drawn, not committed
  owner     \* [Key -> Tx]: the holder of the row, or of its unique key

vars == <<row, issued, applied, pc, job, mine, drawn, owner>>

Row == [seq : Nat, prefix : Prefix, version : Nat]
Missing == [seq |-> 0, prefix |-> DefaultPrefix, version |-> 0]
Number == [key : Key, prefix : Prefix, seq : Nat]
Job ==
  [op : {"none", "draw", "create", "update"}, keys : Seq(Key), prefix : Prefix, version : Nat]
NoJob == [op |-> "none", keys |-> <<>>, prefix |-> DefaultPrefix, version |-> 0]

TypeOK ==
  /\ row \in [Key -> Row]
  /\ issued \subseteq Number
  /\ applied \in [Key -> SUBSET Nat]
  /\ pc \in [Tx -> {"idle", "lock", "provision", "relock", "insert", "read", "update", "commit"}]
  /\ job \in [Tx -> Job]
  /\ mine \in [Tx -> [Key -> Row]]
  /\ drawn \in [Tx -> Seq(Number)]
  /\ owner \in [Key -> Tx \cup {NoTx}]
  /\ \A t \in Tx, k \in Key : mine[t][k] # Missing => owner[k] = t

-----------------------------------------------------------------------------
Free(k, t) == Lockable(owner, k, t, NoTx)
K(t) == Head(job[t].keys)

(* The row as t sees it: its own write, else what is committed.             *)
Seen(t, k) == IF mine[t][k].version > 0 THEN mine[t][k] ELSE row[k]
Visible(t, k) == Seen(t, k).version > 0

WaitsFor ==
  {e \in Tx \X Tx :
     /\ e[1] # e[2]
     /\ \/ pc[e[1]] \in {"provision", "insert", "update"}
        \/ pc[e[1]] \in {"lock", "relock"} /\ Visible(e[1], K(e[1]))
     /\ owner[K(e[1])] = e[2]}

Init ==
  /\ row = [k \in Key |-> Missing]
  /\ issued = {}
  /\ applied = [k \in Key |-> {}]
  /\ pc = [t \in Tx |-> "idle"]
  /\ job = [t \in Tx |-> NoJob]
  /\ mine = [t \in Tx |-> [k \in Key |-> Missing]]
  /\ drawn = [t \in Tx |-> <<>>]
  /\ owner = [k \in Key |-> NoTx]

Begin(t, step, request) ==
  /\ pc[t] = "idle"
  /\ pc' = [pc EXCEPT ![t] = step]
  /\ job' = [job EXCEPT ![t] = request]
  /\ UNCHANGED <<row, issued, applied, mine, drawn, owner>>

(* A post or cancel draws one number, a repost two, of one year or of two.  *)
BeginDraw(t, keys) ==
  /\ \A k \in Key : row[k].seq < MaxSeq
  /\ Begin(t, "lock", [NoJob EXCEPT !.op = "draw", !.keys = keys])

BeginCreate(t, k, p) ==
  Begin(t, "insert", [NoJob EXCEPT !.op = "create", !.keys = <<k>>, !.prefix = p])

(* The client sends the version it last saw.                                *)
BeginUpdate(t, k, p, v) ==
  /\ row[k].version < MaxVersion
  /\ v <= row[k].version
  /\ Begin(t, "read",
           [op |-> "update", keys |-> <<k>>, prefix |-> p, version |-> v])

-----------------------------------------------------------------------------
Goto(t, step) ==
  /\ pc' = [pc EXCEPT ![t] = step]
  /\ UNCHANGED <<row, issued, applied, job, mine, drawn, owner>>

(* Mutant: the series is read without FOR UPDATE.                           *)
DrawPlainRead(t) ==
  LET s == Seen(t, K(t)) IN
  /\ mine' = [mine EXCEPT ![t][K(t)] = [s EXCEPT !.seq = @ + 1]]
  /\ drawn' = [drawn EXCEPT ![t] =
                 Append(@, [key |-> K(t), prefix |-> s.prefix, seq |-> s.seq + 1])]
  /\ job' = [job EXCEPT ![t].keys = Tail(@)]
  /\ pc' = [pc EXCEPT ![t] = IF Len(job[t].keys) = 1 THEN "commit" ELSE "lock"]
  /\ UNCHANGED <<row, issued, applied, owner>>

(* lockSeries finds the row, the number is drawn under its lock, and the    *)
(* transaction goes on to its next number or to its end.                    *)
Draw(t) ==
  LET s == Seen(t, K(t)) IN
  /\ Free(K(t), t)
  /\ owner' = Lock(owner, {K(t)}, t)
  /\ mine' = [mine EXCEPT ![t][K(t)] = [s EXCEPT !.seq = @ + 1]]
  /\ drawn' = [drawn EXCEPT ![t] =
                 Append(@, [key |-> K(t), prefix |-> s.prefix, seq |-> s.seq + 1])]
  /\ job' = [job EXCEPT ![t].keys = Tail(@)]
  /\ pc' = [pc EXCEPT ![t] = IF Len(job[t].keys) = 1 THEN "commit" ELSE "lock"]
  /\ UNCHANGED <<row, issued, applied>>

LockSeries(t) ==
  /\ pc[t] = "lock"
  /\ IF Visible(t, K(t)) THEN Draw(t) ELSE Goto(t, "provision")

NewSeries(p) == [seq |-> 0, prefix |-> p, version |-> 1]

InsertSeries(t, p, step) ==
  /\ row[K(t)].version = 0
  /\ owner' = Lock(owner, {K(t)}, t)
  /\ mine' = [mine EXCEPT ![t][K(t)] = NewSeries(p)]
  /\ pc' = [pc EXCEPT ![t] = step]
  /\ UNCHANGED <<row, issued, applied, job, drawn>>

(* Mutant: an insert that would wait counts as lost.                        *)
ProvisionNoWait(t) ==
  /\ pc[t] = "provision"
  /\ \/ Free(K(t), t) /\ InsertSeries(t, DefaultPrefix, "relock")
     \/ (~Free(K(t), t) \/ row[K(t)].version > 0) /\ Goto(t, "relock")

(* The insert waits for another insert of the same key: it succeeds when    *)
(* that one rolled back and raises 23505 when it committed, which rolls     *)
(* back to the savepoint only.                                              *)
Provision(t) ==
  /\ pc[t] = "provision"
  /\ Free(K(t), t)
  /\ \/ InsertSeries(t, DefaultPrefix, "relock")
     \/ row[K(t)].version > 0 /\ Goto(t, "relock")

(* The second lockSeries; that it finds no row is an error.                 *)
RelockSeries(t) ==
  /\ pc[t] = "relock"
  /\ Visible(t, K(t))
  /\ Draw(t)

CreateSeries(t) ==
  /\ pc[t] = "insert"
  /\ Free(K(t), t)
  /\ InsertSeries(t, job[t].prefix, "commit")

(* UpdateNumberingSeries: findById, the client's version compared, ...      *)
ReadSeries(t) ==
  /\ pc[t] = "read"
  /\ row[K(t)].version = job[t].version
  /\ job[t].version > 0
  /\ Goto(t, "update")


(* Mutant: the whole row is written back, the counter as it was created.    *)
UpdateConfigWholeRow(t) ==
  /\ pc[t] = "update"
  /\ Free(K(t), t)
  /\ row[K(t)].version = job[t].version
  /\ owner' = Lock(owner, {K(t)}, t)
  /\ mine' = [mine EXCEPT ![t][K(t)] =
                [seq |-> 0, prefix |-> job[t].prefix, version |-> job[t].version + 1]]
  /\ pc' = [pc EXCEPT ![t] = "commit"]
  /\ UNCHANGED <<row, issued, applied, job, drawn>>

(* ... then an UPDATE of the prefix alone, guarded by the version.          *)
UpdateConfig(t) ==
  /\ pc[t] = "update"
  /\ Free(K(t), t)
  /\ row[K(t)].version = job[t].version
  /\ owner' = Lock(owner, {K(t)}, t)
  /\ mine' = [mine EXCEPT ![t][K(t)] =
                [row[K(t)] EXCEPT !.prefix = job[t].prefix, !.version = @ + 1]]
  /\ pc' = [pc EXCEPT ![t] = "commit"]
  /\ UNCHANGED <<row, issued, applied, job, drawn>>

-----------------------------------------------------------------------------
End(t) ==
  /\ pc' = [pc EXCEPT ![t] = "idle"]
  /\ job' = [job EXCEPT ![t] = NoJob]
  /\ mine' = [mine EXCEPT ![t] = [k \in Key |-> Missing]]
  /\ drawn' = [drawn EXCEPT ![t] = <<>>]
  /\ owner' = Release(owner, t, NoTx)

Commit(t) ==
  /\ pc[t] = "commit"
  /\ row' = [k \in Key |-> Seen(t, k)]
  /\ issued' = issued \cup {drawn[t][i] : i \in DOMAIN drawn[t]}
  /\ applied' = IF job[t].op = "update"
                THEN [applied EXCEPT ![K(t)] = @ \cup {job[t].version}]
                ELSE applied
  /\ End(t)

(* The series exists already, is not there, or its version has moved.       *)
Refused(t) ==
  \/ pc[t] = "relock" /\ ~Visible(t, K(t))
  \/ pc[t] = "insert" /\ Free(K(t), t) /\ row[K(t)].version > 0
  \/ pc[t] = "read" /\ (row[K(t)].version # job[t].version \/ job[t].version = 0)
  \/ pc[t] = "update" /\ Free(K(t), t) /\ row[K(t)].version # job[t].version

Rollback(t) == End(t) /\ UNCHANGED <<row, issued, applied>>
Reject(t) == Refused(t) /\ Rollback(t)

(* The post fails further on, or the connection or the server does.         *)
Fail(t) == pc[t] # "idle" /\ Rollback(t)
DeadlockAbort(t) == OnWaitCycle(t, WaitsFor) /\ Rollback(t)

TxStep(t) ==
  \/ LockSeries(t) \/ Provision(t) \/ RelockSeries(t) \/ CreateSeries(t)
  \/ ReadSeries(t) \/ UpdateConfig(t) \/ Commit(t) \/ Reject(t)

Next ==
  \E t \in Tx :
     \/ \E k \in Key : BeginDraw(t, <<k>>)
     \/ \E k, l \in Key : BeginDraw(t, <<k, l>>)
     \/ \E k \in Key, p \in Prefix : BeginCreate(t, k, p)
     \/ \E k \in Key, p \in Prefix, v \in 1 .. MaxVersion : BeginUpdate(t, k, p, v)
     \/ TxStep(t) \/ Fail(t) \/ DeadlockAbort(t)

Spec == Init /\ [][Next]_vars

-----------------------------------------------------------------------------
(* The committed numbers of a series are 1 .. last_sequence, each once: two *)
(* first-ever posts, a rolled-back post and a change of the prefix included *)
(* (test/numbering-service.int-spec.ts:94, :107 and :115).                  *)
SeriesGapless ==
  \A k \in Key :
     LET nums == {n \in issued : n.key = k} IN
     /\ {n.seq : n \in nums} = 1 .. row[k].seq
     /\ Cardinality(nums) = row[k].seq

(* After provisioning there is a row to lock: the error of                  *)
(* typeorm-numbering.service.ts:49 is unreachable, as its comment says.     *)
ProvisionedSeriesIsFound ==
  \A t \in Tx : pc[t] = "relock" => Visible(t, K(t))


(* A number is printed with the prefix of its series at the time it is      *)
(* committed, whatever admins do while the post is open.                    *)
PrintedWithPrefixInForce ==
  \A t \in Tx : pc[t] = "commit" /\ job[t].op = "draw" =>
     \A i \in DOMAIN drawn[t] :
        LET n == drawn[t][i]
        IN  row[n.key].version > 0 => n.prefix = row[n.key].prefix
=============================================================================
