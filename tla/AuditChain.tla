----------------------------- MODULE AuditChain -----------------------------
(* The sealed audit log of one company.  RealAuditService.record runs in   *)
(* the caller's transaction: it takes the time, reads the seal of the      *)
(* newest row it can see (committed, or its own), seals the new row over   *)
(* it and inserts it.  Nothing locks the log.  verifyChain later walks the *)
(* committed rows by time and recomputes every seal.                       *)
EXTENDS Naturals, Sequences, FiniteSets

CONSTANTS
  Tx,         \* the transactions that may be open at the same time
  Payload,    \* the kinds of before/after values recorded, see Stored
  Ties,       \* may two rows carry the same millisecond?
  MaxRows,    \* bound: rows ever recorded
  MaxTime     \* bound: milliseconds that pass

ASSUME PayloadKinds == Payload \subseteq {"plain", "unsorted"}
ASSUME TiesBoolean == Ties \in BOOLEAN
ASSUME Bounds == MaxRows \in Nat /\ MaxTime \in Nat \ {0}

VARIABLES
  log,      \* the committed rows
  done,     \* the committed changes, by the rows they owe the log
  pending,  \* [Tx -> set of rows]: inserted, not committed
  owed,     \* [Tx -> set of row numbers]: changes made, not committed
  pc,       \* [Tx -> step]
  draft,    \* [Tx -> the row record() is building]
  now,      \* the clock, in milliseconds
  overlap   \* have two transactions ever been open at once?

vars == <<log, done, pending, owed, pc, draft, now, overlap>>

NoSeal == <<>>

-----------------------------------------------------------------------------
(* A seal is a hash over the previous seal and the row's content.  Hashes   *)
(* do not collide, so the seal is the list of contents it stands for.       *)
ComputeSeal(id, text, at, prev) == Append(prev, [id |-> id, text |-> text, at |-> at])

(* What a jsonb column gives back: PostgreSQL orders the keys of an object  *)
(* by length, then alphabetically, so {status, event} comes back as         *)
(* {event, status}; null and objects of one key are unchanged.              *)
Stored(text) == IF text = "unsorted" THEN "sorted" ELSE text

(* Mutant: the oldest row's seal is read (ORDER BY createdAt ASC).          *)
LastSealOldest(rows, s) ==
  IF rows = {} THEN s = NoSeal
  ELSE \E r \in rows : r.seal = s /\ \A q \in rows : q.at >= r.at

(* s may be what lastSeal returns: the seal of a row with the latest time.  *)
LastSeal(rows, s) ==
  IF rows = {} THEN s = NoSeal
  ELSE \E r \in rows : r.seal = s /\ \A q \in rows : q.at <= r.at

(* verifyChain over the rows in the order o: every stored row must give its *)
(* seal again over the seal before it.                                      *)
VerifyChain(o) ==
  \A i \in DOMAIN o :
     o[i].seal = ComputeSeal(o[i].id, Stored(o[i].text), o[i].at,
                             IF i = 1 THEN NoSeal ELSE o[i-1].seal)

(* ORDER BY created_at ASC, rows of one millisecond in any order.           *)
ByTime(rows) ==
  {o \in [1 .. Cardinality(rows) -> rows] :
     \A i, j \in DOMAIN o : i < j => o[i] # o[j] /\ o[i].at <= o[j].at}

-----------------------------------------------------------------------------
Rows == log \cup UNION {pending[t] : t \in Tx}
Drafts == {draft[t] : t \in {u \in Tx : pc[u] \in {"lastSeal", "append"}}}
Used == done \cup UNION {owed[t] : t \in Tx}
Empty == [id |-> 0, text |-> "plain", at |-> 0, seal |-> NoSeal]

TypeOK ==
  LET Content == [id : 1 .. MaxRows, text : Payload, at : 1 .. MaxTime]
      IsRow(r) ==
        /\ DOMAIN r = {"id", "text", "at", "seal"}
        /\ [id |-> r.id, text |-> r.text, at |-> r.at] \in Content
        /\ r.seal \in Seq(Content)
  IN
  /\ \A r \in Rows : IsRow(r)
  /\ done \subseteq 1 .. MaxRows
  /\ owed \in [Tx -> SUBSET (1 .. MaxRows)]
  /\ pc \in [Tx -> {"idle", "open", "lastSeal", "append"}]
  /\ \A t \in Tx : pc[t] = "idle" => pending[t] = {} /\ owed[t] = {}
  /\ now \in 1 .. MaxTime
  /\ overlap \in BOOLEAN

Init ==
  /\ log = {}
  /\ done = {}
  /\ pending = [t \in Tx |-> {}]
  /\ owed = [t \in Tx |-> {}]
  /\ pc = [t \in Tx |-> "idle"]
  /\ draft = [t \in Tx |-> Empty]
  /\ now = 1
  /\ overlap = FALSE

Tick ==
  /\ now < MaxTime
  /\ now' = now + 1
  /\ UNCHANGED <<log, done, pending, owed, pc, draft, overlap>>

Begin(t) ==
  /\ pc[t] = "idle"
  /\ pc' = [pc EXCEPT ![t] = "open"]
  /\ overlap' = (overlap \/ \E u \in Tx : pc[u] # "idle")
  /\ UNCHANGED <<log, done, pending, owed, draft, now>>

(* The use case changes its rows and calls record(), which takes the time.  *)
Record(t, text) ==
  LET fresh == (1 .. MaxRows) \ Used
      id == CHOOSE n \in fresh : \A m \in fresh : n <= m
  IN
  /\ pc[t] = "open"
  /\ fresh # {}
  /\ Ties \/ \A r \in Rows \cup Drafts : r.at # now
  /\ pc' = [pc EXCEPT ![t] = "lastSeal"]
  /\ owed' = [owed EXCEPT ![t] = @ \cup {id}]
  /\ draft' = [draft EXCEPT ![t] = [id |-> id, text |-> text, at |-> now, seal |-> NoSeal]]
  /\ UNCHANGED <<log, done, pending, now, overlap>>

(* Mutant: the last seal is kept in memory, whichever transaction wrote it. *)
ReadLastSealCached(t) ==
  /\ pc[t] = "lastSeal"
  /\ \E s \in {r.seal : r \in Rows} \cup {NoSeal} :
        /\ LastSeal(Rows, s)
        /\ draft' = [draft EXCEPT ![t].seal =
                       ComputeSeal(draft[t].id, draft[t].text, draft[t].at, s)]
  /\ pc' = [pc EXCEPT ![t] = "append"]
  /\ UNCHANGED <<log, done, pending, owed, now, overlap>>

(* lastSeal, then the seal: it sees what is committed and its own rows.     *)
ReadLastSeal(t) ==
  LET visible == log \cup pending[t] IN
  /\ pc[t] = "lastSeal"
  /\ \E s \in {r.seal : r \in visible} \cup {NoSeal} :
        /\ LastSeal(visible, s)
        /\ draft' = [draft EXCEPT ![t].seal =
                       ComputeSeal(draft[t].id, draft[t].text, draft[t].at, s)]
  /\ pc' = [pc EXCEPT ![t] = "append"]
  /\ UNCHANGED <<log, done, pending, owed, now, overlap>>

(* Mutant: the row is inserted on a connection of its own.                  *)
AppendRowOutside(t) ==
  /\ pc[t] = "append"
  /\ log' = log \cup {draft[t]}
  /\ pc' = [pc EXCEPT ![t] = "open"]
  /\ UNCHANGED <<done, pending, owed, draft, now, overlap>>

AppendRow(t) ==
  /\ pc[t] = "append"
  /\ pending' = [pending EXCEPT ![t] = @ \cup {draft[t]}]
  /\ pc' = [pc EXCEPT ![t] = "open"]
  /\ UNCHANGED <<log, done, owed, draft, now, overlap>>

(* Mutant: a rolled-back row stays for the connection's next transaction.   *)
EndKeepsRows(t) ==
  /\ owed' = [owed EXCEPT ![t] = {}]
  /\ pc' = [pc EXCEPT ![t] = "idle"]
  /\ draft' = [draft EXCEPT ![t] = Empty]
  /\ UNCHANGED <<now, overlap, pending>>

End(t) ==
  /\ pending' = [pending EXCEPT ![t] = {}]
  /\ owed' = [owed EXCEPT ![t] = {}]
  /\ pc' = [pc EXCEPT ![t] = "idle"]
  /\ draft' = [draft EXCEPT ![t] = Empty]
  /\ UNCHANGED <<now, overlap>>

Commit(t) ==
  /\ pc[t] = "open"
  /\ log' = log \cup pending[t]
  /\ done' = done \cup owed[t]
  /\ End(t)

(* An error anywhere in the use case, before or after it recorded.          *)
Rollback(t) ==
  /\ pc[t] # "idle"
  /\ End(t)
  /\ UNCHANGED <<log, done>>

Next ==
  \/ Tick
  \/ \E t \in Tx :
        \/ Begin(t) \/ ReadLastSeal(t) \/ AppendRow(t) \/ Commit(t) \/ Rollback(t)
        \/ \E text \in Payload : Record(t, text)

Spec == Init /\ [][Next]_vars

-----------------------------------------------------------------------------
(* Every log that only record() wrote verifies, in whatever order rows of   *)
(* one millisecond come back (verifyChain returns ok:true,                  *)
(* test/rbac-and-audit.int-spec.ts:238).                                    *)
ChainVerifies == \A o \in ByTime(log) : VerifyChain(o)

(* Transactions followed one another, no two rows are of one millisecond    *)
(* and jsonb gave every object back as it was.                              *)
Undisturbed ==
  /\ ~overlap
  /\ \A q, r \in log : q.at = r.at => q = r
  /\ \A r \in log : Stored(r.text) = r.text

(* What does hold: an undisturbed log verifies, rollbacks in between and    *)
(* several rows per transaction included.                                   *)
SerialChainVerifies == Undisturbed => ChainVerifies

(* A committed row is sealed over rows that are committed too: what a       *)
(* transaction rolled back is in nobody's seal.                             *)
SealsRestOnTheLog ==
  \A r \in log : \A i \in DOMAIN r.seal :
     \E q \in log : q.seal = SubSeq(r.seal, 1, i)

(* A change and its audit row appear together or not at all (FR-AUD-025).   *)
ChangesAreAudited == {r.id : r \in log} = done
=============================================================================
