----------------------------- MODULE LedgerBook -----------------------------
(* What the posting service promises about the committed books, with every *)
(* voucher operation one atomic step: the ledger is append-only, a step    *)
(* writes only into an open period, numbers are drawn from the series of   *)
(* the voucher's type and financial year one after the other, an original  *)
(* entry is reversed at most once and a repost writes both legs or none.   *)
(*                                                                         *)
(* The detailed specification, with its transactions, row locks, waits and *)
(* rollbacks, is in module Posting.                                        *)
EXTENDS Naturals, FiniteSets

CONSTANTS
  Voucher,    \* the vouchers (receipts, contras, payments, ...)
  Period,     \* the accounting periods (generated by module PeriodControl)
  Series,     \* the numbering series, one per voucher type and year
  SeriesOf,   \* [Voucher -> [Period -> Series]]: the type of the voucher, the
              \* year of the period
  NoEntry     \* "reversal_of IS NULL"

Positive == Nat \ {0}
Original == [voucher : Voucher, period : Period, seq : Positive, of : {NoEntry}]
Reversal == [voucher : Voucher, period : Period, seq : Positive, of : Original]
Entry == Original \cup Reversal

ASSUME SeriesOfType == SeriesOf \in [Voucher -> [Period -> Series]]
ASSUME PeriodsExist == Period # {}
ASSUME NoEntryIsNone == NoEntry \notin Entry

VARIABLES
  ledger,     \* the committed journal entries
  last,       \* [Series -> Nat]: last_sequence of each series
  period      \* [Period -> {"OPEN", "CLOSED"}]

bookVars == <<ledger, last, period>>

BookTypeOK ==
  /\ ledger \subseteq Entry
  /\ last \in [Series -> Nat]
  /\ period \in [Period -> {"OPEN", "CLOSED"}]

SeriesOfEntry(e) == SeriesOf[e.voucher][e.period]
IsReversed(e) == \E r \in ledger : r.of = e

(* The entries of voucher v that count: originals nothing has reversed.    *)
LiveEntries(v) ==
  {e \in ledger : e.voucher = v /\ e.of = NoEntry /\ ~IsReversed(e)}

-----------------------------------------------------------------------------
BookInit ==
  /\ ledger = {}
  /\ last = [s \in Series |-> 0]
  /\ period = [p \in Period |-> "OPEN"]

OriginalEntry(v, p, n) == [voucher |-> v, period |-> p, seq |-> n, of |-> NoEntry]

(* A reversal carries the original's voucher, date and year, hence its     *)
(* period and series (JournalEntry.reverse copies every other field).      *)
ReversalEntry(e, n) == [voucher |-> e.voucher, period |-> e.period, seq |-> n, of |-> e]

(* Post voucher v at a date of period p: only a voucher without a live     *)
(* entry, only into an open period.                                        *)
PostEntry(v, p) ==
  LET s == SeriesOf[v][p] IN
  /\ period[p] = "OPEN"
  /\ LiveEntries(v) = {}
  /\ ledger' = ledger \cup {OriginalEntry(v, p, last[s] + 1)}
  /\ last' = [last EXCEPT ![s] = @ + 1]
  /\ UNCHANGED period

(* Cancel voucher v: append the reversal of its live entry e.              *)
ReverseEntry(v, e) ==
  LET s == SeriesOfEntry(e) IN
  /\ e \in LiveEntries(v)
  /\ period[e.period] = "OPEN"
  /\ ledger' = ledger \cup {ReversalEntry(e, last[s] + 1)}
  /\ last' = [last EXCEPT ![s] = @ + 1]
  /\ UNCHANGED period

(* Repost v, corrected to a date of p: reversal and correction together.   *)
RepostEntry(v, e, p) ==
  LET s1 == SeriesOfEntry(e)
      s2 == SeriesOf[v][p]
      mid == [last EXCEPT ![s1] = @ + 1]
  IN
  /\ e \in LiveEntries(v)
  /\ period[e.period] = "OPEN"
  /\ period[p] = "OPEN"
  /\ ledger' = ledger \cup {ReversalEntry(e, last[s1] + 1), OriginalEntry(v, p, mid[s2] + 1)}
  /\ last' = [mid EXCEPT ![s2] = @ + 1]
  /\ UNCHANGED period

SetStatus(p, status) ==
  /\ period[p] # status
  /\ period' = [period EXCEPT ![p] = status]
  /\ UNCHANGED <<ledger, last>>

BookNext ==
  \/ \E v \in Voucher, p \in Period : PostEntry(v, p)
  \/ \E v \in Voucher : \E e \in ledger : ReverseEntry(v, e)
  \/ \E v \in Voucher, p \in Period : \E e \in ledger : RepostEntry(v, e, p)
  \/ \E p \in Period, status \in {"OPEN", "CLOSED"} : SetStatus(p, status)

BookSpec == BookInit /\ [][BookNext]_bookVars

-----------------------------------------------------------------------------
(* No two entries of a series carry the same number, reversals included    *)
(* (the voucher number is what an auditor looks an entry up by).           *)
NumbersUnique ==
  \A e, f \in ledger : SeriesOfEntry(e) = SeriesOfEntry(f) /\ e.seq = f.seq => e = f

(* The numbers of a series are exactly 1 .. last_sequence: a refused or    *)
(* rolled-back post leaves no hole.                                        *)
NumbersGapless ==
  /\ \A e \in ledger : e.seq <= last[SeriesOfEntry(e)]
  /\ \A s \in Series : \A n \in 1 .. last[s] :
        \E e \in ledger : SeriesOfEntry(e) = s /\ e.seq = n

(* An entry is reversed at most once, its reversal is never reversed, and  *)
(* both sit in the same period, the reversal numbered after the original.  *)
ReversedOnce ==
  /\ \A r1, r2 \in ledger : r1.of # NoEntry /\ r1.of = r2.of => r1 = r2
  /\ \A r \in ledger : r.of # NoEntry =>
        /\ r.of \in ledger
        /\ r.period = r.of.period /\ r.voucher = r.of.voucher
        /\ r.seq > r.of.seq

(* A voucher never counts twice.                                           *)
OneLiveEntry == \A v \in Voucher : \A e, f \in LiveEntries(v) : e = f
=============================================================================
