--------------------------- MODULE LedgerBookProofs ---------------------------
(* The promises of LedgerBook, for every set of vouchers, periods and       *)
(* series.  Numbers, reversals and live entries are proved together: that a *)
(* voucher counts once needs that an entry is reversed once, and that a new *)
(* entry is not already reversed needs that its number is unused.           *)
EXTENDS LedgerBook, TLAPS

BookInv ==
  BookTypeOK /\ NumbersUnique /\ NumbersGapless /\ ReversedOnce /\ OneLiveEntry

(* An original is an entry whose `of` is empty, a reversal one whose `of`   *)
(* is an original.                                                          *)
LEMMA EntryKinds ==
  ASSUME NEW e \in Entry
  PROVE  /\ e.voucher \in Voucher /\ e.period \in Period /\ e.seq \in Nat /\ e.seq > 0
         /\ e.of = NoEntry <=> e \in Original
         /\ e.of # NoEntry => e.of \in Original
         /\ SeriesOfEntry(e) \in Series
<1>1. e \in Original => e.of = NoEntry
  BY DEF Original
<1>2. e \in Reversal => e.of \in Original /\ e.of # NoEntry
  BY NoEntryIsNone DEF Reversal, Entry
<1>3. e.voucher \in Voucher /\ e.period \in Period /\ e.seq \in Nat /\ e.seq > 0
  BY DEF Entry, Original, Reversal, Positive
<1>4. SeriesOfEntry(e) \in Series
  BY <1>3, SeriesOfType DEF SeriesOfEntry
<1> QED
  BY <1>1, <1>2, <1>3, <1>4 DEF Entry

LEMMA NewOriginal ==
  ASSUME NEW v \in Voucher, NEW p \in Period, NEW n \in Nat, n > 0
  PROVE  LET e == OriginalEntry(v, p, n) IN
         /\ e \in Original /\ e \in Entry
         /\ e.voucher = v /\ e.period = p /\ e.seq = n /\ e.of = NoEntry
         /\ SeriesOfEntry(e) = SeriesOf[v][p]
BY DEF OriginalEntry, Original, Entry, Positive, SeriesOfEntry

LEMMA NewReversal ==
  ASSUME NEW o \in Original, NEW n \in Nat, n > 0
  PROVE  LET r == ReversalEntry(o, n) IN
         /\ r \in Entry
         /\ r.voucher = o.voucher /\ r.period = o.period /\ r.seq = n /\ r.of = o
         /\ r.of # NoEntry
         /\ SeriesOfEntry(r) = SeriesOfEntry(o)
BY NoEntryIsNone DEF ReversalEntry, Original, Reversal, Entry, Positive, SeriesOfEntry

-----------------------------------------------------------------------------
(* One entry appended with the next number of its series: what PostEntry    *)
(* and ReverseEntry do to the ledger, and RepostEntry twice.                *)
NumbersOK(L, c) ==
  /\ L \subseteq Entry /\ c \in [Series -> Nat]
  /\ \A e \in L : e.seq <= c[SeriesOfEntry(e)]
  /\ \A s \in Series : \A n \in 1 .. c[s] : \E e \in L : SeriesOfEntry(e) = s /\ e.seq = n
  /\ \A e, f \in L : SeriesOfEntry(e) = SeriesOfEntry(f) /\ e.seq = f.seq => e = f

LEMMA AppendKeepsNumbers ==
  ASSUME NEW L, NEW c, NumbersOK(L, c),
         NEW x \in Entry, x.seq = c[SeriesOfEntry(x)] + 1
  PROVE  /\ NumbersOK(L \cup {x}, [c EXCEPT ![SeriesOfEntry(x)] = @ + 1])
         /\ x \notin L
<1> DEFINE d == [c EXCEPT ![SeriesOfEntry(x)] = @ + 1]
<1> USE DEF NumbersOK
<1> DEFINE S(e) == SeriesOfEntry(e)
<1>1. S(x) \in Series /\ \A e \in L : S(e) \in Series /\ e.seq \in Nat
  BY EntryKinds
<1> HIDE DEF S
<1>2. \A s \in Series : d[s] = IF s = S(x) THEN c[s] + 1 ELSE c[s]
  BY <1>1 DEF S
<1>3. d \in [Series -> Nat]
  BY <1>1 DEF S
<1>4. \A e \in L : S(e) = S(x) => e.seq < x.seq
  BY <1>1 DEF S
<1>5. x \notin L
  BY <1>4, <1>1
<1>6. \A e \in L \cup {x} : e.seq <= d[S(e)]
  <2>1. x.seq = d[S(x)]
    BY <1>1, <1>2 DEF S
  <2>2. \A e \in L : e.seq <= c[S(e)]
    BY DEF S
  <2>3. d[S(x)] \in Nat
    BY <1>1, <1>3
  <2> QED
    BY <1>1, <1>2, <1>3, <2>1, <2>2, <2>3
<1>7. \A s \in Series : \A n \in 1 .. d[s] : \E e \in L \cup {x} : S(e) = s /\ e.seq = n
  <2> SUFFICES ASSUME NEW s \in Series, NEW n \in 1 .. d[s]
               PROVE  \E e \in L \cup {x} : S(e) = s /\ e.seq = n
    OBVIOUS
  <2>1. CASE n \in 1 .. c[s]
    BY <2>1 DEF S
  <2>2. CASE n \notin 1 .. c[s]
    BY <2>2, <1>1, <1>2 DEF S
  <2> QED
    BY <2>1, <2>2
<1>8. \A e, f \in L \cup {x} : S(e) = S(f) /\ e.seq = f.seq => e = f
  <2>1. \A e \in L : S(e) = S(x) => e.seq # x.seq
    BY <1>1, <1>4
  <2>2. \A e, f \in L : S(e) = S(f) /\ e.seq = f.seq => e = f
    BY DEF S
  <2> QED
    BY <2>1, <2>2
<1> QED
  BY <1>3, <1>5, <1>6, <1>7, <1>8 DEF S

-----------------------------------------------------------------------------
(* The invariant as a predicate of a ledger L and its counters c, so that   *)
(* the two appends of a repost can be taken one after the other.            *)
ReversalsOK(L) ==
  /\ \A r1, r2 \in L : r1.of # NoEntry /\ r1.of = r2.of => r1 = r2
  /\ \A r \in L : r.of # NoEntry =>
        /\ r.of \in L
        /\ r.period = r.of.period /\ r.voucher = r.of.voucher
        /\ r.seq > r.of.seq

Live(L, v) == {e \in L : e.voucher = v /\ e.of = NoEntry /\ ~(\E r \in L : r.of = e)}

BookOK(L, c) ==
  /\ NumbersOK(L, c)
  /\ ReversalsOK(L)
  /\ \A v \in Voucher : \A e, f \in Live(L, v) : e = f

(* From L to M, the live entries of v become E, the others' stay.           *)
OnlyLive(L, M, v, E) ==
  Live(M, v) = E /\ \A w \in Voucher \ {v} : Live(M, w) = Live(L, w)

LEMMA InvIsBookOK ==
  BookInv <=> BookOK(ledger, last) /\ period \in [Period -> {"OPEN", "CLOSED"}]
BY DEF BookInv, BookTypeOK, NumbersUnique, NumbersGapless, ReversedOnce, OneLiveEntry,
       LiveEntries, IsReversed, BookOK, NumbersOK, ReversalsOK, Live

(* Appending an original for a voucher without a live entry.                *)
LEMMA AppendOriginal ==
  ASSUME NEW L, NEW c, BookOK(L, c),
         NEW v \in Voucher, NEW p \in Period, Live(L, v) = {}
  PROVE  /\ BookOK(L \cup {OriginalEntry(v, p, c[SeriesOf[v][p]] + 1)},
                   [c EXCEPT ![SeriesOf[v][p]] = @ + 1])
         /\ OnlyLive(L, L \cup {OriginalEntry(v, p, c[SeriesOf[v][p]] + 1)}, v,
                     {OriginalEntry(v, p, c[SeriesOf[v][p]] + 1)})
<1> DEFINE s == SeriesOf[v][p]
           x == OriginalEntry(v, p, c[s] + 1)
           M == L \cup {x}
<1>1. NumbersOK(L, c) /\ L \subseteq Entry /\ c \in [Series -> Nat]
  BY DEF BookOK, NumbersOK
<1>2. s \in Series /\ c[s] \in Nat
  BY <1>1, SeriesOfType
<1>3. /\ x \in Entry /\ x.voucher = v /\ x.of = NoEntry
      /\ SeriesOfEntry(x) = s /\ x.seq = c[s] + 1
  BY <1>2, NewOriginal
<1>4. x # NoEntry
  BY <1>3, NoEntryIsNone
<1> HIDE DEF x, s
<1>5. NumbersOK(M, [c EXCEPT ![s] = @ + 1]) /\ x \notin L
  <2>1. x.seq = c[SeriesOfEntry(x)] + 1
    BY <1>3
  <2>2. /\ NumbersOK(M, [c EXCEPT ![SeriesOfEntry(x)] = @ + 1])
        /\ x \notin L
    BY <1>1, <1>3, <2>1, AppendKeepsNumbers
  <2> QED
    BY <1>3, <2>2
<1>6. ReversalsOK(M)
  BY <1>3 DEF BookOK, ReversalsOK
<1>7. \A r \in M : r.of # x
  <2>1. \A r \in L : r.of # x
    BY <1>4, <1>5 DEF BookOK, ReversalsOK
  <2> QED
    BY <1>3, <1>4, <2>1
<1>8. \A w \in Voucher : Live(M, w) = IF w = v THEN {x} ELSE Live(L, w)
  BY <1>3, <1>7 DEF Live
<1>9. \A w \in Voucher : \A e, f \in Live(M, w) : e = f
  BY <1>8 DEF BookOK
<1> QED
  BY <1>5, <1>6, <1>8, <1>9 DEF BookOK, OnlyLive, x, s

(* Appending the reversal of a live entry, which leaves its voucher without *)
(* one.                                                                     *)
LEMMA AppendReversal ==
  ASSUME NEW L, NEW c, BookOK(L, c),
         NEW v \in Voucher, NEW e \in Live(L, v)
  PROVE  /\ BookOK(L \cup {ReversalEntry(e, c[SeriesOfEntry(e)] + 1)},
                   [c EXCEPT ![SeriesOfEntry(e)] = @ + 1])
         /\ OnlyLive(L, L \cup {ReversalEntry(e, c[SeriesOfEntry(e)] + 1)}, v, {})
<1> DEFINE s == SeriesOfEntry(e)
           x == ReversalEntry(e, c[s] + 1)
           M == L \cup {x}
<1>1. NumbersOK(L, c) /\ L \subseteq Entry /\ c \in [Series -> Nat]
  BY DEF BookOK, NumbersOK
<1>2. e \in L /\ e \in Original /\ e.voucher = v /\ \A r \in L : r.of # e
  BY <1>1, EntryKinds DEF Live
<1>3. s \in Series /\ c[s] \in Nat /\ e.seq \in Nat /\ e.seq <= c[s]
  BY <1>1, <1>2, EntryKinds DEF NumbersOK
<1>4. /\ x \in Entry /\ x.voucher = v /\ x.period = e.period
      /\ x.of = e /\ x.of # NoEntry
      /\ SeriesOfEntry(x) = s /\ x.seq = c[s] + 1
  BY <1>2, <1>3, NewReversal
<1> HIDE DEF x, s
<1>5. NumbersOK(M, [c EXCEPT ![s] = @ + 1])
  <2>1. x.seq = c[SeriesOfEntry(x)] + 1
    BY <1>4
  <2>2. NumbersOK(M, [c EXCEPT ![SeriesOfEntry(x)] = @ + 1])
    BY <1>1, <1>4, <2>1, AppendKeepsNumbers
  <2> QED
    BY <1>4, <2>2
<1>6. ReversalsOK(M)
  <2>1. \A r \in L : r.of # x.of
    BY <1>2, <1>4
  <2>2. x.of \in L /\ x.period = x.of.period /\ x.voucher = x.of.voucher /\ x.seq > x.of.seq
    BY <1>2, <1>3, <1>4
  <2> QED
    BY <2>1, <2>2 DEF BookOK, ReversalsOK
<1>7. \A w \in Voucher : Live(M, w) \subseteq Live(L, w)
  BY <1>4 DEF Live
<1>8. \A w \in Voucher : \A a, b \in Live(M, w) : a = b
  BY <1>7 DEF BookOK
<1>9. \A w \in Voucher : Live(M, w) = IF w = v THEN {} ELSE Live(L, w)
  <2>1. Live(L, v) = {e}
    BY DEF BookOK
  <2>2. e \notin Live(M, v)
    BY <1>4 DEF Live
  <2>3. \A w \in Voucher \ {v} : Live(L, w) \subseteq Live(M, w)
    BY <1>2, <1>4 DEF Live
  <2> QED
    BY <1>7, <2>1, <2>2, <2>3
<1> QED
  BY <1>5, <1>6, <1>8, <1>9 DEF BookOK, OnlyLive, x, s

-----------------------------------------------------------------------------
LEMMA LiveIsOriginal ==
  ASSUME BookInv, NEW v \in Voucher, NEW e \in LiveEntries(v)
  PROVE  /\ e \in ledger /\ e \in Original /\ e.voucher = v
         /\ \A r \in ledger : r.of # e
BY EntryKinds DEF BookInv, BookTypeOK, LiveEntries, IsReversed

LEMMA StepKeepsInv == BookInv /\ [BookNext]_bookVars => BookInv'
<1> SUFFICES ASSUME BookInv, [BookNext]_bookVars
             PROVE  BookInv'
  OBVIOUS
<1>1. BookOK(ledger, last) /\ period \in [Period -> {"OPEN", "CLOSED"}]
  BY InvIsBookOK
<1>2. SUFFICES BookOK(ledger', last') /\ period' \in [Period -> {"OPEN", "CLOSED"}]
  <2>1. BookInv' <=> (BookOK(ledger, last) /\ period \in [Period -> {"OPEN", "CLOSED"}])'
    BY InvIsBookOK, PTL
  <2> QED
    BY <2>1 DEF BookOK, NumbersOK, ReversalsOK, Live, SeriesOfEntry
<1>3. \A v : LiveEntries(v) = Live(ledger, v)
  BY DEF LiveEntries, Live, IsReversed
<1>4. ASSUME NEW v \in Voucher, NEW p \in Period, PostEntry(v, p)
      PROVE  BookOK(ledger', last')
  BY <1>1, <1>3, <1>4, AppendOriginal DEF PostEntry
<1>5. ASSUME NEW v \in Voucher, NEW e \in ledger, ReverseEntry(v, e)
      PROVE  BookOK(ledger', last')
  BY <1>1, <1>3, <1>5, AppendReversal DEF ReverseEntry
<1>6. ASSUME NEW v \in Voucher, NEW p \in Period, NEW e \in ledger, RepostEntry(v, e, p)
      PROVE  BookOK(ledger', last')
  <2> DEFINE L == ledger \cup {ReversalEntry(e, last[SeriesOfEntry(e)] + 1)}
             c == [last EXCEPT ![SeriesOfEntry(e)] = @ + 1]
             s == SeriesOf[v][p]
  <2>1. BookOK(L, c) /\ Live(L, v) = {}
    BY <1>1, <1>3, <1>6, AppendReversal DEF RepostEntry, OnlyLive
  <2>2. /\ ledger' = L \cup {OriginalEntry(v, p, c[s] + 1)}
        /\ last' = [c EXCEPT ![s] = @ + 1]
    BY <1>6 DEF RepostEntry
  <2> HIDE DEF L, c
  <2>3. BookOK(L \cup {OriginalEntry(v, p, c[s] + 1)}, [c EXCEPT ![s] = @ + 1])
    BY <2>1, AppendOriginal
  <2> QED
    BY <2>2, <2>3
<1>7. ASSUME NEW p \in Period, NEW status \in {"OPEN", "CLOSED"}, SetStatus(p, status)
      PROVE  BookOK(ledger', last') /\ period' \in [Period -> {"OPEN", "CLOSED"}]
  BY <1>1, <1>7 DEF SetStatus
<1>8. CASE UNCHANGED bookVars
  BY <1>1, <1>8 DEF bookVars
<1>9. (\E p \in Period, status \in {"OPEN", "CLOSED"} : SetStatus(p, status))
        \/ UNCHANGED period
  BY DEF BookNext, bookVars, PostEntry, ReverseEntry, RepostEntry
<1> QED
  BY <1>1, <1>4, <1>5, <1>6, <1>7, <1>8, <1>9 DEF BookNext

(* The books' invariant: numbers are unique and without holes, an entry is  *)
(* reversed at most once and in its own period, a voucher counts once, in   *)
(* every reachable state and for any number of vouchers and periods.        *)
THEOREM BookCorrect == BookSpec => []BookInv
<1>1. BookInit => BookInv
  BY DEF BookInit, BookInv, BookTypeOK, NumbersUnique, NumbersGapless, ReversedOnce,
         OneLiveEntry, LiveEntries
<1>2. BookInv /\ [BookNext]_bookVars => BookInv'
  BY StepKeepsInv
<1> QED
  BY <1>1, <1>2, PTL DEF BookSpec
=============================================================================
