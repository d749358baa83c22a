\* Two vouchers of one type, two periods of one year, two transactions.
CONSTANTS
  v1 = v1  v2 = v2  p1 = p1  p2 = p2  ser1 = ser1  ser2 = ser2  t1 = t1  t2 = t2  t3 = t3
  Voucher = {v1, v2}
  Period = {p1, p2}
  Series = {ser1}
  SeriesOf <- OneSeries
  Tx = {t1, t2}
  NoTx = NoTx
  NoJob = NoJob
  NoEntry = NoEntry
  NoPeriod = NoPeriod
  Ops = {"post", "cancel", "repost", "delete"}
  MaxOriginals = 2
SPECIFICATION Spec
SYMMETRY Symmetry
INVARIANTS
  TypeOK
  LedgerMatchesVouchers
  NumbersUnique
  NumbersGapless
  ReversedOnce
  OnlyRepostsDeadlock
  TransactionInv
PROPERTIES
  BookSpec
