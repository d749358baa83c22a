\* The periods in two financial years; fair runs, no symmetry.
CONSTANTS
  v1 = v1  v2 = v2  p1 = p1  p2 = p2  ser1 = ser1  ser2 = ser2  t1 = t1  t2 = t2  t3 = t3
  Voucher = {v1, v2}
  Period = {p1, p2}
  Series = {ser1, ser2}
  SeriesOf <- SeriesPerYear
  Tx = {t1, t2}
  NoTx = NoTx
  NoJob = NoJob
  NoEntry = NoEntry
  NoPeriod = NoPeriod
  Ops = {"post", "repost", "delete"}
  MaxOriginals = 2
SPECIFICATION FairSpec
INVARIANTS
  NumbersGapless
PROPERTIES
  BookSpec
  RequestsEnd
