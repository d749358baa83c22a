\* Two series, two prefixes, two transactions.
CONSTANTS
  k1 = k1  k2 = k2  t1 = t1  t2 = t2  t3 = t3
  Key = {k1, k2}
  Prefix = {"RV", "RC"}
  DefaultPrefix = "RV"
  Tx = {t1, t2}
  NoTx = NoTx
  MaxSeq = 2
  MaxVersion = 3
SPECIFICATION Spec
SYMMETRY Symmetry
INVARIANTS
  TypeOK
  SeriesGapless
  ProvisionedSeriesIsFound
  
  PrintedWithPrefixInForce
