\* A reopen races the close of the year.
CONSTANTS
  t1 = t1  t2 = t2  t3 = t3
  N = 2
  Tx = {t1, t2}
  NoTx = NoTx
  Ops = {"generate", "close", "closeFy", "reopen"}
  MaxVersion = 4
SPECIFICATION Spec
PROPERTIES
  YearLocked
