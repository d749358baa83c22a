\* Two open transactions, rows of one millisecond.
CONSTANTS
  t1 = t1  t2 = t2
  Tx = {t1, t2}
  Payload = {"plain", "unsorted"}
  Ties = TRUE
  MaxRows = 3
  MaxTime = 3
SPECIFICATION Spec
SYMMETRY Symmetry
INVARIANTS
  TypeOK
  SealsRestOnTheLog
  ChangesAreAudited
  SerialChainVerifies
