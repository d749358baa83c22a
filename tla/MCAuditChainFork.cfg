\* Two transactions, one row a millisecond, payloads jsonb keeps.
CONSTANTS
  t1 = t1  t2 = t2
  Tx = {t1, t2}
  Payload = {"plain"}
  Ties = FALSE
  MaxRows = 2
  MaxTime = 3
SPECIFICATION Spec
INVARIANTS
  ChainVerifies
