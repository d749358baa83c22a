\* Two periods, three transactions, every kind of request.
CONSTANTS
  t1 = t1  t2 = t2  t3 = t3
  N = 2
  Tx = {t1, t2, t3}
  NoTx = NoTx
  Ops = {"generate", "close", "closeFy", "reopen", "post", "repost"}
  MaxVersion = 4
SPECIFICATION Spec
SYMMETRY Symmetry
INVARIANTS
  TypeOK
  StatusAudited
  AdmittedPostsStayOpen
  OnlyRepostsDeadlock
PROPERTIES
  PeriodsAlternate
