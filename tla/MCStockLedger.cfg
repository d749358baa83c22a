\* One bill, one issue, one journal, two transactions, every kind of request.
CONSTANTS
  t1 = t1  t2 = t2  pA = pA  pB = pB  b1 = b1  b2 = b2  i1 = i1  j1 = j1
  Pair = {pA, pB}
  Bill = {b1}
  Issue = {i1}
  Journal = {j1}
  BillInput <- Bills
  IssueInput <- Issues
  JournalInput <- Journals
  Month = Month
  MaxReposts = 1
  Tx = {t1, t2}
  NoTx = NoTx
  Ops = {"postBill", "cancelBill", "repostBill", "postIssue", "reverseIssue",
         "postJournal", "reverseJournal"}
SPECIFICATION Spec
SYMMETRY Symmetry
INVARIANTS
  TypeOK
  StockMatchesDocuments
  SoundUntilShort
  MovementsAddUp
  
PROPERTIES
  OnlyUndoneReceiptsDrift
