\* One IPC, two receipts, two transactions, every kind of request.
CONSTANTS
  t1 = t1  t2 = t2  r1 = r1  r2 = r2  i1 = i1
  Ipc = {i1}
  Receipt = {r1, r2}
  Month = Month
  Advance = Advance
  IpcInput <- Inputs2
  Amount <- OneOrTwo
  Tx = {t1, t2}
  NoTx = NoTx
  Ops = {"postIpc", "cancelIpc", "repostIpc", "postReceipt", "cancelReceipt",
         "repostReceipt", "release"}
SPECIFICATION Spec
SYMMETRY Symmetry
INVARIANTS
  TypeOK
  SettledIpcWasPosted
  
PROPERTIES
  OnlyStaleOverCollects
  OnlyStaleOverReleases
  OnlyStaleOverRecovers
