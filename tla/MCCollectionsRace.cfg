\* Two receipts race one IPC that is never corrected.
CONSTANTS
  t1 = t1  t2 = t2  r1 = r1  r2 = r2  i1 = i1
  Ipc = {i1}
  Receipt = {r1, r2}
  Month = Month
  Advance = Advance
  IpcInput <- Inputs1
  Amount <- OneOrTwo
  Tx = {t1, t2}
  NoTx = NoTx
  Ops = {"postIpc", "postReceipt"}
SPECIFICATION Spec
INVARIANT NeverOverCollected
