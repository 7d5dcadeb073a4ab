\* main and one actor compete for two connections; liveness, so no symmetry
CONSTANTS
  Actor = {m1, a1}
  Mains = {m1}
  Null = Null
  MsgType = {}
  InitSize = 3
  MaxMail = 0
  Fd = {f1, f2, f3}
  BufSize = 1
  MaxBytes = 0
  MaxCount = 1
SPECIFICATION NetFairSpec
INVARIANTS AcceptNotMissed
PROPERTY AcceptServed
CHECK_DEADLOCK FALSE
