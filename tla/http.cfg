\* a server and three connections, two handlers; a client sends at most two bytes
CONSTANTS
  Actor = {m1, a1, a2}
  Mains = {m1}
  Null = Null
  MsgType = {}
  InitSize = 3
  MaxMail = 0
  Fd = {f1, f2, f3, f4}
  BufSize = 2
  MaxBytes = 2
  MaxCount = 1
SPECIFICATION HttpFairSpec
INVARIANTS ConnectionOwned ResponseWhole
PROPERTIES RequestAnswered
CHECK_DEADLOCK FALSE
