\* main and one actor, a connection of two bytes, which may end
CONSTANTS
  Actor = {m1, a1}
  Mains = {m1}
  Null = Null
  MsgType = {}
  InitSize = 3
  MaxMail = 0
  Fd = {f1, f2}
  BufSize = 2
  MaxBytes = 2
  MaxCount = 2
SPECIFICATION NetSpec
INVARIANT EofWakesReaders
CHECK_DEADLOCK FALSE
